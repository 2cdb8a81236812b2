---------------------------- MODULE Progress_proofs ----------------------------
(***************************************************************************)
(* Theorems about the parts of tier0 in which threads wait for one another *)
(* (see MCProgress), for any number of threads: CThreadFastMutex, the      *)
(* one-time answers with the sleep's timer, and the output of messages.    *)
(***************************************************************************)
EXTENDS MCProgress, FiniteSetTheorems, TLAPS

(***************************************************************************)
(* Theorems about CThreadFastMutex, for any number of threads.             *)
(*                                                                         *)
(* The owner word alone is well behaved whatever the clients do: only its  *)
(* owner changes it back to "nobody" (Inside).  What the count is worth    *)
(* depends on the clients.  As long as nobody unlocks what it did not lock *)
(* (Stray = {}), or nobody nests (MaxDepth = 1), the count never lets its  *)
(* owner leave too early, and who has been let in owns the lock.           *)
(***************************************************************************)

(* The steps of Lock and Unlock at which a thread acts as the owner.       *)
Acting == {"claimed", "drop", "clear", "release"}

(* Who acts as the owner is the owner, who unlocks a lock it saw without   *)
(* owner is not, and who is in Lock has not locked too often.              *)
Inside ==
  \A t \in Thread :
    /\ pc[t] \in Acting => owner = t
    /\ pc[t] \in {"unowned", "zero"} => owner # t
    /\ pc[t] \in {"lock", "claimed"} => depth[t] < MaxDepth

(* The count never exceeds what its owner has locked; it is negative only  *)
(* while its owner is about to clear it.                                   *)
CountBounded ==
  /\ \A t \in Thread :
       owner = t => /\ pc[t] \in {"client", "lock"} => cnt <= depth[t]
                    /\ pc[t] = "drop" => cnt <= depth[t] + 1
  /\ cnt < 0 => \E t \in Thread : pc[t] = "clear"

TInv == TypeOK /\ Inside /\ CountBounded

-----------------------------------------------------------------------------
(* Whoever leaves has returned every lock it took.                         *)
Leaves ==
  \A t \in Thread :
    /\ pc[t] \in {"claimed", "clear", "release"} => depth[t] = 0
    /\ pc[t] = "drop" => depth[t] = 0 \/ cnt = depth[t] + 1

(* Without stray unlocks the count is exact, and nobody sees an unlocked   *)
(* lock in Unlock.                                                         *)
CountExact ==
  Stray = {} =>
    \A t \in Thread :
      /\ pc[t] \notin {"unowned", "zero"}
      /\ owner = t /\ pc[t] \in {"client", "lock"} => cnt = depth[t]
      /\ pc[t] = "drop" => cnt = depth[t] + 1

MInv == TInv /\ HolderOwns /\ Leaves /\ CountExact

-----------------------------------------------------------------------------
LEMMA TInit == Init => TInv
BY NobodyAssumption, DepthAssumption
   DEF Init, TInv, TypeOK, Inside, CountBounded, Acting, Label

LEMMA TStep == TInv /\ [Next]_vars => TInv'
<1>. SUFFICES ASSUME TInv, [Next]_vars PROVE TInv'
  OBVIOUS
<1>. USE NobodyAssumption, DepthAssumption
<1>. USE DEF TInv, TypeOK, Inside, CountBounded, Acting, Label, Goto
<1>1. CASE UNCHANGED vars
  BY <1>1 DEF vars
<1>2. ASSUME NEW t \in Thread, Lock(t) PROVE TInv'
  BY <1>2 DEF Lock
<1>3. ASSUME NEW t \in Thread, Unlock(t) PROVE TInv'
  BY <1>3 DEF Unlock
<1>4. ASSUME NEW t \in Thread, Nest(t) PROVE TInv'
  BY <1>4 DEF Nest
<1>5. ASSUME NEW t \in Thread, Claim(t) PROVE TInv'
  BY <1>5 DEF Claim
<1>6. ASSUME NEW t \in Thread, SetCount(t) PROVE TInv'
  BY <1>6 DEF SetCount
<1>7. ASSUME NEW t \in Thread, GiveUp(t) PROVE TInv'
  BY <1>7 DEF GiveUp
<1>8. ASSUME NEW t \in Thread, Drop(t) PROVE TInv'
  BY <1>8 DEF Drop
<1>9. ASSUME NEW t \in Thread, Clear(t) PROVE TInv'
  BY <1>9 DEF Clear
<1>10. ASSUME NEW t \in Thread, Release(t) PROVE TInv'
  BY <1>10 DEF Release
<1>11. ASSUME NEW t \in Thread, SeeCount(t) PROVE TInv'
  BY <1>11 DEF SeeCount
<1>12. ASSUME NEW t \in Thread, ZeroCount(t) PROVE TInv'
  BY <1>12 DEF ZeroCount
<1>. QED
  BY <1>1, <1>2, <1>3, <1>4, <1>5, <1>6, <1>7, <1>8, <1>9, <1>10, <1>11, <1>12
     DEF Next, Advance

(* Whatever the clients do, stray unlocks included, the count stays within *)
(* -1 and the deepest nesting, and the owner word names a thread or none.  *)
THEOREM TypeCorrect == Spec => []TypeOK
<1>1. TInv => TypeOK
  BY DEF TInv
<1>. QED
  BY TInit, TStep, <1>1, PTL DEF Spec

-----------------------------------------------------------------------------
(* The clients for whom the count is enough: nobody unlocks what it did    *)
(* not lock, or nobody nests.                                              *)
Disciplined == Stray = {} \/ MaxDepth = 1

LEMMA MInit == Init => MInv
<1>. SUFFICES ASSUME Init PROVE MInv
  OBVIOUS
<1>1. TInv
  BY TInit
<1>2. HolderOwns /\ Leaves /\ CountExact
  BY NobodyAssumption DEF Init, HolderOwns, Leaves, CountExact
<1>. QED
  BY <1>1, <1>2 DEF MInv

LEMMA MStep == Disciplined /\ MInv /\ [Next]_vars => MInv'
<1>. SUFFICES ASSUME Disciplined, MInv, [Next]_vars PROVE MInv'
  OBVIOUS
<1>1. TInv'
  BY TStep DEF MInv
<1>. DEFINE H == HolderOwns /\ Leaves /\ CountExact
<1>2. SUFFICES H'
  BY <1>1 DEF MInv
<1>. USE NobodyAssumption, DepthAssumption
<1>. USE DEF MInv, TInv, TypeOK, Inside, CountBounded, Acting, Label, Goto,
             HolderOwns, Leaves, CountExact, Disciplined
<1>3. CASE UNCHANGED vars
  BY <1>3 DEF vars
<1>4. ASSUME NEW t \in Thread, Lock(t) PROVE H'
  BY <1>4 DEF Lock
<1>5. ASSUME NEW t \in Thread, Unlock(t) PROVE H'
  BY <1>5 DEF Unlock
<1>6. ASSUME NEW t \in Thread, Nest(t) PROVE H'
  BY <1>6 DEF Nest
<1>7. ASSUME NEW t \in Thread, Claim(t) PROVE H'
  BY <1>7 DEF Claim
<1>8. ASSUME NEW t \in Thread, SetCount(t) PROVE H'
  BY <1>8 DEF SetCount
<1>9. ASSUME NEW t \in Thread, GiveUp(t) PROVE H'
  BY <1>9 DEF GiveUp
<1>10. ASSUME NEW t \in Thread, Drop(t) PROVE H'
  BY <1>10 DEF Drop
<1>11. ASSUME NEW t \in Thread, Clear(t) PROVE H'
  BY <1>11 DEF Clear
<1>12. ASSUME NEW t \in Thread, Release(t) PROVE H'
  BY <1>12 DEF Release
<1>13. ASSUME NEW t \in Thread, SeeCount(t) PROVE H'
  BY <1>13 DEF SeeCount
<1>14. ASSUME NEW t \in Thread, ZeroCount(t) PROVE H'
  BY <1>14 DEF ZeroCount
<1>. QED
  BY <1>3, <1>4, <1>5, <1>6, <1>7, <1>8, <1>9, <1>10, <1>11, <1>12, <1>13, <1>14
     DEF Next, Advance

(* Who has been let in owns the lock, so no two threads are inside it, if  *)
(* stray unlocks and nesting do not meet.                                  *)
THEOREM HolderOwnsAlways == Disciplined => (Spec => []HolderOwns)
<1>. SUFFICES ASSUME Disciplined PROVE Spec => []HolderOwns
  OBVIOUS
<1>1. Init => MInv
  BY MInit
<1>2. MInv /\ [Next]_vars => MInv'
  BY MStep
<1>3. MInv => HolderOwns
  BY DEF MInv
<1>. QED
  BY <1>1, <1>2, <1>3, PTL DEF Spec

(* Mutual exclusion follows: the owner word names one thread.              *)
THEOREM MutualExclusionAlways == Disciplined => (Spec => []MutualExclusion)
<1>. SUFFICES ASSUME Disciplined PROVE Spec => []MutualExclusion
  OBVIOUS
<1>1. Spec => []HolderOwns
  BY HolderOwnsAlways
<1>2. HolderOwns => MutualExclusion
  BY DEF HolderOwns, MutualExclusion
<1>. QED
  BY <1>1, <1>2, PTL

(* Without stray unlocks, the owner's count is the number of locks it has  *)
(* taken and not returned, at any depth of nesting.                        *)
THEOREM CountIsDepthAlways == Stray = {} => (Spec => []CountIsDepth)
<1>. SUFFICES ASSUME Stray = {} PROVE Spec => []CountIsDepth
  OBVIOUS
<1>1. Init => MInv
  BY MInit
<1>2. MInv /\ [Next]_vars => MInv'
  BY MStep DEF Disciplined
<1>3. MInv => CountIsDepth
  BY DEF MInv, CountExact, CountIsDepth
<1>. QED
  BY <1>1, <1>2, <1>3, PTL DEF Spec

-----------------------------------------------------------------------------
(* Clients that stray and do not nest are those of another instance.       *)
LEMMA TStraying == TInv /\ Straying!Next => TInv'
<1>. SUFFICES ASSUME TInv, Straying!Next PROVE TInv'
  OBVIOUS
<1>1. ASSUME NEW t \in Thread, Straying!Lock(t) PROVE Lock(t)
  BY <1>1, DepthAssumption DEF Straying!Lock, Lock, Straying!Goto, Goto, TInv, TypeOK
<1>2. ASSUME NEW t \in Thread, Straying!Unlock(t) PROVE TInv'
  BY <1>2, NobodyAssumption, DepthAssumption
     DEF Straying!Unlock, Straying!Goto, TInv, TypeOK, Inside, CountBounded, Acting, Label
<1>3. ASSUME NEW t \in Thread, Straying!Advance(t) PROVE Advance(t)
  BY <1>3 DEF Straying!Advance, Advance, Straying!Goto, Goto, Straying!Nest, Nest,
              Straying!Claim, Claim, Straying!SetCount, SetCount, Straying!GiveUp, GiveUp,
              Straying!Drop, Drop, Straying!Clear, Clear, Straying!Release, Release,
              Straying!SeeCount, SeeCount, Straying!ZeroCount, ZeroCount
<1>4. PICK t \in Thread : Straying!Lock(t) \/ Straying!Unlock(t) \/ Straying!Advance(t)
  BY DEF Straying!Next
<1>. QED
  BY <1>1, <1>2, <1>3, <1>4, TStep DEF Next

(* The count keeps its range with every kind of client, and among those    *)
(* that unlock only what they locked it is the number of locks their owner *)
(* has taken.                                                              *)
THEOREM CountAlwaysInOrder == Stray = {} => (MCSpec => []CountInOrder)
<1>. SUFFICES ASSUME Stray = {} PROVE MCSpec => []CountInOrder
  OBVIOUS
<1>. DEFINE I == TInv /\ (part # "straying" => MInv)
<1>1. MCInit => I
  BY TInit, MInit DEF MCInit
<1>2. I /\ [MCNext]_allVars => I'
  <2>. SUFFICES ASSUME I, [MCNext]_allVars PROVE I'
    OBVIOUS
  <2>1. CASE part = "straying"
    <3>1. part' = part /\ (Straying!Next \/ UNCHANGED vars)
      BY <2>1 DEF MCNext, Alone, allVars
    <3>. QED
      BY <2>1, <3>1, TStep, TStraying
  <2>2. CASE part # "straying"
    <3>1. part' = part /\ [Next]_vars
      BY <2>2 DEF MCNext, Alone, allVars
    <3>. QED
      BY <2>2, <3>1, TStep, MStep DEF Disciplined
  <2>. QED
    BY <2>1, <2>2
<1>3. I => CountInOrder
  BY DEF CountInOrder, CountWhenNesting, TInv, MInv, CountExact, CountIsDepth
<1>. QED
  BY <1>1, <1>2, <1>3, PTL DEF MCSpec

-----------------------------------------------------------------------------
(***************************************************************************)
(* Theorems about the one-time answers and the sleep's timer, for any      *)
(* number of threads and of terminations.                                  *)
(*                                                                         *)
(* Of an answer's word: it is "unknown" only while nobody asks, and        *)
(* "ready" only when the one who asked is done, so there never is a second *)
(* one.  Of the timer: what has been raised and not been stored yet is     *)
(* counted by the threads that are about to store it.                      *)
(***************************************************************************)

(* Every thread is somewhere.                                              *)
PlacesOK == at = [t \in Sleeper |-> at[t]]

GatesOK ==
  /\ word \in [Gate -> {"unknown", "asking", "ready"}]
  /\ value \in [Gate -> Answer \union {"none"}]

TimerOK == timer \in {"down", "raising", "raised", "failed", "released"}

(* The thread that has claimed the answer g, terminated or not.            *)
Claimant(t, g) == at[t] \in {<<g, "asking">>, <<g, "publish">>}

AInv ==
  /\ PlacesOK /\ GatesOK /\ TimerOK
  /\ \A g \in Gate, t \in Sleeper :
       /\ Claimant(t, g) => word[g] = "asking"
       /\ at[t] = <<g, "publish">> => value[g] # "none"
  /\ \A g \in Gate, s, t \in Sleeper : Claimant(s, g) /\ Claimant(t, g) => s = t
  /\ \A g \in Gate : word[g] = "ready" => value[g] # "none"

-----------------------------------------------------------------------------
LEMMA AInit == SleepInit => AInv
BY DEF SleepInit, AInv, PlacesOK, GatesOK, TimerOK, Claimant, Idle

(* A step of t that leaves the answers alone, and takes t to where nothing *)
(* is claimed.                                                             *)
Elsewhere(t) ==
  /\ UNCHANGED gateVars /\ TimerOK'
  /\ at' = [at EXCEPT ![t] = at'[t]]
  /\ at'[t][2] \notin {"asking", "publish"}

LEMMA AElsewhere ==
  ASSUME AInv, NEW t \in Sleeper, Elsewhere(t)
  PROVE  AInv'
BY DEF AInv, PlacesOK, GatesOK, TimerOK, Claimant, Elsewhere, gateVars

(* The steps of the one-time answers.                                      *)
LEMMA AGate ==
  ASSUME AInv, NEW t \in Sleeper, NEW g \in Gate,
         See(t, g) \/ ClaimAnswer(t, g) \/ LookUp(t, g) \/ Publish(t, g)
  PROVE  AInv'
<1>1. CASE See(t, g)
  BY <1>1, AElsewhere DEF See, Moves, Elsewhere, AInv, PlacesOK, TimerOK, timerVars
<1>2. CASE ClaimAnswer(t, g)
  BY <1>2 DEF ClaimAnswer, Moves, timerVars, AInv, PlacesOK, GatesOK, TimerOK, Claimant
<1>3. CASE LookUp(t, g)
  BY <1>3 DEF LookUp, Moves, timerVars, AInv, PlacesOK, GatesOK, TimerOK, Claimant, Answer
<1>4. CASE Publish(t, g)
  BY <1>4 DEF Publish, Moves, timerVars, AInv, PlacesOK, GatesOK, TimerOK, Claimant
<1>. QED
  BY <1>1, <1>2, <1>3, <1>4

LEMMA AStep == AInv /\ [SleepNext]_sleepVars => AInv'
<1>. SUFFICES ASSUME AInv, [SleepNext]_sleepVars PROVE AInv'
  OBVIOUS
<1>1. CASE UNCHANGED sleepVars
  BY <1>1 DEF AInv, PlacesOK, GatesOK, TimerOK, Claimant, sleepVars
<1>. PlacesOK /\ TimerOK
  BY DEF AInv
<1>. USE DEF Elsewhere, Moves, PlacesOK, TimerOK, timerVars
<1>2. ASSUME NEW t \in Sleeper, Elsewhere(t) PROVE AInv'
  BY <1>2, AElsewhere
<1>3. ASSUME NEW t \in Sleeper, Calls(t) PROVE Elsewhere(t)
  BY <1>3 DEF Calls, PreciseSleep, Ask, Tier0ShutdownHighResTimer, Call
<1>4. ASSUME NEW t \in Sleeper, Gates(t) PROVE AInv'
  <2>1. CASE \E g \in Gate : See(t, g) \/ ClaimAnswer(t, g) \/ LookUp(t, g) \/ Publish(t, g)
    BY <2>1, AGate
  <2>2. CASE BPreciseSleepEnabled(t) \/ InitPlatTimer(t) \/ Told(t)
    <3>. Elsewhere(t)
      BY <2>2 DEF BPreciseSleepEnabled, InitPlatTimer, Told, Hear, Idle
    <3>. QED  BY <1>2
  <2>3. CASE BHighResTimerEnabled(t)
    <3>. Elsewhere(t)
      BY <2>3 DEF BHighResTimerEnabled, Hear
    <3>. QED  BY <1>2
  <2>. QED
    BY <1>4, <2>1, <2>2, <2>3 DEF Gates
<1>5. ASSUME NEW t \in Sleeper, Timer(t) PROVE Elsewhere(t)
  <2>1. CASE RaiseClaim(t) \/ TimeBeginPeriod(t) \/ RaiseStore(t)
    BY <2>1 DEF RaiseClaim, TimeBeginPeriod, RaiseStore
  <2>2. CASE RaiseWait(t) \/ RaiseExpire(t) \/ RaiseReset(t)
    BY <2>2 DEF RaiseWait, RaiseExpire, RaiseReset
  <2>3. CASE ShutdownSee(t)
    BY <2>3 DEF ShutdownSee, Idle
  <2>4. CASE ShutdownWait(t)
    BY <2>4 DEF ShutdownWait
  <2>5. CASE TimeEndPeriod(t)
    BY <2>5 DEF TimeEndPeriod, Idle
  <2>6. CASE ShutdownFailed(t)
    BY <2>6 DEF ShutdownFailed, Idle
  <2>. QED
    BY <1>5, <2>1, <2>2, <2>3, <2>4, <2>5, <2>6 DEF Timer
<1>6. ASSUME NEW t \in Sleeper, Wake(t) PROVE Elsewhere(t)
  BY <1>6 DEF Wake, Idle
<1>7. ASSUME NEW t \in Sleeper, Terminate(t) PROVE AInv'
  BY <1>7 DEF Terminate, AInv, PlacesOK, GatesOK, TimerOK, Claimant, gateVars
<1>. QED
  BY <1>1, <1>2, <1>3, <1>4, <1>5, <1>6, <1>7 DEF SleepNext, SleepAdvance

(* What AInv says of one step: an answer that is there stays as it is.     *)
LEMMA AnswerStays ==
  ASSUME AInv, SleepNext, NEW g \in Gate, word[g] = "ready"
  PROVE  value[g] # "none" /\ word'[g] = "ready" /\ value'[g] = value[g]
<1>1. value[g] # "none" /\ \A t \in Sleeper : ~Claimant(t, g)
  BY DEF AInv
<1>2. CASE UNCHANGED gateVars
  BY <1>1, <1>2 DEF gateVars
<1>3. ASSUME NEW t \in Sleeper, NEW h \in Gate,
             ClaimAnswer(t, h) \/ LookUp(t, h) \/ Publish(t, h)
      PROVE  word'[g] = "ready" /\ value'[g] = value[g]
  BY <1>1, <1>3 DEF ClaimAnswer, LookUp, Publish, Moves, Claimant, AInv, GatesOK
<1>4. ASSUME NEW t \in Sleeper, Calls(t) \/ Wake(t) \/ Terminate(t) PROVE UNCHANGED gateVars
  BY <1>4 DEF Calls, PreciseSleep, Ask, Tier0ShutdownHighResTimer, Call, Wake, Terminate, gateVars
<1>5. ASSUME NEW t \in Sleeper, Gates(t)
      PROVE  UNCHANGED gateVars \/ \E h \in Gate : ClaimAnswer(t, h) \/ LookUp(t, h) \/ Publish(t, h)
  BY <1>5 DEF Gates, See, BPreciseSleepEnabled, BHighResTimerEnabled, InitPlatTimer, Told, Hear
<1>6. ASSUME NEW t \in Sleeper, Timer(t) PROVE UNCHANGED gateVars
  BY <1>6 DEF Timer, RaiseClaim, TimeBeginPeriod, RaiseStore, RaiseWait, RaiseExpire, RaiseReset,
              ShutdownSee, ShutdownWait, TimeEndPeriod, ShutdownFailed, gateVars
<1>. QED
  BY <1>1, <1>2, <1>3, <1>4, <1>5, <1>6 DEF SleepNext, SleepAdvance

LEMMA AlwaysAInv == SleepSpec => []AInv
BY AInit, AStep, PTL DEF SleepSpec

(* Whatever threads ask at the same time, and whichever of them are        *)
(* terminated, a one-time answer that is there is complete and stays.      *)
THEOREM AnswersAgreeAlways == SleepSpec => AnswersAgree
<1>1. AInv /\ [SleepNext]_sleepVars =>
        [\A g \in Gate : word[g] = "ready" =>
           /\ value[g] # "none"
           /\ word'[g] = "ready" /\ value'[g] = value[g]]_sleepVars
  BY AnswerStays
<1>. QED
  BY AlwaysAInv, <1>1, PTL DEF SleepSpec, AnswersAgree

-----------------------------------------------------------------------------
(* The threads between the claim of the raise and timeBeginPeriod, and     *)
(* those that have raised the timer and not said so yet.                   *)
Begun == {t \in Sleeper : at[t] = <<"raise", "begin">>}
Owing == {t \in Sleeper : at[t] = <<"raise", "raised">>}

Raiser(t) ==
  at[t] \in {<<"raise", "begin">>, <<"raise", "raised">>, <<"raise", "failed">>}

One(b) == IF b THEN 1 ELSE 0

CountsOK == raises \in Nat /\ releases \in Nat /\ resets \in Nat

(* Each raise, begun or done, was claimed in a timer that was down, as it  *)
(* was at first and after each reset; each is stored once at most, and     *)
(* released only where it was stored.                                      *)
Accounts ==
  /\ raises + Cardinality(Begun) + One(timer = "down") <= 1 + resets
  /\ releases + Cardinality(Owing) + One(timer = "raised") <= raises

(* As long as nothing was reset there is one raiser, while the state says  *)
(* that there is.                                                          *)
OneRaise ==
  resets = 0 =>
    /\ \A t \in Sleeper : Raiser(t) => timer = "raising"
    /\ \A s, t \in Sleeper : Raiser(s) /\ Raiser(t) => s = t
    /\ \A t \in Sleeper : at[t] = <<"raise", "failed">> => raises = 0
    /\ timer = "failed" => raises = 0
    /\ timer = "released" => raises = releases

RInv == PlacesOK /\ TimerOK /\ CountsOK /\ Accounts /\ OneRaise

-----------------------------------------------------------------------------
(* How the size of a set changes with one element.                         *)
LEMMA OneApart ==
  ASSUME NEW S, IsFiniteSet(S), NEW T, NEW e, T \ {e} = S \ {e}
  PROVE  /\ Cardinality(S) \in Nat
         /\ Cardinality(T) = Cardinality(S) - One(e \in S) + One(e \in T)
<1>. DEFINE R == S \ {e}
<1>1. IsFiniteSet(R) /\ Cardinality(R) \in Nat /\ Cardinality(S) \in Nat
  BY FS_RemoveElement, FS_CardinalityType
<1>2. ASSUME NEW U, e \in U, U \ {e} = R PROVE Cardinality(U) = Cardinality(R) + 1
  <2>1. U = R \union {e} /\ e \notin R
    BY <1>2
  <2>. QED
    BY <1>1, <2>1, FS_AddElement
<1>3. ASSUME NEW U, e \notin U, U \ {e} = R PROVE Cardinality(U) = Cardinality(R)
  <2>1. U = R
    BY <1>3
  <2>. QED
    BY <2>1
<1>4. Cardinality(S) = Cardinality(R) + One(e \in S)
  BY <1>1, <1>2, <1>3 DEF One
<1>5. Cardinality(T) = Cardinality(R) + One(e \in T)
  BY <1>1, <1>2, <1>3 DEF One
<1>. QED
  BY <1>1, <1>4, <1>5 DEF One

(* The same for the two sets, when one thread moves.                       *)
LEMMA Counts ==
  ASSUME PlacesOK, NEW t \in Sleeper, at' = [at EXCEPT ![t] = at'[t]]
  PROVE  /\ Cardinality(Begun) \in Nat /\ Cardinality(Owing) \in Nat /\ Cardinality(Begun)' \in Nat
         /\ Cardinality(Begun)' = Cardinality(Begun) - One(t \in Begun) + One(t \in Begun')
         /\ Cardinality(Owing)' = Cardinality(Owing) - One(t \in Owing) + One(t \in Owing')
<1>1. IsFiniteSet(Begun) /\ IsFiniteSet(Owing) /\ IsFiniteSet(Begun')
  BY SleeperAssumption, FS_Subset DEF Begun, Owing
<1>2. Begun' \ {t} = Begun \ {t} /\ Owing' \ {t} = Owing \ {t}
  BY DEF PlacesOK, Begun, Owing
<1>. QED
  BY <1>1, <1>2, OneApart, FS_CardinalityType

LEMMA RInit == SleepInit => RInv
<1>. SUFFICES ASSUME SleepInit PROVE RInv
  OBVIOUS
<1>1. Begun = {} /\ Owing = {} /\ \A t \in Sleeper : ~Raiser(t)
  BY DEF SleepInit, Begun, Owing, Raiser, Idle
<1>2. Accounts
  BY <1>1, FS_EmptySet DEF SleepInit, Accounts, One
<1>. QED
  BY <1>1, <1>2 DEF SleepInit, RInv, PlacesOK, TimerOK, CountsOK, OneRaise, Raiser

(* A step that has nothing to do with the raising of the timer.            *)
Aside(t) ==
  /\ UNCHANGED <<timer, raises, releases, resets>>
  /\ at' = [at EXCEPT ![t] = at'[t]]
  /\ ~Raiser(t) /\ ~Raiser(t)'

LEMMA RAside ==
  ASSUME RInv, NEW t \in Sleeper, Aside(t)
  PROVE  RInv'
<1>1. Begun' = Begun /\ Owing' = Owing /\ \A s \in Sleeper : Raiser(s)' = Raiser(s)
  BY DEF RInv, PlacesOK, Aside, Begun, Owing, Raiser
<1>2. \A s \in Sleeper : at'[s] = <<"raise", "failed">> => at[s] = <<"raise", "failed">>
  BY DEF RInv, PlacesOK, Aside, Raiser
<1>. QED
  BY <1>1, <1>2 DEF RInv, PlacesOK, TimerOK, CountsOK, Accounts, OneRaise, One, Aside

(* The steps that count.  Where a thread stands before and after one says  *)
(* how the two sets change.                                                *)
LEMMA RCounts ==
  ASSUME RInv, NEW t \in Sleeper,
         RaiseClaim(t) \/ TimeBeginPeriod(t) \/ RaiseStore(t)
           \/ RaiseReset(t) \/ TimeEndPeriod(t) \/ ShutdownFailed(t)
  PROVE  RInv'
<1>. USE DEF RInv, PlacesOK, TimerOK, CountsOK, Moves, timerVars
<1>. DEFINE b == Cardinality(Begun)
            o == Cardinality(Owing)
<1>1. /\ at' = [at EXCEPT ![t] = at'[t]]
      /\ PlacesOK'
  <2>1. CASE RaiseClaim(t)  BY <2>1 DEF RaiseClaim
  <2>2. CASE TimeBeginPeriod(t)  BY <2>2 DEF TimeBeginPeriod
  <2>3. CASE RaiseStore(t)  BY <2>3 DEF RaiseStore
  <2>4. CASE RaiseReset(t)  BY <2>4 DEF RaiseReset
  <2>5. CASE TimeEndPeriod(t)  BY <2>5 DEF TimeEndPeriod
  <2>6. CASE ShutdownFailed(t)  BY <2>6 DEF ShutdownFailed
  <2>. QED  BY <2>1, <2>2, <2>3, <2>4, <2>5, <2>6
<1>2. /\ b \in Nat /\ o \in Nat /\ b' \in Nat
      /\ b' = b - One(t \in Begun) + One(t \in Begun')
      /\ o' = o - One(t \in Owing) + One(t \in Owing')
  BY <1>1, Counts
<1>3. /\ t \in Begun <=> at[t] = <<"raise", "begin">>
      /\ t \in Owing <=> at[t] = <<"raise", "raised">>
      /\ t \in Begun' <=> at'[t] = <<"raise", "begin">>
      /\ t \in Owing' <=> at'[t] = <<"raise", "raised">>
  BY DEF Begun, Owing
<1>4. \A s \in Sleeper \ {t} : at'[s] = at[s]
  BY <1>1
<1>5. /\ raises + b + One(timer = "down") <= 1 + resets
      /\ releases + o + One(timer = "raised") <= raises
  BY DEF Accounts
<1>6. /\ raises' + b' + One(timer' = "down") <= 1 + resets'
      /\ releases' + o' + One(timer' = "raised") <= raises'
      => Accounts'
  BY DEF Accounts, One
<1>. HIDE DEF b, o
<1>7. CASE RaiseClaim(t)
  <2>1. at[t] = <<"raise", "claim">>
    BY <1>7 DEF RaiseClaim
  <2>2. CASE timer = "down"
    <3>1. at'[t] = <<"raise", "begin">> /\ timer' = "raising" /\ UNCHANGED <<raises, releases, resets>>
      BY <1>7, <2>2 DEF RaiseClaim
    <3>2. b' = b + 1 /\ o' = o
      BY <1>2, <1>3, <2>1, <3>1 DEF One
    <3>3. Accounts'
      BY <1>2, <1>5, <1>6, <2>2, <3>1, <3>2 DEF One
    <3>4. OneRaise'
      BY <1>1, <1>4, <2>2, <3>1 DEF OneRaise, Raiser
    <3>. QED
      BY <1>1, <3>1, <3>3, <3>4
  <2>3. CASE timer # "down"
    <3>1. Aside(t)
      BY <1>1, <1>7, <2>1, <2>3 DEF RaiseClaim, Aside, Raiser
    <3>. QED
      BY <3>1, RAside
  <2>. QED
    BY <2>2, <2>3
<1>8. CASE TimeBeginPeriod(t)
  <2>1. at[t] = <<"raise", "begin">> /\ UNCHANGED <<timer, releases, resets>>
    BY <1>8 DEF TimeBeginPeriod
  <2>2. \/ at'[t] = <<"raise", "raised">> /\ raises' = raises + 1
        \/ at'[t] = <<"raise", "failed">> /\ raises' = raises
    BY <1>8 DEF TimeBeginPeriod
  <2>3. /\ b' = b - 1
        /\ o' + raises = o + raises'
    BY <1>2, <1>3, <2>1, <2>2 DEF One
  <2>4. CountsOK' /\ Accounts'
    BY <1>2, <1>5, <1>6, <2>1, <2>2, <2>3 DEF One
  <2>5. raises + b <= 1 + resets /\ b >= 1
    <3>1. raises + b + One(timer = "down") <= 1 + resets /\ One(timer = "down") \in Nat
      BY <1>5 DEF One
    <3>2. b >= 1
      BY <1>2, <2>3
    <3>. QED
      BY <1>2, <3>1, <3>2
  <2>6. resets = 0 => raises = 0
    BY <1>2, <2>5
  <2>7. Raiser(t)
    BY <2>1 DEF Raiser
  <2>8. OneRaise'
    BY <1>1, <1>4, <2>1, <2>2, <2>6, <2>7 DEF OneRaise, Raiser
  <2>. QED
    BY <1>1, <2>1, <2>4, <2>8
<1>9. CASE RaiseStore(t)
  <2>1. PICK s \in {"raised", "failed"} :
          /\ at[t] = <<"raise", s>> /\ at'[t] = <<"clock", "claim">> /\ timer' = s
          /\ UNCHANGED <<raises, releases, resets>>
    BY <1>9 DEF RaiseStore
  <2>2. b' = b /\ o' + One(timer' = "raised") = o
    BY <1>2, <1>3, <2>1 DEF One
  <2>3. CountsOK' /\ Accounts'
    BY <1>2, <1>5, <1>6, <2>1, <2>2 DEF One
  <2>4. OneRaise'
    BY <1>1, <1>4, <2>1 DEF OneRaise, Raiser
  <2>. QED
    BY <1>1, <2>1, <2>3, <2>4
<1>10. CASE RaiseReset(t)
  <2>1. /\ at[t] = <<"raise", "expired">> /\ at'[t] = <<"clock", "claim">> /\ UNCHANGED <<raises, releases>>
        /\ \/ timer = "raising" /\ timer' = "down" /\ resets' = resets + 1
           \/ UNCHANGED <<timer, resets>>
    BY <1>10 DEF RaiseReset
  <2>2. b' = b /\ o' = o
    BY <1>2, <1>3, <2>1 DEF One
  <2>3. CountsOK' /\ TimerOK' /\ Accounts'
    BY <1>2, <1>5, <1>6, <2>1, <2>2 DEF One
  <2>4. OneRaise'
    BY <1>1, <1>4, <2>1 DEF OneRaise, Raiser
  <2>. QED
    BY <1>1, <2>1, <2>3, <2>4
<1>11. CASE TimeEndPeriod(t)
  <2>1. at[t][1] = "shutdown" /\ at'[t][1] \in {"client", "shutdown"} /\ UNCHANGED <<raises, resets>>
    BY <1>11 DEF TimeEndPeriod, Idle
  <2>2. b' = b /\ o' = o
    BY <1>2, <1>3, <2>1 DEF One
  <2>3. \/ timer = "raised" /\ timer' = "released" /\ releases' = releases + 1
        \/ UNCHANGED <<timer, releases>>
    BY <1>11 DEF TimeEndPeriod
  <2>4. CountsOK' /\ TimerOK' /\ Accounts'
    BY <1>2, <1>5, <1>6, <2>1, <2>2, <2>3 DEF One
  <2>5. ASSUME resets = 0, timer = "raised" PROVE raises = releases + 1
    <3>1. raises + b <= 1 /\ releases + o + 1 <= raises
      BY <1>2, <1>5, <2>5 DEF One
    <3>. QED
      BY <1>2, <3>1
  <2>6. OneRaise'
    BY <1>1, <1>4, <2>1, <2>3, <2>5 DEF OneRaise, Raiser
  <2>. QED
    BY <1>1, <2>4, <2>6
<1>12. CASE ShutdownFailed(t)
  <2>1. at[t][1] = "shutdown" /\ at'[t][1] = "client" /\ UNCHANGED <<raises, releases, resets>>
    BY <1>12 DEF ShutdownFailed, Idle
  <2>2. b' = b /\ o' = o
    BY <1>2, <1>3, <2>1 DEF One
  <2>3. \/ timer = "failed" /\ timer' = "released"
        \/ UNCHANGED timer
    BY <1>12 DEF ShutdownFailed
  <2>4. CountsOK' /\ TimerOK' /\ Accounts'
    BY <1>2, <1>5, <1>6, <2>1, <2>2, <2>3 DEF One
  <2>5. OneRaise'
    BY <1>1, <1>2, <1>4, <1>5, <2>1, <2>3 DEF OneRaise, Raiser, One
  <2>. QED
    BY <1>1, <2>4, <2>5
<1>. QED
  BY <1>7, <1>8, <1>9, <1>10, <1>11, <1>12

LEMMA RStep == RInv /\ [SleepNext]_sleepVars => RInv'
<1>. SUFFICES ASSUME RInv, [SleepNext]_sleepVars PROVE RInv'
  OBVIOUS
<1>1. CASE UNCHANGED sleepVars
  BY <1>1 DEF RInv, PlacesOK, TimerOK, CountsOK, Accounts, OneRaise, Raiser, Begun, Owing, One, sleepVars
<1>. PlacesOK
  BY DEF RInv
<1>. USE DEF Aside, Raiser, Moves, PlacesOK, timerVars
<1>2. ASSUME NEW t \in Sleeper, Calls(t) PROVE Aside(t)
  BY <1>2 DEF Calls, PreciseSleep, Ask, Tier0ShutdownHighResTimer, Call, Idle
<1>3. ASSUME NEW t \in Sleeper, Gates(t) PROVE Aside(t)
  <2>1. "raise" \notin Gate
    BY AskedAssumption DEF Gate
  <2>2. ASSUME NEW g \in Gate, See(t, g) \/ ClaimAnswer(t, g) \/ LookUp(t, g) \/ Publish(t, g)
        PROVE  Aside(t)
    BY <2>1, <2>2 DEF See, ClaimAnswer, LookUp, Publish
  <2>3. CASE BPreciseSleepEnabled(t) \/ InitPlatTimer(t) \/ Told(t)
    BY <2>3 DEF BPreciseSleepEnabled, InitPlatTimer, Told, Hear, Idle
  <2>4. CASE BHighResTimerEnabled(t)
    BY <2>4 DEF BHighResTimerEnabled, Hear
  <2>. QED
    BY <1>3, <2>2, <2>3, <2>4 DEF Gates
<1>4. ASSUME NEW t \in Sleeper, RaiseWait(t) \/ RaiseExpire(t) PROVE Aside(t)
  BY <1>4 DEF RaiseWait, RaiseExpire
<1>5. ASSUME NEW t \in Sleeper, ShutdownSee(t) PROVE Aside(t)
  BY <1>5 DEF ShutdownSee, Idle
<1>6. ASSUME NEW t \in Sleeper, ShutdownWait(t) PROVE Aside(t)
  BY <1>6 DEF ShutdownWait
<1>7. ASSUME NEW t \in Sleeper, Wake(t) PROVE Aside(t)
  BY <1>7 DEF Wake, Idle
<1>8. ASSUME NEW t \in Sleeper, Terminate(t) PROVE Aside(t) \/ UNCHANGED <<timer, raises, releases, resets, at>>
  BY <1>8 DEF Terminate
<1>9. CASE UNCHANGED <<timer, raises, releases, resets, at>>
  BY <1>9 DEF RInv, TimerOK, CountsOK, Accounts, OneRaise, Begun, Owing, One
<1>. QED
  BY <1>1, <1>2, <1>3, <1>4, <1>5, <1>6, <1>7, <1>8, <1>9, RAside, RCounts
     DEF SleepNext, SleepAdvance, Timer

(* The accounts of the timer are right, however many threads sleep, unload *)
(* the library or are terminated.                                          *)
THEOREM TimerAlwaysInOrder == SleepSpec => []TimerInOrder
<1>1. RInv => TimerInOrder
  <2>. SUFFICES ASSUME RInv PROVE TimerInOrder
    OBVIOUS
  <2>1. Cardinality(Begun) \in Nat /\ Cardinality(Owing) \in Nat
    BY SleeperAssumption, FS_Subset, FS_CardinalityType DEF Begun, Owing
  <2>2. raises <= 1 + resets /\ releases <= raises
    BY <2>1 DEF RInv, CountsOK, Accounts, One
  <2>3. ASSUME resets = 0
        PROVE  /\ timer = "down" => raises = 0
               /\ timer = "raised" => raises = 1 /\ releases = 0
               /\ raises - releases \in {0, 1}
    BY <2>1, <2>3 DEF RInv, CountsOK, Accounts, One
  <2>4. resets = 0 => raises - releases \in CASE timer = "raised" -> {1}
                                              [] timer = "raising" -> {0, 1}
                                              [] OTHER -> {0}
    BY <2>2, <2>3 DEF RInv, TimerOK, CountsOK, OneRaise
  <2>. QED
    BY <2>2, <2>4 DEF TimerInOrder
<1>. QED
  BY RInit, RStep, <1>1, PTL DEF SleepSpec

-----------------------------------------------------------------------------
(***************************************************************************)
(* The output of messages: the mutex around the output function counts the *)
(* messages its owner is having output, which are the only ones whose      *)
(* guard is locked.                                                        *)
(***************************************************************************)
Step == {"level", "compare", "lock", "callback", "unlock", "act", "exit"}

Frame ==
  [type : Type, site : Site \union {NoSite}, step : Step, locked : BOOLEAN,
   by : {"default", "custom"}, ret : Retval, inner : Int,
   said : Site \union {NoSite}]

Stack == {s \in Seq(Frame) : Len(s) <= MaxNest}

SpewTyped ==
  /\ site \in [Writer -> Site \union {NoSite}]
  /\ frames \in [Writer -> Stack]
  /\ groups \in Writer \union {NoWriter}
  /\ output \in [owner : Writer \union {NoWriter}, count : Nat]
  /\ fn \in {"default", "custom"}

(* A message is spewed within another only by the host's function or by    *)
(* what acts on an answer; the guard is locked while the mutex is held;    *)
(* and an assertion names the site its thread has noted last.              *)
FrameOK(t, i) ==
  LET f == frames[t][i] IN
  /\ i < Len(frames[t]) => f.step \in {"callback", "act", "exit"}
  /\ f.locked => f.step \in {"callback", "unlock"}
  /\ f.type = "assert" /\ f.step \in {"level", "compare", "lock"} => f.site = site[t]
  /\ f.type = "assert" /\ f.step \in {"callback", "unlock", "act"} => f.said = f.site

FramesOK == \A t \in Writer : \A i \in DOMAIN frames[t] : FrameOK(t, i)

(* The mutex counts the messages of its owner that are being output.       *)
HeldFor ==
  /\ \A t \in Writer :
       Cardinality(Outputting(t)) = (IF output.owner = t THEN output.count ELSE 0)
  /\ output.owner = NoWriter <=> output.count = 0

(* A thread has stopped with nothing of its last message to output.        *)
StoppedOK ==
  \A t \in stopped :
    t \in Writer /\ frames[t] # <<>> /\ Last(frames[t]).step \in {"act", "exit"}

SInv == SpewTyped /\ FramesOK /\ HeldFor /\ StoppedOK

(* Changes at the inner end of a thread's messages.                        *)
LEMMA LastIs ==
  ASSUME NEW s \in Stack, s # <<>>
  PROVE  /\ Len(s) \in Nat \ {0} /\ Last(s) = s[Len(s)] /\ Last(s) \in Frame
         /\ DOMAIN s = 1 .. Len(s)
BY DEF Stack, Last

LEMMA Shrinks ==
  ASSUME NEW s \in Stack, s # <<>>
  PROVE  /\ Front(s) \in Stack /\ Len(Front(s)) = Len(s) - 1
         /\ \A i \in 1 .. Len(s) - 1 : Front(s)[i] = s[i]
<1>1. s \in Seq(Frame) /\ Len(s) \in Nat \ {0} /\ Len(s) <= MaxNest /\ MaxNest \in Nat
  BY LastIs, OutputAssumption DEF Stack
<1>2. Front(s) = SubSeq(s, 1, Len(s) - 1)
  BY DEF Front
<1>3. Len(SubSeq(s, 1, Len(s) - 1)) = Len(s) - 1
  <2>1. \A n \in Nat : n <= Len(s) => Len(SubSeq(s, 1, n)) = n
    BY <1>1
  <2>2. Len(s) - 1 \in Nat /\ Len(s) - 1 <= Len(s)
    BY <1>1
  <2>. QED
    BY <2>1, <2>2
<1>4. \A i \in 1 .. Len(s) - 1 : SubSeq(s, 1, Len(s) - 1)[i] = s[i]
  BY <1>1
<1>5. SubSeq(s, 1, Len(s) - 1) \in Seq(Frame)
  BY <1>1
<1>. QED
  BY <1>1, <1>2, <1>3, <1>4, <1>5 DEF Stack

LEMMA Grows ==
  ASSUME NEW s \in Stack, Len(s) < MaxNest, NEW f \in Frame
  PROVE  /\ s \o <<f>> \in Stack /\ Len(s \o <<f>>) = Len(s) + 1
         /\ (s \o <<f>>)[Len(s) + 1] = f
         /\ \A i \in 1 .. Len(s) : (s \o <<f>>)[i] = s[i]
BY OutputAssumption DEF Stack

LEMMA GrowsTwice ==
  ASSUME NEW s \in Stack, Len(s) + 1 < MaxNest, NEW f \in Frame, NEW g \in Frame
  PROVE  /\ s \o <<f, g>> \in Stack /\ Len(s \o <<f, g>>) = Len(s) + 2
         /\ (s \o <<f, g>>)[Len(s) + 1] = f /\ (s \o <<f, g>>)[Len(s) + 2] = g
         /\ \A i \in 1 .. Len(s) : (s \o <<f, g>>)[i] = s[i]
BY OutputAssumption DEF Stack

LEMMA Replaced ==
  ASSUME NEW s \in Stack, s # <<>>, NEW f \in Frame
  PROVE  /\ Front(s) \o <<f>> \in Stack /\ Len(Front(s) \o <<f>>) = Len(s)
         /\ (Front(s) \o <<f>>)[Len(s)] = f
         /\ \A i \in 1 .. Len(s) - 1 : (Front(s) \o <<f>>)[i] = s[i]
<1>1. /\ Front(s) \in Stack /\ Len(Front(s)) = Len(s) - 1 /\ Len(s) \in Nat \ {0}
      /\ \A i \in 1 .. Len(s) - 1 : Front(s)[i] = s[i]
  BY Shrinks, LastIs
<1>2. Len(Front(s)) < MaxNest
  BY <1>1, OutputAssumption DEF Stack
<1>. DEFINE u == Front(s) \o <<f>>
<1>3. /\ u \in Stack /\ Len(u) = Len(Front(s)) + 1 /\ u[Len(Front(s)) + 1] = f
      /\ \A i \in 1 .. Len(Front(s)) : u[i] = Front(s)[i]
  BY <1>1, <1>2, Grows
<1>. HIDE DEF u
<1>4. Len(Front(s)) + 1 = Len(s) /\ 1 .. Len(Front(s)) = 1 .. Len(s) - 1
  BY <1>1
<1>5. u \in Stack /\ Len(u) = Len(s) /\ u[Len(s)] = f
      /\ \A i \in 1 .. Len(s) - 1 : u[i] = s[i]
  BY <1>1, <1>3, <1>4
<1>. QED
  BY <1>5 DEF u

(* The set of a thread's messages being output is finite and not too large.*)
LEMMA OutputtingIs ==
  ASSUME SpewTyped, NEW t \in Writer
  PROVE  /\ IsFiniteSet(Outputting(t)) /\ Cardinality(Outputting(t)) \in Nat
         /\ Cardinality(Outputting(t)) <= Len(frames[t])
         /\ Outputting(t) = {} <=> Cardinality(Outputting(t)) = 0
<1>1. Len(frames[t]) \in Nat /\ DOMAIN frames[t] = 1 .. Len(frames[t])
  BY DEF SpewTyped, Stack
<1>2. /\ IsFiniteSet(1 .. Len(frames[t])) /\ Cardinality(1 .. Len(frames[t])) = Len(frames[t])
  BY <1>1, FS_Interval
<1>3. Outputting(t) \subseteq 1 .. Len(frames[t])
  BY <1>1 DEF Outputting
<1>. QED
  BY <1>2, <1>3, FS_Subset, FS_CardinalityType, FS_EmptySet

(* A step of one thread, by what it makes of its messages.                 *)
LEMMA ThreadStep ==
  ASSUME SInv, NEW t \in Writer, NEW s \in Stack, frames' = [frames EXCEPT ![t] = s],
         site' \in [Writer -> Site \union {NoSite}],
         \A u \in Writer : u # t => site'[u] = site[u],
         groups' \in Writer \union {NoWriter}, fn' = fn, t \notin stopped, stopped' = stopped,
         \A i \in 1 .. Len(s) : FrameOK(t, i)',
         \/ output' = output /\ Outputting(t)' = Outputting(t)
         \/ /\ output.owner \in {t, NoWriter}
            /\ output' = [owner |-> t, count |-> output.count + 1]
            /\ Len(s) \notin Outputting(t) /\ Outputting(t)' = Outputting(t) \union {Len(s)}
         \/ /\ output' = Released
            /\ Len(s) \in Outputting(t) /\ Outputting(t)' = Outputting(t) \ {Len(s)}
  PROVE  SInv'
<1>1. SpewTyped /\ FramesOK /\ HeldFor /\ StoppedOK
  BY DEF SInv
<1>2. /\ frames' \in [Writer -> Stack] /\ frames'[t] = s
      /\ \A u \in Writer : u # t => frames'[u] = frames[u]
  BY <1>1 DEF SpewTyped
<1>3. /\ \A u \in Writer : u # t => Outputting(u)' = Outputting(u)
      /\ \A u \in Writer : Cardinality(Outputting(u)) \in Nat /\ IsFiniteSet(Outputting(u))
  BY <1>1, <1>2, OutputtingIs DEF Outputting
<1>4. /\ output.owner \in Writer \union {NoWriter} /\ output.count \in Nat /\ t # NoWriter
      /\ output = [owner |-> output.owner, count |-> output.count]
  BY <1>1, OutputAssumption DEF SpewTyped
<1>5. output' \in [owner : Writer \union {NoWriter}, count : Nat] /\ HeldFor'
  <2>1. CASE output' = output /\ Outputting(t)' = Outputting(t)
    BY <1>1, <1>3, <1>4, <2>1 DEF HeldFor
  <2>2. CASE /\ output.owner \in {t, NoWriter}
             /\ output' = [owner |-> t, count |-> output.count + 1]
             /\ Len(s) \notin Outputting(t) /\ Outputting(t)' = Outputting(t) \union {Len(s)}
    <3>1. Cardinality(Outputting(t))' = Cardinality(Outputting(t)) + 1
      BY <1>3, <2>2, FS_AddElement
    <3>2. Cardinality(Outputting(t)) = output.count
      BY <1>1, <2>2 DEF HeldFor
    <3>3. \A u \in Writer : u # t => Cardinality(Outputting(u))' = 0
      BY <1>1, <1>3, <1>4, <2>2 DEF HeldFor
    <3>. QED
      <4>1. output'.owner = t /\ output'.count = output.count + 1 /\ output'.count # 0
        BY <1>4, <2>2
      <4>2. Cardinality(Outputting(t))' = output'.count
        BY <3>1, <3>2, <4>1
      <4>. QED
        <5>1. \A u \in Writer : Cardinality(Outputting(u))' =
                                  (IF output'.owner = u THEN output'.count ELSE 0)
          BY <3>3, <4>1, <4>2
        <5>2. output'.owner # NoWriter
          BY <1>4, <4>1
        <5>. QED
          BY <1>4, <2>2, <4>1, <5>1, <5>2 DEF HeldFor
  <2>3. CASE /\ output' = Released
             /\ Len(s) \in Outputting(t) /\ Outputting(t)' = Outputting(t) \ {Len(s)}
    <3>1. Cardinality(Outputting(t))' = Cardinality(Outputting(t)) - 1
      BY <1>3, <2>3, FS_RemoveElement
    <3>2. Cardinality(Outputting(t)) # 0
      BY <1>1, <2>3, OutputtingIs
    <3>3. output.owner = t /\ Cardinality(Outputting(t)) = output.count
      BY <1>1, <3>2 DEF HeldFor
    <3>4. \A u \in Writer : u # t => Cardinality(Outputting(u))' = 0
      BY <1>1, <1>3, <3>3 DEF HeldFor
    <3>5. CASE output.count = 1
      <4>1. output' = [owner |-> NoWriter, count |-> 0]
        BY <2>3, <3>5 DEF Released, Unheld
      <4>2. Cardinality(Outputting(t))' = 0
        BY <3>1, <3>3, <3>5
      <4>3. \A u \in Writer : Cardinality(Outputting(u))' = 0 /\ u # NoWriter
        BY <3>4, <4>2, OutputAssumption
      <4>. QED
        BY <4>1, <4>3 DEF HeldFor
    <3>6. CASE output.count # 1
      <4>1. output' = [owner |-> t, count |-> output.count - 1] /\ output.count - 1 \in Nat \ {0}
        BY <1>3, <1>4, <2>3, <3>2, <3>3, <3>6 DEF Released
      <4>. QED
        BY <1>4, <3>1, <3>3, <3>4, <4>1 DEF HeldFor
    <3>. QED
      BY <3>5, <3>6
  <2>. QED
    BY <2>1, <2>2, <2>3
<1>6. SpewTyped'
  BY <1>1, <1>2, <1>5 DEF SpewTyped
<1>7. FramesOK'
  <2>1. ASSUME NEW u \in Writer, u # t, NEW i \in DOMAIN frames'[u] PROVE FrameOK(u, i)'
    BY <1>1, <1>2, <2>1 DEF FramesOK, FrameOK
  <2>2. DOMAIN frames'[t] = 1 .. Len(s)
    BY <1>2 DEF Stack
  <2>. QED
    BY <2>1, <2>2 DEF FramesOK
<1>8. StoppedOK'
  BY <1>1, <1>2 DEF StoppedOK
<1>. QED
  BY <1>5, <1>6, <1>7, <1>8 DEF SInv

Out == {"callback", "unlock"}

(* What becomes of the set being output when the last message is replaced. *)
LEMMA OutputtingStep ==
  ASSUME SpewTyped, NEW t \in Writer, NEW s \in Stack, frames' = [frames EXCEPT ![t] = s],
         frames[t] # <<>>, Len(s) = Len(frames[t]),
         \A i \in 1 .. Len(s) - 1 : s[i] = frames[t][i]
  PROVE  /\ (s[Len(s)].step \in Out <=> Last(frames[t]).step \in Out) =>
              Outputting(t)' = Outputting(t)
         /\ s[Len(s)].step \in Out =>
              Outputting(t)' = Outputting(t) \union {Len(s)}
         /\ s[Len(s)].step \notin Out => Outputting(t)' = Outputting(t) \ {Len(s)}
         /\ Last(frames[t]).step \in Out <=> Len(s) \in Outputting(t)
<1>1. /\ frames[t] \in Stack /\ frames'[t] = s
      /\ DOMAIN s = 1 .. Len(s) /\ DOMAIN frames[t] = 1 .. Len(s) /\ Len(s) \in Nat \ {0}
      /\ Last(frames[t]) = frames[t][Len(s)]
  BY LastIs DEF SpewTyped, Stack
<1>2. Outputting(t) = {i \in 1 .. Len(s) : frames[t][i].step \in Out}
  BY <1>1 DEF Outputting, Out
<1>3. Outputting(t)' = {i \in 1 .. Len(s) : s[i].step \in Out}
  BY <1>1 DEF Outputting, Out
<1>4. \A i \in 1 .. Len(s) : i = Len(s) \/ i \in 1 .. Len(s) - 1
  BY <1>1
<1>5. Len(s) \in 1 .. Len(s)
  BY <1>1
<1>. QED
  BY <1>1, <1>2, <1>3, <1>4, <1>5

LEMMA PutStep ==
  ASSUME SInv, NEW t \in Writer, frames[t] # <<>>, t \notin stopped, NEW f \in Frame,
         Put(t, f), site' = site, groups' \in Writer \union {NoWriter}, fn' = fn,
         stopped' = stopped,
         f.locked => f.step \in Out,
         f.type = "assert" /\ f.step \in {"level", "compare", "lock"} => f.site = site[t],
         f.type = "assert" /\ f.step \in {"callback", "unlock", "act"} => f.said = f.site,
         \/ output' = output /\ (f.step \in Out <=> Last(frames[t]).step \in Out)
         \/ /\ output.owner \in {t, NoWriter}
            /\ output' = [owner |-> t, count |-> output.count + 1]
            /\ Last(frames[t]).step \notin Out /\ f.step \in Out
         \/ output' = Released /\ Last(frames[t]).step \in Out /\ f.step \notin Out
  PROVE  SInv'
<1>. DEFINE s == Front(frames[t]) \o <<f>>
            n == Len(frames[t])
<1>1. SpewTyped /\ FramesOK /\ frames[t] \in Stack
  BY DEF SInv, SpewTyped
<1>2. /\ s \in Stack /\ Len(s) = n /\ s[n] = f /\ n \in Nat \ {0}
      /\ \A i \in 1 .. n - 1 : s[i] = frames[t][i]
  BY <1>1, Replaced, LastIs
<1>3. frames' = [frames EXCEPT ![t] = s] /\ frames'[t] = s
  BY <1>1 DEF Put, SpewTyped
<1>. HIDE DEF s
<1>4. ASSUME NEW i \in 1 .. n - 1
      PROVE  FrameOK(t, i)'
  <2>1. i \in DOMAIN frames[t] /\ i < n /\ i < Len(s)
    BY <1>1, <1>2, <1>4, LastIs
  <2>2. FrameOK(t, i)
    BY <1>1, <2>1 DEF FramesOK
  <2>. QED
    BY <1>2, <1>3, <2>1, <2>2 DEF FrameOK
<1>5. ASSUME NEW i \in 1 .. Len(s), i = n PROVE FrameOK(t, i)'
  BY <1>2, <1>3, <1>5 DEF FrameOK, Out
<1>6. ASSUME NEW i \in 1 .. Len(s) PROVE FrameOK(t, i)'
  <2>1. i \in 1 .. n /\ n \in Nat
    BY <1>2, <1>6
  <2>2. CASE i = n
    BY <1>5, <2>2
  <2>3. CASE i \in 1 .. n - 1
    BY <1>4, <2>3
  <2>. QED
    BY <2>1, <2>2, <2>3
<1>7. /\ (f.step \in Out <=> Last(frames[t]).step \in Out) => Outputting(t)' = Outputting(t)
      /\ f.step \in Out => Outputting(t)' = Outputting(t) \union {Len(s)}
      /\ f.step \notin Out => Outputting(t)' = Outputting(t) \ {Len(s)}
      /\ Last(frames[t]).step \in Out <=> Len(s) \in Outputting(t)
  BY <1>1, <1>2, <1>3, OutputtingStep
<1>8. \/ output' = output /\ Outputting(t)' = Outputting(t)
      \/ /\ output.owner \in {t, NoWriter}
         /\ output' = [owner |-> t, count |-> output.count + 1]
         /\ Len(s) \notin Outputting(t) /\ Outputting(t)' = Outputting(t) \union {Len(s)}
      \/ /\ output' = Released
         /\ Len(s) \in Outputting(t) /\ Outputting(t)' = Outputting(t) \ {Len(s)}
  BY <1>7
<1>9. /\ site' \in [Writer -> Site \union {NoSite}]
      /\ \A u \in Writer : u # t => site'[u] = site[u]
  BY <1>1 DEF SpewTyped
<1>. QED
  BY <1>2, <1>3, <1>6, <1>8, <1>9, ThreadStep

LEMMA PopStep ==
  ASSUME SInv, NEW t \in Writer, frames[t] # <<>>, t \notin stopped, Pop(t),
         Last(frames[t]).step \notin Out, output' = output,
         site' = site, groups' \in Writer \union {NoWriter}, fn' = fn, stopped' = stopped
  PROVE  SInv'
<1>. DEFINE s == Front(frames[t])
            n == Len(frames[t])
<1>1. SpewTyped /\ FramesOK /\ frames[t] \in Stack
  BY DEF SInv, SpewTyped
<1>2. /\ s \in Stack /\ Len(s) = n - 1 /\ n \in Nat \ {0}
      /\ \A i \in 1 .. n - 1 : s[i] = frames[t][i]
      /\ DOMAIN s = 1 .. n - 1 /\ DOMAIN frames[t] = 1 .. n /\ Last(frames[t]) = frames[t][n]
  BY <1>1, Shrinks, LastIs, SMTT(30) DEF Stack
<1>3. frames' = [frames EXCEPT ![t] = s] /\ frames'[t] = s
  BY <1>1 DEF Pop, SpewTyped
<1>. HIDE DEF s
<1>4. ASSUME NEW i \in 1 .. Len(s)
      PROVE  FrameOK(t, i)'
  <2>1. i \in DOMAIN frames[t] /\ i < n
    BY <1>2, <1>4
  <2>2. FrameOK(t, i)
    BY <1>1, <2>1 DEF FramesOK
  <2>3. s[i] = frames[t][i]
    BY <1>2, <1>4
  <2>. QED
    BY <1>3, <2>1, <2>2, <2>3 DEF FrameOK
<1>5. Outputting(t)' = Outputting(t)
  <2>1. Outputting(t) = {i \in 1 .. n : frames[t][i].step \in Out}
    BY <1>2 DEF Outputting, Out
  <2>2. Outputting(t)' = {i \in 1 .. n - 1 : s[i].step \in Out}
    BY <1>2, <1>3 DEF Outputting, Out
  <2>3. \A i \in 1 .. n : i = n \/ i \in 1 .. n - 1
    BY <1>2
  <2>4. 1 .. n - 1 \subseteq 1 .. n
    BY <1>2
  <2>. QED
    BY <1>2, <2>1, <2>2, <2>3, <2>4
<1>6. /\ site' \in [Writer -> Site \union {NoSite}]
      /\ \A u \in Writer : u # t => site'[u] = site[u]
  BY <1>1 DEF SpewTyped
<1>. QED
  BY <1>2, <1>3, <1>4, <1>5, <1>6, ThreadStep

(* A thread that may spew is within the host's function or within nothing: *)
(* what it does to its site, no message of its own has yet to name.        *)
LEMMA BaseIs ==
  ASSUME SInv, NEW t \in Writer, MaySpew(t)
  PROVE  /\ Base(t) \in Stack /\ Len(Base(t)) = Len(frames[t]) /\ Len(frames[t]) \in Nat
         /\ \A i \in 1 .. Len(frames[t]) :
              /\ Base(t)[i].step = frames[t][i].step
              /\ Base(t)[i].step \in {"callback", "act", "exit"}
              /\ Base(t)[i].locked => Base(t)[i].step \in Out
              /\ Base(t)[i].type = "assert" /\ Base(t)[i].step \in {"callback", "unlock", "act"}
                   => Base(t)[i].said = Base(t)[i].site
<1>1. SpewTyped /\ FramesOK /\ frames[t] \in Stack
  BY DEF SInv, SpewTyped
<1>2. CASE frames[t] = <<>>
  BY <1>1, <1>2 DEF Base
<1>3. CASE frames[t] # <<>>
  <2>. DEFINE n == Len(frames[t])
              l == Last(frames[t])
              f == [l EXCEPT !.inner = @ - 1]
  <2>1. n \in Nat \ {0} /\ l = frames[t][n] /\ l \in Frame /\ DOMAIN frames[t] = 1 .. n
    BY <1>1, <1>3, LastIs
  <2>2. /\ f \in Frame /\ f.step = l.step /\ f.locked = l.locked /\ f.type = l.type
        /\ f.said = l.said /\ f.site = l.site /\ l.step = "callback"
    BY <1>3, <2>1 DEF Frame, MaySpew
  <2>. HIDE DEF f
  <2>3. /\ Base(t) \in Stack /\ Len(Base(t)) = n /\ Base(t)[n] = f
        /\ \A i \in 1 .. n - 1 : Base(t)[i] = frames[t][i]
    <3>1. Base(t) = Front(frames[t]) \o <<f>>
      BY <1>3 DEF Base, f
    <3>2. f \in Frame
      BY <2>2
    <3>3. /\ Front(frames[t]) \o <<f>> \in Stack /\ Len(Front(frames[t]) \o <<f>>) = n
          /\ (Front(frames[t]) \o <<f>>)[n] = f
          /\ \A i \in 1 .. n - 1 : (Front(frames[t]) \o <<f>>)[i] = frames[t][i]
      BY <1>1, <1>3, <3>2, Replaced
    <3>. QED
      BY <3>1, <3>3
  <2>4. \A i \in 1 .. n : i = n \/ (i \in 1 .. n - 1 /\ i < n)
    BY <2>1
  <2>5. \A i \in 1 .. n : FrameOK(t, i)
    BY <1>1, <2>1 DEF FramesOK
  <2>6. ASSUME NEW i \in 1 .. n
        PROVE  /\ Base(t)[i].step = frames[t][i].step
               /\ Base(t)[i].step \in {"callback", "act", "exit"}
               /\ Base(t)[i].locked => Base(t)[i].step \in Out
               /\ Base(t)[i].type = "assert" /\ Base(t)[i].step \in {"callback", "unlock", "act"}
                    => Base(t)[i].said = Base(t)[i].site
    <3>1. CASE i = n
      BY <2>1, <2>2, <2>3, <2>5, <3>1 DEF FrameOK, Out
    <3>2. CASE i \in 1 .. n - 1 /\ i < n
      BY <2>3, <2>5, <3>2 DEF FrameOK, Out
    <3>. QED
      BY <2>4, <3>1, <3>2
  <2>. QED
    BY <2>1, <2>3, <2>6
<1>. QED
  BY <1>2, <1>3

(* New messages on top of those in hand.                                   *)
LEMMA PushStep ==
  ASSUME SInv, NEW t \in Writer, MaySpew(t), NEW s \in Stack,
         frames' = [frames EXCEPT ![t] = s], Len(s) >= Len(frames[t]),
         \A i \in 1 .. Len(frames[t]) : s[i] = Base(t)[i],
         \A i \in 1 .. Len(s) : i > Len(frames[t]) =>
           /\ i < Len(s) => s[i].step = "act"
           /\ s[i].locked = FALSE /\ s[i].step \in {"level", "lock", "act"}
           /\ s[i].type = "assert" => s[i].step # "act" /\ s[i].site = site'[t],
         site' \in [Writer -> Site \union {NoSite}],
         \A u \in Writer : u # t => site'[u] = site[u],
         UNCHANGED <<groups, output, fn, stopped>>
  PROVE  SInv'
<1>. DEFINE n == Len(frames[t])
<1>1. SpewTyped /\ frames[t] \in Stack
  BY DEF SInv, SpewTyped
<1>2. /\ n \in Nat /\ Len(s) \in Nat /\ DOMAIN s = 1 .. Len(s) /\ DOMAIN frames[t] = 1 .. n
      /\ frames'[t] = s
  BY <1>1 DEF Stack, SpewTyped
<1>3. \A i \in 1 .. n :
        /\ s[i].step = frames[t][i].step
        /\ s[i].step \in {"callback", "act", "exit"}
        /\ s[i].locked => s[i].step \in Out
        /\ s[i].type = "assert" /\ s[i].step \in {"callback", "unlock", "act"}
             => s[i].said = s[i].site
  BY BaseIs
<1>4. \A i \in 1 .. Len(s) : i \in 1 .. n \/ i > n
  BY <1>2
<1>5. ASSUME NEW i \in 1 .. Len(s) PROVE FrameOK(t, i)'
  <2>1. CASE i \in 1 .. n
    BY <1>2, <1>3, <2>1 DEF FrameOK, Out
  <2>2. CASE i > n
    BY <1>2, <2>2 DEF FrameOK
  <2>. QED
    BY <1>4, <2>1, <2>2
<1>6. Outputting(t)' = Outputting(t)
  <2>1. 1 .. n \subseteq 1 .. Len(s)
    BY <1>2
  <2>2. \A i \in 1 .. Len(s) : i \notin 1 .. n => s[i].step \notin Out
    BY <1>4 DEF Out
  <2>3. Outputting(t)' = {i \in 1 .. Len(s) : s[i].step \in Out}
    BY <1>2 DEF Outputting, Out
  <2>4. Outputting(t) = {i \in 1 .. n : frames[t][i].step \in Out}
    BY <1>2 DEF Outputting, Out
  <2>. QED
    BY <1>3, <2>1, <2>2, <2>3, <2>4
<1>7. groups' \in Writer \union {NoWriter} /\ t \notin stopped
  BY <1>1 DEF SpewTyped, MaySpew
<1>. QED
  BY <1>5, <1>6, <1>7, ThreadStep

-----------------------------------------------------------------------------
(* A message, or an assertion, on top of those in hand.                    *)
LEMMA SpewsMore ==
  ASSUME SInv, NEW t \in Writer, Msg(t) \/ DMsg(t) \/ SpewInfo(t)
  PROVE  SInv'
<1>1. SpewTyped /\ MaySpew(t) /\ t \in DOMAIN site
  BY DEF SInv, SpewTyped, Msg, DMsg, SpewInfo
<1>2. PICK m \in Frame :
        /\ frames' = [frames EXCEPT ![t] = Base(t) \o <<m>>]
        /\ m.locked = FALSE /\ m.step \in {"level", "lock"}
        /\ m.type = "assert" => m.site = site'[t]
        /\ site' \in [Writer -> Site \union {NoSite}]
        /\ \A u \in Writer : u # t => site'[u] = site[u]
        /\ UNCHANGED <<groups, output, fn, stopped>>
  <2>1. CASE Msg(t)
    <3>1. PICK ty \in Type \ {"assert"} : Push(t, <<Message(ty, NoSite, "lock")>>)
      BY <2>1 DEF Msg
    <3>2. /\ Message(ty, NoSite, "lock") \in Frame
          /\ Message(ty, NoSite, "lock").type # "assert"
          /\ Message(ty, NoSite, "lock").locked = FALSE
          /\ Message(ty, NoSite, "lock").step = "lock"
      BY OutputAssumption DEF Message, Frame, Retval, Step
    <3>3. /\ frames' = [frames EXCEPT ![t] = Base(t) \o <<Message(ty, NoSite, "lock")>>]
          /\ UNCHANGED <<groups, output, fn, stopped, site>>
      BY <2>1, <3>1 DEF Push, Msg
    <3>. QED
      BY <1>1, <3>2, <3>3 DEF SpewTyped
  <2>2. CASE DMsg(t)
    <3>1. /\ Message("message", NoSite, "level") \in Frame
          /\ Message("message", NoSite, "level").type # "assert"
          /\ Message("message", NoSite, "level").locked = FALSE
          /\ Message("message", NoSite, "level").step = "level"
      BY OutputAssumption DEF Message, Frame, Retval, Step, Type
    <3>2. /\ frames' = [frames EXCEPT ![t] = Base(t) \o <<Message("message", NoSite, "level")>>]
          /\ UNCHANGED <<groups, output, fn, stopped, site>>
      BY <2>2 DEF Push, DMsg
    <3>. QED
      BY <1>1, <3>1, <3>2 DEF SpewTyped
  <2>3. CASE SpewInfo(t)
    <3>1. PICK w \in Site, step \in {"lock", "level"} :
            /\ site' = [site EXCEPT ![t] = w]
            /\ Push(t, <<Message("assert", w, step)>>)
      BY <2>3 DEF SpewInfo
    <3>2. /\ Message("assert", w, step) \in Frame
          /\ Message("assert", w, step).site = w
          /\ Message("assert", w, step).locked = FALSE
          /\ Message("assert", w, step).step = step
      BY OutputAssumption DEF Message, Frame, Retval, Step, Type
    <3>3. /\ frames' = [frames EXCEPT ![t] = Base(t) \o <<Message("assert", w, step)>>]
          /\ UNCHANGED <<groups, output, fn, stopped>>
      BY <2>3, <3>1 DEF Push, SpewInfo
    <3>4. /\ site'[t] = w /\ site' \in [Writer -> Site \union {NoSite}]
          /\ \A u \in Writer : u # t => site'[u] = site[u]
      BY <1>1, <3>1 DEF SpewTyped
    <3>. QED
      BY <3>2, <3>3, <3>4
  <2>. QED
    BY <2>1, <2>2, <2>3
<1>. DEFINE s == Base(t) \o <<m>>
            n == Len(frames[t])
<1>3. /\ s \in Stack /\ Len(s) = n + 1 /\ s[n + 1] = m /\ n \in Nat
      /\ \A i \in 1 .. n : s[i] = Base(t)[i]
  <2>1. Base(t) \in Stack /\ Len(Base(t)) = n /\ n \in Nat /\ Len(Base(t)) < MaxNest
    BY <1>1, BaseIs DEF MaySpew
  <2>2. /\ s \in Stack /\ Len(s) = Len(Base(t)) + 1 /\ s[Len(Base(t)) + 1] = m
        /\ \A i \in 1 .. Len(Base(t)) : s[i] = Base(t)[i]
    BY <2>1, Grows
  <2>. QED
    BY <2>1, <2>2
<1>4. \A i \in 1 .. n + 1 : i > n => i = n + 1
  BY <1>3
<1>. HIDE DEF s
<1>5. \A i \in 1 .. Len(s) : i > n =>
        /\ i < Len(s) => s[i].step = "act"
        /\ s[i].locked = FALSE /\ s[i].step \in {"level", "lock", "act"}
        /\ s[i].type = "assert" => s[i].step # "act" /\ s[i].site = site'[t]
  BY <1>2, <1>3, <1>4
<1>6. Len(s) >= n /\ frames' = [frames EXCEPT ![t] = s]
  BY <1>2, <1>3 DEF s
<1>. QED
  BY <1>1, <1>2, <1>3, <1>5, <1>6, PushStep

LEMMA FatalSpews ==
  ASSUME SInv, NEW t \in Writer, ExitOnFatalAssert(t)
  PROVE  SInv'
<1>1. SpewTyped /\ MaySpew(t) /\ Len(frames[t]) + 1 < MaxNest
  BY DEF SInv, ExitOnFatalAssert
<1>. DEFINE a == [Message("message", NoSite, "act") EXCEPT !.ret = "abort"]
            m == Message("assert", site[t], "lock")
            s == Base(t) \o <<a, m>>
            n == Len(frames[t])
<1>2. /\ frames' = [frames EXCEPT ![t] = s]
      /\ UNCHANGED <<groups, output, fn, site, stopped>>
  BY DEF Push, ExitOnFatalAssert
<1>3. /\ a \in Frame /\ a.type = "message" /\ a.locked = FALSE /\ a.step = "act"
  <2>1. /\ Message("message", NoSite, "act") \in Frame
        /\ Message("message", NoSite, "act").type = "message"
        /\ Message("message", NoSite, "act").locked = FALSE
        /\ Message("message", NoSite, "act").step = "act"
    BY OutputAssumption DEF Message, Frame, Retval, Step, Type
  <2>. QED
    BY <2>1 DEF Frame, Retval
<1>4. /\ m \in Frame /\ m.locked = FALSE /\ m.step = "lock" /\ m.site = site[t]
  BY <1>1, OutputAssumption DEF Message, Frame, Retval, Step, Type, SpewTyped
<1>. HIDE DEF a, m
<1>5. /\ s \in Stack /\ Len(s) = n + 2 /\ s[n + 1] = a /\ s[n + 2] = m /\ n \in Nat
      /\ \A i \in 1 .. n : s[i] = Base(t)[i]
  <2>1. Base(t) \in Stack /\ Len(Base(t)) = n /\ n \in Nat
    BY <1>1, BaseIs
  <2>2. PICK b \in Stack : b = Base(t)
    BY <2>1
  <2>3. /\ b \o <<a, m>> \in Stack /\ Len(b \o <<a, m>>) = Len(b) + 2
        /\ (b \o <<a, m>>)[Len(b) + 1] = a /\ (b \o <<a, m>>)[Len(b) + 2] = m
        /\ \A i \in 1 .. Len(b) : (b \o <<a, m>>)[i] = b[i]
    <3>1. Len(b) + 1 < MaxNest /\ a \in Frame /\ m \in Frame
      BY <1>1, <1>3, <1>4, <2>1, <2>2
    <3>. QED
      BY <3>1, GrowsTwice
  <2>4. Len(b) = n /\ s = b \o <<a, m>>
    BY <2>1, <2>2
  <2>. HIDE DEF s, n
  <2>. QED
    BY <2>1, <2>2, <2>3, <2>4
<1>6. \A i \in 1 .. n + 2 : i > n => i = n + 1 \/ i = n + 2
  BY <1>5
<1>. HIDE DEF s
<1>7. \A i \in 1 .. Len(s) : i > n =>
        /\ i < Len(s) => s[i].step = "act"
        /\ s[i].locked = FALSE /\ s[i].step \in {"level", "lock", "act"}
        /\ s[i].type = "assert" => s[i].step # "act" /\ s[i].site = site'[t]
  BY <1>2, <1>3, <1>4, <1>5, <1>6
<1>8. /\ Len(s) >= n /\ site' \in [Writer -> Site \union {NoSite}]
      /\ \A u \in Writer : u # t => site'[u] = site[u]
  BY <1>1, <1>2, <1>5 DEF SpewTyped
<1>. QED
  BY <1>1, <1>2, <1>5, <1>7, <1>8, PushStep

(* What At says of the last message.                                       *)
LEMMA AtIs ==
  ASSUME SInv, NEW t \in Writer, NEW p \in Step, At(t, p)
  PROVE  /\ frames[t] # <<>> /\ t \notin stopped /\ frames[t] \in Stack
         /\ Last(frames[t]) \in Frame /\ Last(frames[t]).step = p
         /\ Last(frames[t]).locked => p \in Out
         /\ Last(frames[t]).type = "assert" /\ p \in {"level", "compare", "lock"}
              => Last(frames[t]).site = site[t]
         /\ Last(frames[t]).type = "assert" /\ p \in {"callback", "unlock", "act"}
              => Last(frames[t]).said = Last(frames[t]).site
<1>1. frames[t] # <<>> /\ t \notin stopped /\ frames[t] \in Stack /\ Last(frames[t]).step = p
  BY DEF At, SInv, SpewTyped
<1>2. /\ Len(frames[t]) \in DOMAIN frames[t] /\ Last(frames[t]) = frames[t][Len(frames[t])]
      /\ Last(frames[t]) \in Frame
  BY <1>1, LastIs
<1>3. FrameOK(t, Len(frames[t]))
  BY <1>2 DEF SInv, FramesOK
<1>. QED
  BY <1>1, <1>2, <1>3 DEF FrameOK, Out

(* A message goes on by one step, with nothing but the step changed.       *)
LEMMA GoesOn ==
  ASSUME SInv, NEW t \in Writer, NEW p \in Step, NEW q \in Step, At(t, p), GoOn(t, q),
         p \notin Out, q \notin Out, {p, q} \subseteq {"level", "compare", "lock"} \/ q = "exit",
         groups' \in Writer \union {NoWriter}, UNCHANGED <<site, fn, stopped, output>>
  PROVE  SInv'
<1>. DEFINE l == Last(frames[t])
            f == [l EXCEPT !.step = q]
<1>1. /\ frames[t] # <<>> /\ t \notin stopped /\ l \in Frame /\ l.step = p
      /\ l.locked => p \in Out
      /\ l.type = "assert" /\ p \in {"level", "compare", "lock"} => l.site = site[t]
  BY AtIs
<1>2. /\ f \in Frame /\ f.step = q /\ f.locked = l.locked /\ f.type = l.type
      /\ f.site = l.site /\ f.said = l.said
  BY <1>1 DEF Frame
<1>3. Put(t, f)
  BY DEF GoOn
<1>. HIDE DEF l, f
<1>4. f.locked => f.step \in Out
  BY <1>1, <1>2
<1>5. /\ f.type = "assert" /\ f.step \in {"level", "compare", "lock"} => f.site = site[t]
      /\ f.type = "assert" /\ f.step \in {"callback", "unlock", "act"} => f.said = f.site
      /\ f.step \in Out <=> Last(frames[t]).step \in Out
  BY <1>1, <1>2 DEF l, Out
<1>. QED
  BY <1>1, <1>2, <1>3, <1>4, <1>5, PutStep

LEMMA LevelSteps ==
  ASSUME SInv, NEW t \in Writer, LockGroups(t) \/ UnlockGroups(t)
  PROVE  SInv'
<1>1. CASE LockGroups(t)
  BY <1>1, GoesOn DEF LockGroups, Step, Out
<1>2. CASE UnlockGroups(t)
  <2>1. /\ At(t, "compare") /\ groups' = NoWriter /\ UNCHANGED <<output, fn, site, stopped>>
        /\ GoOn(t, "lock") \/ Pop(t)
    BY <1>2 DEF UnlockGroups
  <2>2. CASE GoOn(t, "lock")
    BY <2>1, <2>2, GoesOn DEF Step, Out
  <2>3. CASE Pop(t)
    <3>1. frames[t] # <<>> /\ t \notin stopped /\ Last(frames[t]).step = "compare"
      BY <2>1 DEF At
    <3>. QED
      BY <2>1, <2>3, <3>1, PopStep DEF Out
  <2>. QED
    BY <2>1, <2>2, <2>3
<1>. QED
  BY <1>1, <1>2

LEMMA OutputSteps ==
  ASSUME SInv, NEW t \in Writer,
         SpewMessageType(t) \/ CallbackReturns(t) \/ UnlockOutput(t)
  PROVE  SInv'
<1>. DEFINE l == Last(frames[t])
<1>1. SpewTyped /\ t # NoWriter
  BY OutputAssumption DEF SInv
<1>2. CASE SpewMessageType(t)
  <2>. DEFINE f == [l EXCEPT !.step = "callback", !.locked = TRUE, !.by = fn,
                             !.said = IF l.type = "assert" THEN site[t] ELSE @]
  <2>1. /\ At(t, "lock") /\ output.owner \in {t, NoWriter} /\ Put(t, f)
        /\ output' = [owner |-> t, count |-> output.count + 1]
        /\ UNCHANGED <<groups, fn, site, stopped>>
    BY <1>2 DEF SpewMessageType
  <2>2. /\ frames[t] # <<>> /\ t \notin stopped /\ l \in Frame /\ l.step = "lock"
        /\ l.type = "assert" => l.site = site[t]
    BY <2>1, AtIs DEF Step
  <2>3. /\ f \in Frame /\ f.step = "callback"
        /\ f.type = "assert" => f.said = f.site
    BY <1>1, <2>2 DEF Frame, SpewTyped, Step
  <2>4. groups' \in Writer \union {NoWriter} /\ Last(frames[t]).step \notin Out /\ f.step \in Out
    BY <1>1, <2>1, <2>2, <2>3 DEF SpewTyped, Out
  <2>. HIDE DEF f
  <2>. QED
    BY <2>1, <2>2, <2>3, <2>4, PutStep
<1>3. CASE CallbackReturns(t)
  <2>1. PICK r \in Retval : Put(t, [l EXCEPT !.step = "unlock", !.ret = r])
    BY <1>3 DEF CallbackReturns, DefaultSpewFunc, Retval
  <2>2. At(t, "callback") /\ UNCHANGED <<groups, output, fn, site, stopped>>
    BY <1>3 DEF CallbackReturns
  <2>. DEFINE f == [l EXCEPT !.step = "unlock", !.ret = r]
  <2>3. /\ frames[t] # <<>> /\ t \notin stopped /\ l \in Frame /\ l.step = "callback"
        /\ l.type = "assert" => l.said = l.site
    BY <2>2, AtIs DEF Step
  <2>4. /\ f \in Frame /\ f.step = "unlock" /\ Put(t, f)
        /\ f.type = "assert" => f.said = f.site
    BY <2>1, <2>3 DEF Frame, Step
  <2>5. /\ groups' \in Writer \union {NoWriter}
        /\ Last(frames[t]).step \in Out /\ f.step \in Out
    BY <1>1, <2>2, <2>3, <2>4 DEF SpewTyped, Out
  <2>. HIDE DEF f
  <2>. QED
    BY <2>2, <2>3, <2>4, <2>5, PutStep
<1>4. CASE UnlockOutput(t)
  <2>. DEFINE f == [l EXCEPT !.step = "act", !.locked = FALSE]
  <2>1. /\ At(t, "unlock") /\ Put(t, f) /\ output' = Released
        /\ UNCHANGED <<groups, fn, site, stopped>>
    BY <1>4 DEF UnlockOutput
  <2>2. /\ frames[t] # <<>> /\ t \notin stopped /\ l \in Frame /\ l.step = "unlock"
        /\ l.type = "assert" => l.said = l.site
    BY <2>1, AtIs DEF Step
  <2>3. /\ f \in Frame /\ f.step = "act" /\ f.locked = FALSE
        /\ f.type = "assert" => f.said = f.site
    BY <2>2 DEF Frame, Step
  <2>4. /\ groups' \in Writer \union {NoWriter}
        /\ Last(frames[t]).step \in Out /\ f.step \notin Out
    BY <1>1, <2>1, <2>2, <2>3 DEF SpewTyped, Out
  <2>. HIDE DEF f
  <2>. QED
    BY <2>1, <2>2, <2>3, <2>4, PutStep
<1>. QED
  BY <1>2, <1>3, <1>4

(* SPEW_ABORT: the message is at its exit, and one more may be on top.     *)
LEMMA AbortStep ==
  ASSUME SInv, NEW t \in Writer, Abort(t)
  PROVE  SInv'
<1>. DEFINE l == Last(frames[t])
            f == [l EXCEPT !.step = "exit"]
            b == Front(frames[t]) \o <<f>>
            m == Message("message", NoSite, "level")
            n == Len(frames[t])
<1>1. /\ SpewTyped /\ FramesOK /\ At(t, "act") /\ UNCHANGED <<groups, output, fn, site, stopped>>
      /\ frames' = [frames EXCEPT ![t] =
           IF n < MaxNest THEN Front(frames[t]) \o <<f, m>> ELSE b]
  BY DEF Abort, SInv, SpewTyped
<1>2. /\ frames[t] # <<>> /\ t \notin stopped /\ l \in Frame /\ l.step = "act"
      /\ frames[t] \in Stack /\ ~l.locked
  BY <1>1, AtIs DEF Step, Out
<1>3. /\ f \in Frame /\ f.step = "exit" /\ f.locked = l.locked
      /\ m \in Frame /\ m.type = "message" /\ m.locked = FALSE /\ m.step = "level"
  BY <1>2, OutputAssumption DEF Message, Frame, Retval, Step, Type
<1>4. CASE ~(n < MaxNest)
  <2>1. GoOn(t, "exit")
    BY <1>1, <1>4 DEF GoOn, Put, SpewTyped
  <2>. QED
    BY <1>1, <2>1, GoesOn DEF Step, Out, SpewTyped
<1>5. CASE n < MaxNest
  <2>. DEFINE s == Front(frames[t]) \o <<f, m>>
              o == Front(frames[t])
  <2>1. /\ n \in Nat \ {0} /\ o \in Stack /\ Len(o) = n - 1
        /\ \A i \in 1 .. n - 1 : o[i] = frames[t][i]
    BY <1>2, LastIs, Shrinks
  <2>. HIDE DEF f, m, o
  <2>2. /\ o \o <<f, m>> \in Stack /\ Len(o \o <<f, m>>) = Len(o) + 2
        /\ (o \o <<f, m>>)[Len(o) + 1] = f /\ (o \o <<f, m>>)[Len(o) + 2] = m
        /\ \A i \in 1 .. Len(o) : (o \o <<f, m>>)[i] = o[i]
    <3>1. Len(o) + 1 < MaxNest
      BY <1>5, <2>1, OutputAssumption
    <3>. QED
      BY <1>3, <2>1, <3>1, GrowsTwice
  <2>3. s = o \o <<f, m>>
    BY DEF o
  <2>. HIDE DEF s
  <2>4. /\ s \in Stack /\ Len(s) = n + 1 /\ s[n] = f /\ s[n + 1] = m
        /\ \A i \in 1 .. n - 1 : s[i] = frames[t][i]
    <3>1. Len(o) + 1 = n /\ Len(o) + 2 = n + 1
      BY <2>1
    <3>. QED
      BY <2>1, <2>2, <2>3, <3>1
  <2>5. frames' = [frames EXCEPT ![t] = s] /\ frames'[t] = s
    BY <1>1, <1>5 DEF s, SpewTyped
  <2>6. /\ DOMAIN frames[t] = 1 .. n /\ DOMAIN s = 1 .. n + 1 /\ frames[t][n] = l
        /\ \A i \in 1 .. n + 1 : i = n + 1 \/ i = n \/ (i \in 1 .. n - 1 /\ i < n)
        /\ 1 .. n - 1 \subseteq 1 .. n /\ n \in 1 .. n /\ 1 .. n \subseteq 1 .. n + 1
        /\ n < n + 1 /\ n + 1 \notin 1 .. n /\ ~(n + 1 < n + 1)
    BY <1>2, <2>1, <2>4, LastIs DEF Stack
  <2>7. ASSUME NEW i \in 1 .. n + 1 PROVE FrameOK(t, i)'
    <3>1. CASE i = n + 1
      BY <1>3, <2>4, <2>5, <2>6, <3>1 DEF FrameOK
    <3>2. CASE i = n
      BY <1>2, <1>3, <2>4, <2>5, <2>6, <3>2 DEF FrameOK
    <3>3. CASE i \in 1 .. n - 1 /\ i < n
      <4>1. FrameOK(t, i)
        BY <1>1, <2>6, <3>3 DEF FramesOK
      <4>. QED
        BY <1>1, <2>4, <2>5, <3>3, <4>1 DEF FrameOK
    <3>. QED
      BY <2>6, <2>7, <3>1, <3>2, <3>3
  <2>8. Outputting(t)' = Outputting(t)
    <3>1. Outputting(t)' = {i \in 1 .. n + 1 : s[i].step \in Out}
      BY <2>5, <2>6 DEF Outputting, Out
    <3>2. Outputting(t) = {i \in 1 .. n : frames[t][i].step \in Out}
      BY <2>6 DEF Outputting, Out
    <3>3. s[n + 1].step \notin Out /\ s[n].step \notin Out /\ frames[t][n].step \notin Out
      BY <1>2, <1>3, <2>4, <2>6 DEF Out
    <3>. QED
      BY <2>4, <2>6, <3>1, <3>2, <3>3
  <2>9. /\ groups' \in Writer \union {NoWriter} /\ site' \in [Writer -> Site \union {NoSite}]
        /\ \A u \in Writer : u # t => site'[u] = site[u]
    BY <1>1 DEF SpewTyped
  <2>. QED
    BY <1>1, <1>2, <2>4, <2>5, <2>7, <2>8, <2>9, ThreadStep
<1>. QED
  BY <1>4, <1>5

(* A thread stops, or a message is done with.                              *)
LEMMA EndSteps ==
  ASSUME SInv, NEW t \in Writer, Exit(t) \/ DebugBreak(t) \/ Return(t)
  PROVE  SInv'
<1>1. SpewTyped /\ FramesOK /\ HeldFor /\ StoppedOK
  BY DEF SInv
<1>2. CASE Exit(t) \/ DebugBreak(t)
  <2>1. /\ UNCHANGED <<groups, output, fn, site, frames>> /\ stopped' = stopped \union {t}
        /\ frames[t] # <<>> /\ Last(frames[t]).step \in {"act", "exit"}
    BY <1>2 DEF Exit, DebugBreak, At
  <2>2. SpewTyped' /\ FramesOK' /\ HeldFor'
    BY <1>1, <2>1 DEF SpewTyped, FramesOK, FrameOK, HeldFor, Outputting
  <2>3. StoppedOK'
    BY <1>1, <2>1 DEF StoppedOK
  <2>. QED
    BY <2>2, <2>3 DEF SInv
<1>3. CASE Return(t)
  <2>1. At(t, "act") /\ Pop(t) /\ UNCHANGED <<groups, fn, site, stopped>>
    BY <1>3 DEF Return
  <2>2. /\ frames[t] # <<>> /\ t \notin stopped /\ Last(frames[t]).step = "act"
        /\ ~Last(frames[t]).locked
    BY <2>1, AtIs DEF Step, Out
  <2>3. output' = output
    BY <1>3, <2>2 DEF Return
  <2>. QED
    BY <1>1, <2>1, <2>2, <2>3, PopStep DEF SpewTyped, Out
<1>. QED
  BY <1>2, <1>3

LEMMA SpewInit == OutputInit => SInv
<1>. SUFFICES ASSUME OutputInit PROVE SInv
  OBVIOUS
<1>1. <<>> \in Stack
  BY OutputAssumption DEF Stack
<1>2. SpewTyped
  BY <1>1 DEF OutputInit, SpewTyped, Unheld
<1>3. \A t \in Writer : frames[t] = <<>> /\ Outputting(t) = {} /\ t # NoWriter
  BY OutputAssumption DEF OutputInit, Outputting
<1>4. FramesOK
  BY <1>3 DEF FramesOK
<1>5. HeldFor /\ StoppedOK
  BY <1>3, FS_EmptySet DEF HeldFor, StoppedOK, OutputInit, Unheld
<1>. QED
  BY <1>2, <1>4, <1>5 DEF SInv

LEMMA SpewNext == SInv /\ [OutputNext]_outputVars => SInv'
<1>. SUFFICES ASSUME SInv, [OutputNext]_outputVars PROVE SInv'
  OBVIOUS
<1>1. CASE \E t \in Writer :
             Msg(t) \/ DMsg(t) \/ SpewInfo(t) \/ ExitOnFatalAssert(t) \/ OutputAdvance(t)
  BY <1>1, SpewsMore, FatalSpews, LevelSteps, OutputSteps, AbortStep, EndSteps
     DEF OutputAdvance
<1>2. CASE SpewOutputFunc \/ UNCHANGED outputVars
  <2>1. UNCHANGED <<groups, output, site, frames, stopped>> /\ fn' \in {fn, "custom"}
    BY <1>2 DEF SpewOutputFunc, outputVars
  <2>2. SpewTyped /\ FramesOK /\ HeldFor /\ StoppedOK
    BY DEF SInv
  <2>3. SpewTyped'
    BY <2>1, <2>2 DEF SpewTyped
  <2>4. FramesOK' /\ HeldFor' /\ StoppedOK'
    BY <2>1, <2>2 DEF FramesOK, FrameOK, HeldFor, Outputting, StoppedOK
  <2>. QED
    BY <2>3, <2>4 DEF SInv
<1>. QED
  BY <1>1, <1>2 DEF OutputNext

(* The mutex is held for exactly the messages being output, and released   *)
(* before a message's answer is acted on: SpewMessageType never runs the   *)
(* host's function on two threads, and asserts are told at their own site. *)
THEOREM SpewAlwaysInOrder == OutputSpec => []SpewInOrder
<1>1. ASSUME SInv PROVE SpewInOrder
  <2>1. SpewTyped /\ FramesOK /\ HeldFor /\ StoppedOK
    BY <1>1 DEF SInv
  <2>2. \A t \in Writer : frames[t] \in Stack /\ Len(frames[t]) <= MaxNest
                          /\ Len(frames[t]) \in Nat /\ DOMAIN frames[t] = 1 .. Len(frames[t])
    BY <2>1 DEF SpewTyped, Stack
  <2>3. OutputTypeOK
    <3>1. output.count <= MaxNest
      <4>1. CASE output.owner = NoWriter
        BY <2>1, <4>1, OutputAssumption DEF HeldFor
      <4>2. CASE output.owner \in Writer
        BY <2>1, <2>2, <4>2, OutputtingIs, OutputAssumption DEF HeldFor
      <4>. QED
        BY <2>1, <4>1, <4>2 DEF SpewTyped
    <3>2. output \in [owner : Writer \union {NoWriter}, count : 0 .. MaxNest]
      BY <2>1, <3>1, OutputAssumption DEF SpewTyped
    <3>. QED
      BY <2>1, <2>2, <3>2 DEF SpewTyped, OutputTypeOK
  <2>4. ASSUME NEW t \in stopped, Len(frames[t]) = 1, output.owner = t PROVE FALSE
    <3>1. /\ t \in Writer /\ frames[t] \in Stack /\ frames[t] # <<>>
          /\ Last(frames[t]).step \notin {"callback", "unlock"}
      BY <2>1, <2>4 DEF StoppedOK, SpewTyped
    <3>2. Last(frames[t]) = frames[t][1] /\ DOMAIN frames[t] = 1 .. 1
      BY <2>4, <3>1, LastIs
    <3>3. Outputting(t) = {}
      BY <3>1, <3>2 DEF Outputting
    <3>4. output.count = 0
      BY <2>1, <2>4, <3>1, <3>3, OutputtingIs DEF HeldFor
    <3>. QED
      BY <2>1, <2>4, <3>1, <3>4, OutputAssumption DEF HeldFor
  <2>5. ASSUME NEW t \in Writer, NEW i \in 1 .. MaxNest, i <= Len(frames[t]),
               frames[t][i].type = "assert",
               frames[t][i].step \in {"callback", "unlock", "act"}
        PROVE  frames[t][i].said = frames[t][i].site
    <3>1. i \in DOMAIN frames[t]
      BY <2>2, <2>5
    <3>. QED
      BY <2>1, <2>5, <3>1 DEF FramesOK, FrameOK
  <2>. QED
    BY <2>1, <2>3, <2>4, <2>5 DEF SpewInOrder, HeldFor
<1>. QED
  BY <1>1, SpewInit, SpewNext, PTL DEF OutputSpec

=============================================================================
