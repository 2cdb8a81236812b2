----------------------------- MODULE PreciseSleep -----------------------------
(***************************************************************************)
(* Answers that are worked out once, by whichever thread asks first, and   *)
(* the system timer PreciseSleep raises once and the library's unloading   *)
(* releases (src/tier0/threadtools.cpp, platform.cpp, minidump.cpp).       *)
(*                                                                         *)
(* Each one-time answer has a word that is "unknown", then "asking" while  *)
(* the thread that claimed it works the answer out, then "ready".  The     *)
(* modes of the sleep and the worker's timeout are kept in the word        *)
(* itself; the clock's fields and the minidump flag are stored beside it.  *)
(* Nobody takes over from a thread that is terminated while asking; a      *)
(* thread that is terminated while raising the timer is given 100 ms.      *)
(***************************************************************************)
EXTENDS Integers, FiniteSets

CONSTANTS
  Sleeper,    \* threads that sleep, call workers or write minidumps
  Asked,      \* the answers that are asked for by themselves: the worker's
              \* timeout, "worker", and whether minidumps are written, "md"
  MaxDeaths,  \* bound on the threads that are terminated in mid-call
  MaxSlow     \* bound on the waits given up although the raise goes on

ASSUME SleeperAssumption == IsFiniteSet(Sleeper)
ASSUME AskedAssumption == Asked \subseteq {"worker", "md"}
ASSUME BoundAssumption == MaxDeaths \in Nat /\ MaxSlow \in Nat

Gate == {"precise", "highres", "clock"} \union Asked
OneWord == Gate \ {"clock", "md"}
Answer == {"no", "yes"}

VARIABLES
  word,      \* s_mode, s_timeout, g_TimerInitState, g_Tier0MD_Cached
  value,     \* what the word's answer is: g_bUseQPC and its fields, g_Tier0MD_Enabled
  timer,     \* s_HighResState
  raises, releases,  \* history: timeBeginPeriod and timeEndPeriod that succeeded
  resets,    \* history: raises in progress that a waiter took back
  slow,      \* the waits given up so far although the raiser lives
  at,        \* <<function, step>> of each thread
  dead       \* threads that were terminated

sleepVars == <<word, value, timer, raises, releases, resets, slow, at, dead>>
gateVars == <<word, value>>
timerVars == <<timer, raises, releases, resets, slow>>

Idle == <<"client", "idle">>

SleepInit ==
  /\ word = [g \in Gate |-> "unknown"]
  /\ value = [g \in Gate |-> "none"]
  /\ timer = "down"
  /\ raises = 0 /\ releases = 0 /\ resets = 0 /\ slow = 0
  /\ at = [t \in Sleeper |-> Idle]
  /\ dead = {}

(* A living thread takes the step s of function f, and is next at l.       *)
Moves(t, f, s, l) ==
  /\ t \notin dead
  /\ at[t] = <<f, s>>
  /\ at' = [at EXCEPT ![t] = l]
  /\ UNCHANGED dead

-----------------------------------------------------------------------------
(* The one-time answers.                                                   *)

(* An unknown answer is claimed by compare-exchange; who loses waits.      *)
See(t, g) ==
  /\ Moves(t, g, "see", <<g, IF word[g] = "unknown" THEN "claim" ELSE "wait">>)
  /\ UNCHANGED <<gateVars, timerVars>>

(* Faulty: who saw the answer unknown asks for it, and stores it.          *)
ClaimSeen(t, g) ==
  /\ Moves(t, g, "claim", <<g, "asking">>)
  /\ word' = [word EXCEPT ![g] = "asking"]
  /\ UNCHANGED <<value, timerVars>>

ClaimAnswer(t, g) ==
  /\ IF word[g] = "unknown"
     THEN /\ Moves(t, g, "claim", <<g, "asking">>)
          /\ word' = [word EXCEPT ![g] = "asking"]
     ELSE /\ Moves(t, g, "claim", <<g, "wait">>)
          /\ UNCHANGED word
  /\ UNCHANGED <<value, timerVars>>

(* The claimant looks the answer up; it stores it with the word, or before *)
(* the word that says it is there.                                         *)
LookUp(t, g) ==
  /\ \E a \in Answer : value' = [value EXCEPT ![g] = a]
  /\ IF g \in OneWord
     THEN /\ Moves(t, g, "asking", <<g, "wait">>)
          /\ word' = [word EXCEPT ![g] = "ready"]
     ELSE /\ Moves(t, g, "asking", <<g, "publish">>)
          /\ UNCHANGED word
  /\ UNCHANGED timerVars

Publish(t, g) ==
  /\ Moves(t, g, "publish", <<g, "wait">>)
  /\ word' = [word EXCEPT ![g] = "ready"]
  /\ UNCHANGED <<value, timerVars>>

(* Who finds the word ready leaves with the answer.                        *)
Hear(t, g, l) ==
  /\ word[g] = "ready"
  /\ Moves(t, g, "wait", l)
  /\ UNCHANGED <<gateVars, timerVars>>

(* Where the answer leads.  A duration outside 3..50 ms is slept plainly.  *)
BPreciseSleepEnabled(t) ==
  \/ value["precise"] = "yes" /\ Hear(t, "precise", <<"highres", "see">>)
  \/ Hear(t, "precise", Idle)

BHighResTimerEnabled(t) ==
  Hear(t, "highres", IF value["highres"] = "yes" THEN <<"raise", "claim">>
                                                 ELSE <<"clock", "claim">>)

InitPlatTimer(t) == Hear(t, "clock", <<"client", "asleep">>)

(* WorkerCallTimeout and IsTier0MDEnabled.                                 *)
Told(t) == \E g \in Asked : Hear(t, g, Idle)

-----------------------------------------------------------------------------
(* PreciseSleepRaiseTimer.                                                 *)

(* Faulty: the timer is raised by whoever does not find it raised.         *)
RaiseUnclaimed(t) ==
  /\ IF timer # "raised"
     THEN /\ Moves(t, "raise", "claim", <<"raise", "begin">>)
          /\ timer' = "raising"
     ELSE /\ Moves(t, "raise", "claim", <<"raise", "wait">>)
          /\ UNCHANGED timer
  /\ UNCHANGED <<gateVars, raises, releases, resets, slow>>

RaiseClaim(t) ==
  /\ IF timer = "down"
     THEN /\ Moves(t, "raise", "claim", <<"raise", "begin">>)
          /\ timer' = "raising"
     ELSE /\ Moves(t, "raise", "claim", <<"raise", "wait">>)
          /\ UNCHANGED timer
  /\ UNCHANGED <<gateVars, raises, releases, resets, slow>>

(* timeBeginPeriod, and the exchange that says how it went.                *)
TimeBeginPeriod(t) ==
  /\ \/ Moves(t, "raise", "begin", <<"raise", "raised">>) /\ raises' = raises + 1
     \/ Moves(t, "raise", "begin", <<"raise", "failed">>) /\ UNCHANGED raises
  /\ UNCHANGED <<gateVars, timer, releases, resets, slow>>

RaiseStore(t) ==
  /\ \E s \in {"raised", "failed"} :
       Moves(t, "raise", s, <<"clock", "claim">>) /\ timer' = s
  /\ UNCHANGED <<gateVars, raises, releases, resets, slow>>

(* A living thread is raising the timer.                                   *)
Raising ==
  \E s \in Sleeper \ dead :
    at[s] \in {<<"raise", "begin">>, <<"raise", "raised">>, <<"raise", "failed">>}

(* The others wait while it is being raised, for 100 ms at most, and then  *)
(* set it back for the next caller to raise.                               *)
RaiseWait(t) ==
  /\ timer # "raising"
  /\ Moves(t, "raise", "wait", <<"clock", "claim">>)
  /\ UNCHANGED <<gateVars, timerVars>>

(* Faulty: the wait has no end.                                            *)
RaiseWaitOn(t) ==
  /\ timer = "raising"
  /\ Moves(t, "raise", "wait", <<"raise", "wait">>)
  /\ UNCHANGED <<gateVars, timerVars>>

RaiseExpire(t) ==
  /\ timer = "raising"
  /\ Moves(t, "raise", "wait", <<"raise", "expired">>)
  /\ IF Raising THEN slow < MaxSlow /\ slow' = slow + 1 ELSE UNCHANGED slow
  /\ UNCHANGED <<gateVars, timer, raises, releases, resets>>

RaiseReset(t) ==
  /\ Moves(t, "raise", "expired", <<"clock", "claim">>)
  /\ IF timer = "raising" THEN timer' = "down" /\ resets' = resets + 1
                          ELSE UNCHANGED <<timer, resets>>
  /\ UNCHANGED <<gateVars, raises, releases, slow>>

-----------------------------------------------------------------------------
(* Tier0ShutdownHighResTimer: what the detaching thread does depends on    *)
(* the state it saw first; the release itself is claimed again.            *)
ShutdownSee(t) ==
  /\ Moves(t, "shutdown", "see",
          IF timer = "down" \/ timer = "released" THEN Idle
          ELSE <<"shutdown", timer>>)
  /\ UNCHANGED <<gateVars, timerVars>>

(* The wait for a raise in progress ends with it, or after 100 ms.         *)
ShutdownWait(t) ==
  /\ timer = "raising" /\ Raising => slow < MaxSlow
  /\ slow' = IF timer = "raising" /\ Raising THEN slow + 1 ELSE slow
  /\ Moves(t, "shutdown", "raising",
           <<"shutdown", IF timer = "failed" THEN "failing" ELSE "raised">>)
  /\ UNCHANGED <<gateVars, timer, raises, releases, resets>>

TimeEndPeriod(t) ==
  /\ \/ Moves(t, "shutdown", "raised", Idle)
     \/ Moves(t, "shutdown", "failing",
              IF timer = "raised" THEN Idle ELSE <<"shutdown", "failed">>)
  /\ IF timer = "raised" THEN timer' = "released" /\ releases' = releases + 1
                         ELSE UNCHANGED <<timer, releases>>
  /\ UNCHANGED <<gateVars, raises, resets, slow>>

ShutdownFailed(t) ==
  /\ Moves(t, "shutdown", "failed", Idle)
  /\ timer' = IF timer = "failed" THEN "released" ELSE timer
  /\ UNCHANGED <<gateVars, raises, releases, resets, slow>>

-----------------------------------------------------------------------------
(* The calls, the end of a sleep, and a thread's termination.              *)

Call(t, l) == Moves(t, "client", "idle", l) /\ UNCHANGED <<gateVars, timerVars>>

PreciseSleep(t) == Call(t, <<"precise", "see">>)
Ask(t) == \E g \in Asked : Call(t, <<g, "see">>)
Tier0ShutdownHighResTimer(t) == Call(t, <<"shutdown", "see">>)

(* The sleep and the spin end against a clock that is ready.               *)
Wake(t) == Moves(t, "client", "asleep", Idle) /\ UNCHANGED <<gateVars, timerVars>>

Terminate(t) ==
  /\ t \notin dead
  /\ at[t] # Idle
  /\ Cardinality(dead) < MaxDeaths
  /\ dead' = dead \union {t}
  /\ UNCHANGED <<gateVars, timerVars, at>>

Gates(t) ==
  \/ \E g \in Gate : See(t, g) \/ ClaimAnswer(t, g) \/ LookUp(t, g) \/ Publish(t, g)
  \/ BPreciseSleepEnabled(t) \/ BHighResTimerEnabled(t) \/ InitPlatTimer(t)
  \/ Told(t)

Timer(t) ==
  \/ RaiseClaim(t) \/ TimeBeginPeriod(t) \/ RaiseStore(t)
  \/ RaiseWait(t) \/ RaiseExpire(t) \/ RaiseReset(t)
  \/ ShutdownSee(t) \/ ShutdownWait(t) \/ TimeEndPeriod(t) \/ ShutdownFailed(t)

SleepAdvance(t) == Gates(t) \/ Timer(t) \/ Wake(t)

Calls(t) ==
  \/ PreciseSleep(t) \/ Ask(t) \/ Tier0ShutdownHighResTimer(t)

SleepNext == \E t \in Sleeper : Calls(t) \/ SleepAdvance(t) \/ Terminate(t)

SleepSpec == SleepInit /\ [][SleepNext]_sleepVars

(* A thread inside a call is scheduled, until it is terminated.            *)
FairSleepSpec == SleepSpec /\ \A t \in Sleeper : WF_sleepVars(SleepAdvance(t))

-----------------------------------------------------------------------------
SleepTypeOK ==
  /\ word \in [Gate -> {"unknown", "asking", "ready"}]
  /\ value \in [Gate -> Answer \union {"none"}]
  /\ timer \in {"down", "raising", "raised", "failed", "released"}
  /\ raises \in Nat /\ releases \in Nat /\ resets \in Nat /\ slow \in 0 .. MaxSlow
  /\ dead \subseteq Sleeper

(* Every caller of a one-time answer is told the same, and nobody is told  *)
(* before there is an answer: once the word is ready, what it stands for   *)
(* is filled in and never changes again.                                   *)
AnswersAgree ==
  [][\A g \in Gate : word[g] = "ready" =>
       /\ value[g] # "none"
       /\ word'[g] = "ready" /\ value'[g] = value[g]]_sleepVars

(* The timer is raised once, and once more for each raise a waiter took    *)
(* back; it is released as often as it was raised at most.  As long as no  *)
(* raise was taken back, it is held while its state says so and released   *)
(* when the state says that.                                               *)
TimerInOrder ==
  /\ raises <= 1 + resets
  /\ releases <= raises
  /\ resets = 0 =>
       raises - releases \in CASE timer = "raised" -> {1}
                               [] timer = "raising" -> {0, 1}
                               [] OTHER -> {0}

(* A call returns, unless its thread is terminated or waits for the answer *)
(* of a thread that was.                                                   *)
Orphaned(t) ==
  \E g \in Gate, s \in dead : at[t][1] = g /\ at[s] \in {<<g, "asking">>, <<g, "publish">>}

SleepReturns ==
  \A t \in Sleeper : (at[t] # Idle) ~> (at[t] = Idle \/ t \in dead \/ Orphaned(t))

=============================================================================
