------------------------------ MODULE SpewOutput ------------------------------
(***************************************************************************)
(* How a message reaches the output function (src/tier0/dbg.cpp).  The     *)
(* group's level is looked up under one mutex; the message is put together *)
(* and handed to the output function under another, a recursive one: the   *)
(* output function is the host's, and may itself spew.  What it returns is *)
(* acted on after the mutex is released.                                   *)
(***************************************************************************)
EXTENDS Integers, Sequences, FiniteSets, SequencesExt

CONSTANTS
  Writer,   \* threads that spew
  Site,     \* places in the source that assert
  MaxNest,  \* bound: messages in hand of one thread
  MaxInner, \* bound: messages the host's function spews for one it is given
  MaxCalls, \* bound: messages a thread spews of its own
  NoWriter, \* no thread
  NoSite    \* no site: the "unknown" file

ASSUME OutputAssumption ==
  NoWriter \notin Writer /\ NoSite \notin Site /\ {MaxNest, MaxInner, MaxCalls} \subseteq Nat \ {0}

(* SPEW_MESSAGE stands for SPEW_WARNING and SPEW_LOG too.                  *)
Type == {"message", "assert", "error"}
Retval == {"continue", "debugger", "abort"}

VARIABLES
  calls,     \* the messages each thread may still spew of its own
  groups,    \* owner of s_SpewGroupsMutex
  output,    \* autoMutex: [owner, count]
  fn,        \* s_SpewOutputFunc: "default", or the host's "custom"
  site,      \* s_pFileName and s_Line of each thread
  frames,    \* the messages in hand of each thread, the innermost last
  stopped,   \* threads that broke into the debugger or called exit
  exited     \* exit was called

outputVars == <<calls, groups, output, fn, site, frames, stopped, exited>>

Unheld == [owner |-> NoWriter, count |-> 0]

OutputInit ==
  /\ calls = [t \in Writer |-> MaxCalls]
  /\ groups = NoWriter
  /\ output = Unheld
  /\ fn = "default"
  /\ site = [t \in Writer |-> NoSite]
  /\ frames = [t \in Writer |-> <<>>]
  /\ stopped = {}
  /\ exited = FALSE

(* A message in hand: its type, where it was asserted, the step it is at,  *)
(* whether the guard of autoMutex is locked, the function it is given to   *)
(* and what that returned, how much it may still spew, and the site the    *)
(* message names.                                                          *)
Message(type, s, step) ==
  [type |-> type, site |-> s, step |-> step, locked |-> FALSE,
   by |-> "default", ret |-> "continue", inner |-> MaxInner, said |-> NoSite]

At(t, step) ==
  /\ ~exited /\ t \notin stopped
  /\ frames[t] # <<>> /\ Last(frames[t]).step = step

Put(t, f) == frames' = [frames EXCEPT ![t] = Front(@) \o <<f>>]
Pop(t) == frames' = [frames EXCEPT ![t] = Front(@)]
GoOn(t, step) == Put(t, [Last(frames[t]) EXCEPT !.step = step])

(* A thread spews on its own account, or from within the output function.  *)
MaySpew(t) ==
  /\ ~exited /\ t \notin stopped
  /\ Len(frames[t]) < MaxNest
  /\ frames[t] = <<>> => calls[t] > 0
  /\ frames[t] # <<>> =>
       LET f == Last(frames[t]) IN f.step = "callback" /\ f.by = "custom" /\ f.inner > 0

Base(t) ==
  IF frames[t] = <<>> THEN <<>>
  ELSE Front(frames[t]) \o <<[Last(frames[t]) EXCEPT !.inner = @ - 1]>>

Push(t, fs) ==
  /\ calls' = [calls EXCEPT ![t] = IF frames[t] = <<>> THEN @ - 1 ELSE @]
  /\ frames' = [frames EXCEPT ![t] = Base(t) \o fs]

-----------------------------------------------------------------------------
(* Msg, Warning, Log and Error, and _SpewMessage without a site.           *)
Msg(t) ==
  /\ MaySpew(t)
  /\ \E type \in Type \ {"assert"} : Push(t, <<Message(type, NoSite, "lock")>>)
  /\ UNCHANGED <<groups, output, fn, site, stopped, exited>>

(* The same for a group: its level is looked up first.                     *)
DMsg(t) ==
  /\ MaySpew(t)
  /\ Push(t, <<Message("message", NoSite, "level")>>)
  /\ UNCHANGED <<groups, output, fn, site, stopped, exited>>

(* An assertion notes its site with _SpewInfo, and spews.                  *)
SpewInfo(t) ==
  /\ MaySpew(t)
  /\ \E s \in Site, step \in {"lock", "level"} :
       /\ site' = [site EXCEPT ![t] = s]
       /\ Push(t, <<Message("assert", s, step)>>)
  /\ UNCHANGED <<groups, output, fn, stopped, exited>>

(* A fatal one spews, and then goes the way of a message that is aborted.  *)
ExitOnFatalAssert(t) ==
  /\ MaySpew(t)
  /\ Len(frames[t]) + 1 < MaxNest
  /\ Push(t, <<[Message("message", NoSite, "act") EXCEPT !.ret = "abort"],
               Message("assert", site[t], "lock")>>)
  /\ UNCHANGED <<groups, output, fn, site, stopped, exited>>

-----------------------------------------------------------------------------
(* The level of the group is read under its mutex, which is released       *)
(* before anything is spewed.                                              *)
LockGroups(t) ==
  /\ At(t, "level")
  /\ groups = NoWriter
  /\ groups' = t
  /\ GoOn(t, "compare")
  /\ UNCHANGED <<calls, output, fn, site, stopped, exited>>

(* Faulty: the mutex is released with what the level lets through.         *)
UnlockGroupsSpewing(t) ==
  /\ At(t, "compare")
  /\ \/ GoOn(t, "lock") /\ groups' = NoWriter
     \/ Pop(t) /\ UNCHANGED groups
  /\ UNCHANGED <<calls, output, fn, site, stopped, exited>>

UnlockGroups(t) ==
  /\ At(t, "compare")
  /\ groups' = NoWriter
  /\ \/ GoOn(t, "lock")
     \/ Pop(t)
  /\ UNCHANGED <<calls, output, fn, site, stopped, exited>>

-----------------------------------------------------------------------------
(* SpewMessageType.                                                        *)

SpewMessageType(t) ==
  /\ At(t, "lock")
  /\ output.owner \in {t, NoWriter}
  /\ output' = [owner |-> t, count |-> output.count + 1]
  /\ LET f == Last(frames[t]) IN
       Put(t, [f EXCEPT !.step = "callback", !.locked = TRUE, !.by = fn,
                        !.said = IF f.type = "assert" THEN site[t] ELSE @])
  /\ UNCHANGED <<calls, groups, fn, site, stopped, exited>>

(* The output function returns: the default one by the message's type.     *)
DefaultSpewFunc(type) ==
  CASE type = "assert" -> "continue"
    [] type = "error" -> "abort"
    [] OTHER -> "debugger"

CallbackReturns(t) ==
  /\ At(t, "callback")
  /\ LET f == Last(frames[t]) IN
       \E r \in IF f.by = "default" THEN {DefaultSpewFunc(f.type)} ELSE Retval :
         Put(t, [f EXCEPT !.step = "unlock", !.ret = r])
  /\ UNCHANGED <<calls, groups, output, fn, site, stopped, exited>>

Released ==
  IF output.count = 1 THEN Unheld ELSE [output EXCEPT !.count = @ - 1]

(* Faulty: the guard does not note that it was unlocked.                   *)
UnlockUnnoted(t) ==
  /\ At(t, "unlock")
  /\ output' = Released
  /\ GoOn(t, "act")
  /\ UNCHANGED <<calls, groups, fn, site, stopped, exited>>

UnlockOutput(t) ==
  /\ At(t, "unlock")
  /\ output' = Released
  /\ Put(t, [Last(frames[t]) EXCEPT !.step = "act", !.locked = FALSE])
  /\ UNCHANGED <<calls, groups, fn, site, stopped, exited>>

(* What was returned is acted on: SPEW_ABORT spews once more and exits,    *)
(* SPEW_DEBUGGER breaks unless the message is an assertion's.              *)
Abort(t) ==
  /\ At(t, "act")
  /\ Last(frames[t]).ret = "abort"
  /\ frames' = [frames EXCEPT ![t] =
       LET f == [Last(@) EXCEPT !.step = "exit"] IN
       IF Len(@) < MaxNest THEN Front(@) \o <<f, Message("message", NoSite, "level")>>
                           ELSE Front(@) \o <<f>>]
  /\ UNCHANGED <<calls, groups, output, fn, site, stopped, exited>>

Exit(t) ==
  /\ At(t, "exit")
  /\ exited' = TRUE /\ stopped' = stopped \union {t}
  /\ UNCHANGED <<calls, groups, output, fn, site, frames>>

DebugBreak(t) ==
  /\ At(t, "act")
  /\ Last(frames[t]).ret = "debugger" /\ Last(frames[t]).type # "assert"
  /\ stopped' = stopped \union {t}
  /\ UNCHANGED <<calls, groups, output, fn, site, frames, exited>>

(* The guard's destructor unlocks what is still locked.                    *)
Return(t) ==
  /\ At(t, "act")
  /\ Last(frames[t]).ret = "debugger" => Last(frames[t]).type = "assert"
  /\ Last(frames[t]).ret # "abort"
  /\ output' = IF Last(frames[t]).locked THEN Released ELSE output
  /\ Pop(t)
  /\ UNCHANGED <<calls, groups, fn, site, stopped, exited>>

(* The host sets its own function, once; no mutex is taken.                *)
SpewOutputFunc ==
  /\ ~exited
  /\ fn = "default" /\ fn' = "custom"
  /\ UNCHANGED <<calls, groups, output, site, frames, stopped, exited>>

-----------------------------------------------------------------------------
OutputAdvance(t) ==
  \/ LockGroups(t) \/ UnlockGroups(t)
  \/ SpewMessageType(t) \/ CallbackReturns(t) \/ UnlockOutput(t)
  \/ Abort(t) \/ Exit(t) \/ DebugBreak(t) \/ Return(t)

OutputNext ==
  \/ \E t \in Writer : Msg(t) \/ DMsg(t) \/ SpewInfo(t) \/ ExitOnFatalAssert(t) \/ OutputAdvance(t)
  \/ SpewOutputFunc

OutputSpec == OutputInit /\ [][OutputNext]_outputVars

FairOutputSpec == OutputSpec /\ \A t \in Writer : WF_outputVars(OutputAdvance(t))

-----------------------------------------------------------------------------
(* The messages a thread is having output now.                             *)
Outputting(t) == {i \in DOMAIN frames[t] : frames[t][i].step \in {"callback", "unlock"}}

OutputTypeOK ==
  /\ groups \in Writer \union {NoWriter}
  /\ output \in [owner : Writer \union {NoWriter}, count : 0 .. MaxNest]
  /\ fn \in {"default", "custom"}
  /\ \A t \in Writer : Len(frames[t]) <= MaxNest

(* The mutex is held for exactly the messages being output, by the thread  *)
(* whose they are: no two threads are in the output function, however they *)
(* nest, and a thread that exits or breaks on a message of its own has     *)
(* released it.  An assertion names the site of the thread that failed it. *)
SpewInOrder ==
  /\ OutputTypeOK
  /\ \A t \in Writer :
       Cardinality(Outputting(t)) = (IF output.owner = t THEN output.count ELSE 0)
  /\ \A t \in stopped : Len(frames[t]) = 1 => output.owner # t
  /\ \A t \in Writer, i \in 1 .. MaxNest :
         /\ i <= Len(frames[t]) /\ frames[t][i].type = "assert"
         /\ frames[t][i].step \in {"callback", "unlock", "act"}
         => frames[t][i].said = frames[t][i].site

(* When every thread has little enough to say, every message is done with: *)
(* no two threads wait for each other.  A thread is kept waiting only by   *)
(* one that stopped in the debugger while it was in the output function.   *)
SpewReturns ==
  \A t \in Writer :
    (frames[t] # <<>>) ~>
      (frames[t] = <<>> \/ exited \/ t \in stopped \/ output.owner \in stopped)

=============================================================================
