--------------------------- MODULE ThreadLifecycle ---------------------------
(***************************************************************************)
(* A CThread object (src/tier0/threadtools.cpp, and its destructor in      *)
(* src/tier0/exports_fillins.cpp) and the threads it starts, one after     *)
(* the other.                                                              *)
(*                                                                         *)
(* Start shares an event and a flag of its own stack frame with the new    *)
(* thread and waits a minute for the event; a thread whose Init takes      *)
(* longer finds the frame gone.  An owner whose Start gave up may call     *)
(* Start again; any other owner joins first.  The ghost variables record   *)
(* what nobody in the program looks at.                                    *)
(***************************************************************************)
EXTENDS Integers

CONSTANT MaxThreads  \* bound: threads started

ASSUME StartsAssumption == MaxThreads \in Nat

Started == 1 .. MaxThreads

VARIABLES
  handle,    \* m_hThread: the thread it is a handle of, 0 for NULL
  tid,       \* m_threadId
  result,    \* m_result
  thr,       \* the threads: where in ThreadProc, what Init said, exit code
  last,      \* the thread started last
  owner,     \* where the owner is
  signalled, \* initComplete of the Start in progress
  success,   \* bInitSuccess of the Start in progress
  answer,    \* ghost: what Start returned
  resultOf,  \* ghost: the thread m_result was last set for
  late,      \* ghost: threads that wrote to a frame that was gone
  ghosts     \* ghost: threads that ran the object after its destruction

object == <<handle, tid, result, resultOf>>
frame == <<signalled, success>>
threadVars == <<object, frame, thr, last, owner, answer, late, ghosts>>

Steps == {"none", "new", "init", "flag", "set", "run", "exit", "ended"}

ThreadInit ==
  /\ handle = 0 /\ tid = 0 /\ result = "none" /\ resultOf = 0
  /\ thr = [k \in Started |-> [pc |-> "none", ok |-> FALSE, code |-> "none"]]
  /\ last = 0
  /\ owner = "idle"
  /\ signalled = FALSE /\ success = FALSE
  /\ answer = [k \in Started |-> "none"]
  /\ late = {} /\ ghosts = {}

Ended(k) == thr[k].pc = "ended"

GaveUp == {k \in Started : answer[k] = "timeout"}

-----------------------------------------------------------------------------
(* The owner: Start.  The new thread runs before its id and its handle are *)
(* stored in the object.                                                   *)

StartThread ==
  /\ owner = "idle" /\ last < MaxThreads
  /\ handle = 0 \/ last \in GaveUp
  /\ last' = last + 1
  /\ thr' = [thr EXCEPT ![last + 1].pc = "new"]
  /\ owner' = "created"
  /\ signalled' = FALSE /\ success' = FALSE
  /\ UNCHANGED <<object, answer, late, ghosts>>

StoreHandle ==
  /\ owner = "created"
  /\ handle' = last /\ tid' = last
  /\ owner' = "waiting"
  /\ UNCHANGED <<result, resultOf, frame, thr, last, answer, late, ghosts>>

(* Faulty: Start does not wait for the event.                              *)
ReturnsAtOnce ==
  /\ owner = "waiting"
  /\ owner' = "idle"
  /\ answer' = [answer EXCEPT ![last] = IF success THEN "yes" ELSE "no"]
  /\ UNCHANGED <<object, frame, thr, last, late, ghosts>>

StartReturns ==
  /\ owner = "waiting" /\ signalled
  /\ owner' = "idle"
  /\ answer' = [answer EXCEPT ![last] = IF success THEN "yes" ELSE "no"]
  /\ UNCHANGED <<object, frame, thr, last, late, ghosts>>

StartTimesOut ==
  /\ owner = "waiting" /\ ~signalled
  /\ owner' = "idle"
  /\ answer' = [answer EXCEPT ![last] = "timeout"]
  /\ UNCHANGED <<object, frame, thr, last, late, ghosts>>

-----------------------------------------------------------------------------
(* The owner: Join, Terminate and the destructor.  A Join that times out   *)
(* and a Stop, which only waits, change nothing.                           *)

Join ==
  /\ owner = "idle" /\ handle # 0
  /\ Ended(handle)
  /\ result' = thr[handle].code /\ resultOf' = handle
  /\ handle' = 0 /\ tid' = 0
  /\ UNCHANGED <<frame, thr, last, owner, answer, late, ghosts>>

(* Terminate finds the thread over, or goes on to end it.                  *)
Terminate ==
  /\ owner = "idle" /\ handle # 0
  /\ IF Ended(handle)
       THEN /\ result' = thr[handle].code /\ resultOf' = handle
            /\ UNCHANGED owner
       ELSE /\ owner' = "terminating"
            /\ UNCHANGED <<result, resultOf>>
  /\ UNCHANGED <<handle, tid, frame, thr, last, answer, late, ghosts>>

Killed(k) == [thr EXCEPT ![k].pc = "ended", ![k].code = "terminated"]

(* TerminateThread, which fails when the thread has ended meanwhile.       *)
Kill ==
  /\ owner = "terminating"
  /\ owner' = "idle"
  /\ IF Ended(handle)
       THEN UNCHANGED <<thr, result, resultOf>>
       ELSE /\ thr' = Killed(handle)
            /\ result' = "terminated" /\ resultOf' = handle
  /\ UNCHANGED <<handle, tid, frame, last, answer, late, ghosts>>

Destroy ==
  /\ owner = "idle"
  /\ owner' = "gone"
  /\ handle' = 0
  /\ IF handle # 0 /\ ~Ended(handle)
       THEN /\ thr' = Killed(handle)
            /\ result' = "terminated" /\ resultOf' = handle
       ELSE UNCHANGED <<thr, result, resultOf>>
  /\ UNCHANGED <<tid, frame, last, answer, late, ghosts>>

-----------------------------------------------------------------------------
(* ThreadProc.                                                             *)

To(k, pc) == thr' = [thr EXCEPT ![k].pc = pc]

(* A write of k to the frame of its Start: the frame is there as long as   *)
(* Start has not returned.  Afterwards the place may be the frame of the   *)
(* next Start or nobody's.                                                 *)
InStart == owner \in {"created", "waiting"}

Written(k, old, new) ==
  IF k = last /\ InStart THEN {new} ELSE IF InStart THEN {old, new} ELSE {old}

Late(k) == late' = IF k = last /\ InStart THEN late ELSE late \cup {k}

WriteSuccess(k, b) == success' \in Written(k, success, b) /\ Late(k)

(* A call of a virtual function of the object, or a write to it.           *)
Touch(k) == ghosts' = IF owner = "gone" THEN ghosts \cup {k} ELSE ghosts

Begin(k) ==
  /\ thr[k].pc = "new"
  /\ To(k, "init")
  /\ WriteSuccess(k, FALSE)
  /\ UNCHANGED <<object, signalled, last, owner, answer, ghosts>>

CallInit(k) ==
  /\ thr[k].pc = "init"
  /\ \E ok \in BOOLEAN : thr' = [thr EXCEPT ![k].pc = "flag", ![k].ok = ok]
  /\ Touch(k)
  /\ UNCHANGED <<object, frame, last, owner, answer, late>>

StoreSuccess(k) ==
  /\ thr[k].pc = "flag"
  /\ To(k, "set")
  /\ WriteSuccess(k, thr[k].ok)
  /\ UNCHANGED <<object, signalled, last, owner, answer, ghosts>>

(* Set the event, then run or, when Init failed, return.                   *)
Signal(k) ==
  /\ thr[k].pc = "set"
  /\ signalled' \in Written(k, signalled, TRUE)
  /\ Late(k)
  /\ thr' = [thr EXCEPT ![k].pc = IF thr[k].ok THEN "run" ELSE "ended",
                        ![k].code = IF thr[k].ok THEN @ ELSE "returned"]
  /\ UNCHANGED <<object, success, last, owner, answer, ghosts>>

Run(k) ==
  /\ thr[k].pc = "run"
  /\ To(k, "exit")
  /\ Touch(k)
  /\ UNCHANGED <<object, frame, last, owner, answer, late>>

(* OnExit and m_threadId = 0.                                              *)
Exit(k) ==
  /\ thr[k].pc = "exit"
  /\ thr' = [thr EXCEPT ![k].pc = "ended", ![k].code = "returned"]
  /\ tid' = 0
  /\ Touch(k)
  /\ UNCHANGED <<handle, result, resultOf, frame, last, owner, answer, late>>

-----------------------------------------------------------------------------
OwnerNext ==
  \/ StartThread
  \/ StoreHandle
  \/ StartReturns
  \/ StartTimesOut
  \/ Join
  \/ Terminate
  \/ Kill
  \/ Destroy

ThreadNext ==
  \/ OwnerNext
  \/ \E k \in Started :
       \/ Begin(k)
       \/ CallInit(k)
       \/ StoreSuccess(k)
       \/ Signal(k)
       \/ Run(k)
       \/ Exit(k)

ThreadSpec == ThreadInit /\ [][ThreadNext]_threadVars

-----------------------------------------------------------------------------
(* The state is of the expected shape.                                     *)
ThreadTypeOK ==
  /\ {handle, tid, resultOf, last} \subseteq 0 .. MaxThreads
  /\ result \in {"none", "returned", "terminated"} /\ (result = "none" <=> resultOf = 0)
  /\ \A k \in Started : thr[k].pc \in Steps /\ (thr[k].pc = "none" <=> k > last)
  /\ owner \in {"idle", "created", "waiting", "terminating", "gone"}

(* As long as no Start gave up, no thread writes to the frame of its Start *)
(* after that has returned: the handshake itself keeps the frame in place. *)
(* (A thread that is late can end the wait of the next Start early, and    *)
(* make the next thread late as well.)                                     *)
FrameOutlivesHandshake == GaveUp = {} => late = {}

(* As long as no Start gave up, what Start answers is what Init said.  (One*)
(* that gave up may have a thread that answers the next one.)              *)
AnswerIsInits ==
  GaveUp = {} => \A k \in Started :
    /\ answer[k] = "yes" => thr[k].ok
    /\ answer[k] = "no" => ~thr[k].ok

(* As long as no Start gave up, the object knows the id of the thread that *)
(* runs it, which is how Terminate tells that a thread wants to terminate  *)
(* itself.                                                                 *)
RunnerIsKnown ==
  GaveUp = {} =>
    \A k \in Started : thr[k].pc = "run" /\ handle = k => tid = k

(* As long as no Start gave up, no thread uses the object after its        *)
(* destruction.                                                            *)
NobodyRunsTheDead == GaveUp = {} => ghosts = {}

(* m_result is the exit code of a thread that has ended, also when it ends *)
(* by itself while Terminate is about to end it.                           *)
ResultIsExitCode ==
  resultOf # 0 => Ended(resultOf) /\ result = thr[resultOf].code

(* As long as no Start gave up, object and frame are there for the thread  *)
(* that uses them, and what Start and the object say of it is so; what the *)
(* object says of its end always is.                                       *)
ThreadInOrder ==
  /\ ThreadTypeOK /\ FrameOutlivesHandshake /\ AnswerIsInits
  /\ RunnerIsKnown /\ NobodyRunsTheDead /\ ResultIsExitCode

=============================================================================
