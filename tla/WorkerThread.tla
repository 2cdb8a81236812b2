---------------------------- MODULE WorkerThread ----------------------------
(***************************************************************************)
(* The one-slot call handshake of CWorkerThread (src/tier0/threadtools.cpp)*)
(* between the threads that Call a worker and the worker's loop of         *)
(* WaitForCall (or PeekCall) and Reply.                                    *)
(*                                                                         *)
(* Every access to m_Call or to one of the two auto-reset events is a step *)
(* of its own.  A call carries a number, so that its request and its reply *)
(* can be told apart from those of other calls; callers pass no flag bits. *)
(***************************************************************************)
EXTENDS Naturals, FiniteSets

CONSTANTS
  Caller,    \* threads that call the worker
  Mode,      \* what they ask for: "sync" (wait for the reply), "async"
  MaxCalls,  \* bound on the number of calls
  CanFail    \* TerminateThread may fail, or not take effect within 3 seconds

ASSUME ModeAssumption == Mode \subseteq {"sync", "async"}
ASSUME CallsAssumption == MaxCalls \in Nat
ASSUME FailAssumption == CanFail \in BOOLEAN

VARIABLES
  flags,     \* m_Call.m_flags
  param,     \* m_Call.m_param
  send,      \* m_EventSend is signaled
  complete,  \* m_EventComplete is signaled
  alive,     \* the worker thread runs
  pc,        \* where each caller is in Call
  mode,      \* its fWaitForReply
  call,      \* the number of its call
  wpc,       \* where the worker is in its loop
  got,       \* the request the worker took
  calls,     \* calls made so far
  replied    \* history: the calls whose result the worker has stored

slot == <<flags, param>>
caller == <<pc, mode, call, calls>>
worker == <<wpc, got, replied>>
vars == <<slot, send, complete, alive, caller, worker>>

Number == 1 .. MaxCalls
Request(n) == <<"request", n>>
Result(n) == <<"result", n>>
Payload == {Request(n) : n \in Number \union {0}} \union {Result(n) : n \in Number}

Init ==
  /\ flags = {}
  /\ param = Request(0)
  /\ send = FALSE
  /\ complete = FALSE
  /\ alive = TRUE
  /\ pc = [c \in Caller |-> "idle"]
  /\ mode \in [Caller -> Mode]
  /\ call = [c \in Caller |-> 0]
  /\ wpc = "wait"
  /\ got = Request(0)
  /\ calls = 0
  /\ replied = {}

Goto(c, l) == pc' = [pc EXCEPT ![c] = l]

-----------------------------------------------------------------------------
(* Call.                                                                   *)

(* A worker that is not alive is not called; this is asked only once.      *)
Begin(c, m) ==
  /\ pc[c] = "idle"
  /\ alive
  /\ calls < MaxCalls
  /\ calls' = calls + 1
  /\ call' = [call EXCEPT ![c] = calls + 1]
  /\ mode' = [mode EXCEPT ![c] = m]
  /\ Goto(c, "reserve")
  /\ UNCHANGED <<slot, send, complete, alive, worker>>

(* Faulty: a busy slot is reserved too.                                    *)
ReserveBusy(c) ==
  /\ pc[c] = "reserve"
  /\ flags' = {"SCHEDULED"}
  /\ Goto(c, "publish")
  /\ UNCHANGED <<param, send, complete, alive, mode, call, calls, worker>>

(* The compare-exchange of the flags; a busy slot is refused.              *)
Reserve(c) ==
  /\ pc[c] = "reserve"
  /\ \/ flags = {} /\ flags' = {"SCHEDULED"} /\ Goto(c, "publish")
     \/ flags # {} /\ Goto(c, "idle") /\ UNCHANGED flags
  /\ UNCHANGED <<param, send, complete, alive, mode, call, calls, worker>>

Publish(c) ==
  /\ pc[c] = "publish"
  /\ param' = Request(call[c])
  /\ Goto(c, "post")
  /\ UNCHANGED <<flags, send, complete, alive, mode, call, calls, worker>>

Post(c) ==
  /\ pc[c] = "post"
  /\ flags' = {"PENDING"}
  /\ Goto(c, "reset")
  /\ UNCHANGED <<param, send, complete, alive, mode, call, calls, worker>>

ResetComplete(c) ==
  /\ pc[c] = "reset"
  /\ complete' = FALSE
  /\ Goto(c, "send")
  /\ UNCHANGED <<slot, send, alive, mode, call, calls, worker>>

SetSend(c) ==
  /\ pc[c] = "send"
  /\ send' = TRUE
  /\ Goto(c, IF mode[c] = "sync" THEN "wait" ELSE "read")
  /\ UNCHANGED <<slot, complete, alive, mode, call, calls, worker>>

(* WaitForReply: the wait consumes the auto-reset event, or times out.     *)
WaitForReply(c) ==
  /\ pc[c] = "wait"
  /\ complete
  /\ complete' = FALSE
  /\ Goto(c, "read")
  /\ UNCHANGED <<slot, send, alive, mode, call, calls, worker>>

TimeOut(c) ==
  /\ pc[c] = "wait"
  /\ ~complete
  /\ Goto(c, "terminate")
  /\ UNCHANGED <<slot, send, complete, alive, mode, call, calls, worker>>

(* Call returns -1 whether or not TerminateThread succeeds; the worker may *)
(* be stopped between any two of its steps.                                *)
Terminate(c) ==
  /\ pc[c] = "terminate"
  /\ \/ alive' = FALSE /\ wpc' = "dead"
     \/ (CanFail \/ ~alive) /\ UNCHANGED <<alive, wpc>>
  /\ Goto(c, "idle")
  /\ UNCHANGED <<slot, send, complete, mode, call, calls, got, replied>>

(* Call returns what m_param is by now.                                    *)
Read(c) ==
  /\ pc[c] = "read"
  /\ Goto(c, "idle")
  /\ UNCHANGED <<slot, send, complete, alive, mode, call, calls, worker>>

-----------------------------------------------------------------------------
(* The worker.                                                             *)

(* Faulty: the wait leaves the event signaled.                             *)
WaitForCallManual ==
  /\ wpc = "wait"
  /\ send
  /\ wpc' = "take"
  /\ UNCHANGED <<slot, send, complete, alive, caller, got, replied>>

WaitForCall ==
  /\ wpc = "wait"
  /\ send
  /\ send' = FALSE
  /\ wpc' = "take"
  /\ UNCHANGED <<slot, complete, alive, caller, got, replied>>

(* Faulty: the reply is signaled before it is stored.                      *)
TakeAndSignal ==
  /\ wpc = "take"
  /\ got' = param
  /\ complete' = TRUE
  /\ wpc' = "store"
  /\ UNCHANGED <<slot, send, alive, caller, replied>>

TakeParam ==
  /\ wpc = "take"
  /\ got' = param
  /\ wpc' = "store"
  /\ UNCHANGED <<slot, send, complete, alive, caller, replied>>

(* Reply: the result, then the flags, then the event.                      *)
StoreResult ==
  /\ wpc = "store"
  /\ param' = Result(got[2])
  /\ replied' = replied \union {got[2]}
  /\ wpc' = "free"
  /\ UNCHANGED <<flags, send, complete, alive, caller, got>>

(* Faulty: only one of the two bits is cleared.                            *)
FreeScheduled ==
  /\ wpc = "free"
  /\ flags' = flags \ {"SCHEDULED"}
  /\ wpc' = "signal"
  /\ UNCHANGED <<param, send, complete, alive, caller, got, replied>>

FreeSlot ==
  /\ wpc = "free"
  /\ flags' = flags \ {"PENDING", "SCHEDULED"}
  /\ wpc' = "signal"
  /\ UNCHANGED <<param, send, complete, alive, caller, got, replied>>

(* Faulty: the event is not signaled.                                      *)
SkipComplete ==
  /\ wpc = "signal"
  /\ wpc' = "wait"
  /\ UNCHANGED <<slot, send, complete, alive, caller, got, replied>>

SetComplete ==
  /\ wpc = "signal"
  /\ complete' = TRUE
  /\ wpc' = "wait"
  /\ UNCHANGED <<slot, send, alive, caller, got, replied>>

-----------------------------------------------------------------------------
(* What a caller does once it has called.                                  *)
Proceed(c) ==
  \/ Reserve(c) \/ Publish(c) \/ Post(c) \/ ResetComplete(c) \/ SetSend(c)
  \/ WaitForReply(c) \/ TimeOut(c) \/ Terminate(c) \/ Read(c)

Work == WaitForCall \/ TakeParam \/ StoreResult \/ FreeSlot \/ SetComplete

Next ==
  \/ \E c \in Caller : \E m \in Mode : Begin(c, m)
  \/ \E c \in Caller : Proceed(c)
  \/ Work

Spec == Init /\ [][Next]_vars

(* Running threads are scheduled.                                          *)
FairSpec == Spec /\ WF_vars(Work) /\ \A c \in Caller : WF_vars(Proceed(c))

-----------------------------------------------------------------------------
TypeOK ==
  /\ flags \subseteq {"SCHEDULED", "PENDING"}
  /\ param \in Payload
  /\ send \in BOOLEAN
  /\ complete \in BOOLEAN
  /\ alive \in BOOLEAN
  /\ pc \in [Caller -> {"idle", "reserve", "publish", "post", "reset", "send",
                        "wait", "read", "terminate"}]
  /\ mode \in [Caller -> Mode]
  /\ call \in [Caller -> Number \union {0}]
  /\ wpc \in {"wait", "take", "store", "free", "signal", "dead"}
  /\ got \in Payload
  /\ calls \in Number \union {0}
  /\ replied \subseteq Number

(* The slot belongs to one party at a time: the caller that fills it, the  *)
(* signaled event, or the worker that serves it; and it is reserved as     *)
(* long as it belongs to anyone.                                           *)
Filling == {c \in Caller : pc[c] \in {"publish", "post", "reset", "send"}}
Serving == wpc \in {"take", "store", "free"}

OneSlotOwner ==
  /\ \A c, d \in Filling : c = d
  /\ Filling # {} => ~send /\ ~Serving
  /\ ~(send /\ Serving)
  /\ flags = {} => Filling = {} /\ ~send /\ ~Serving

(* At all times the slot is in order and has one owner at most.            *)
SlotInOrder == TypeOK /\ OneSlotOwner

-----------------------------------------------------------------------------
(* The numbers of requests: why a call is served once, and inductively so. *)

(* Callers whose request is not in the slot yet.                           *)
Unpublished == {c \in Caller : pc[c] \in {"reserve", "publish"}}

(* The slot holds a request that the worker has not taken.                 *)
Pending ==
  \/ send \/ wpc = "take"
  \/ \E c \in Caller : pc[c] \in {"post", "reset", "send"}

(* p is the request of a call that is neither answered nor yet to be made. *)
Unanswered(p) ==
  /\ p \in {Request(n) : n \in Number \ replied}
  /\ p[2] <= calls
  /\ \A c \in Unpublished : call[c] # p[2]

(* A call's number is new, and its request is in one place until answered. *)
RequestsInOrder ==
  /\ calls \in Nat /\ replied \subseteq 1 .. calls
  /\ \A c \in Unpublished : call[c] \in (1 .. calls) \ replied
  /\ \A c, d \in Unpublished : call[c] = call[d] => c = d
  /\ Pending => Unanswered(param)
  /\ wpc = "store" => Unanswered(got)

-----------------------------------------------------------------------------
(* What the worker takes is a request, never a result or a call it has     *)
(* already answered: no call is served twice and none is served half       *)
(* published.                                                              *)
ServedOnce ==
  [][TakeParam => /\ param[1] = "request"
                  /\ param[2] \in Number \ replied]_vars

(* A synchronous Call that got past its wait returns the worker's result   *)
(* for the very request it made.                                           *)
OwnReply ==
  \A c \in Caller :
    pc[c] = "read" /\ mode[c] = "sync" => param = Result(call[c])

(* A Call times out, and kills the worker, only while the worker still has *)
(* the request: the reply's signal was not lost.                           *)
TimesOutUnanswered == \A c \in Caller : TimeOut(c) => send \/ wpc # "wait"

(* A timed-out call leaves the slot poisoned: no caller reserves the slot  *)
(* of a worker that has been terminated.                                   *)
DeadSlotPoisoned == ~alive => flags # {}

(* The slot is freed again, or the worker has been terminated.             *)
SlotFreed == (flags # {}) ~> (flags = {} \/ ~alive)

=============================================================================
