--------------------------- MODULE MCWorkerThread ---------------------------
(* Small instances of WorkerThread for TLC: two callers with both kinds of *)
(* call, and a single caller that waits for every reply, whose worker can  *)
(* be terminated.                                                          *)
EXTENDS WorkerThread

CONSTANTS c1, c2

SyncOnly == {"sync"}
BothModes == {"sync", "async"}

ASSUME WaitingAssumption == c1 \in Caller /\ "sync" \in Mode

VARIABLE waiting  \* which of the two the behaviour is about

Waiting == INSTANCE WorkerThread WITH
             Caller <- {c1}, Mode <- SyncOnly, CanFail <- FALSE

allVars == <<vars, waiting>>

MCInit == Init /\ waiting \in BOOLEAN

MCNext ==
  /\ IF waiting THEN Waiting!Next ELSE Next
  /\ UNCHANGED waiting

MCSpec ==
  /\ MCInit /\ [][MCNext]_allVars
  /\ WF_allVars(Work /\ UNCHANGED waiting)
  /\ \A c \in Caller :
       WF_allVars(IF waiting THEN c = c1 /\ Waiting!Proceed(c) /\ UNCHANGED waiting
                             ELSE Proceed(c) /\ UNCHANGED waiting)

(* A single caller that always waits gets its own reply: see OwnReply.     *)
OwnReplyWhenWaiting == waiting => OwnReply

(* Where the reply of that caller's call is while it waits.                *)
Underway ==
  \/ wpc = "wait" /\ send /\ ~complete /\ param = Request(call[c1])
  \/ wpc = "take" /\ ~send /\ ~complete /\ param = Request(call[c1])
  \/ wpc = "store" /\ ~send /\ ~complete /\ got = Request(call[c1])
  \/ wpc \in {"free", "signal"} /\ ~send /\ ~complete /\ param = Result(call[c1])
  \/ wpc = "wait" /\ ~send /\ complete /\ param = Result(call[c1])

(* The worker has nothing to do and owes no signal.                        *)
Rests == wpc = "wait" /\ ~send /\ ~complete

(* The single caller and the worker take turns: no event is left signaled  *)
(* from an earlier call, until a reply is given up and the worker is gone. *)
TakeTurns ==
  /\ \A c \in Caller \ {c1} : pc[c] = "idle"
  /\ pc[c1] # "idle" => alive /\ mode[c1] = "sync" /\ call[c1] \in Number
  /\ alive /\ pc[c1] \notin {"wait", "terminate"} => Rests
  /\ pc[c1] \in {"post", "reset", "send"} => param = Request(call[c1])
  /\ pc[c1] \in {"wait", "terminate"} => Underway
  /\ pc[c1] = "read" => param = Result(call[c1])
  /\ ~alive => wpc = "dead"

(* The slot has one owner, every request is in one place until answered,   *)
(* and a single caller that waits takes turns with the worker.             *)
IInv == SlotInOrder /\ RequestsInOrder /\ (waiting => TakeTurns)

(* A single caller that always waits loses no reply.                       *)
NoLostReply == [][waiting => TimesOutUnanswered]_allVars

=============================================================================
