----------------------------- MODULE MCProgress -----------------------------
(***************************************************************************)
(* The parts of tier0 in which threads wait for one another, for one run   *)
(* of TLC: the fast mutex, the one-time answers with the sleep's timer,    *)
(* and the output of messages.  They share no state; a behaviour is about  *)
(* one of them, and the others stay in their initial states.  The mutex    *)
(* has two kinds of clients: those that nest, and those that do not nest   *)
(* but may unlock what they never locked.                                  *)
(***************************************************************************)
EXTENDS FastMutex, PreciseSleep, SpewOutput

CONSTANTS t1, t2, t3

VARIABLE part  \* the one this behaviour is about

Straying == INSTANCE FastMutex WITH Stray <- {t1, t2}, MaxDepth <- 1

MCInit ==
  /\ Init /\ SleepInit /\ OutputInit
  /\ part \in {"nesting", "straying", "sleep", "output"}

allVars == <<vars, sleepVars, outputVars, part>>

Alone(p) ==
  /\ part = p /\ UNCHANGED part
  /\ p \notin {"nesting", "straying"} => UNCHANGED vars
  /\ p # "sleep" => UNCHANGED sleepVars
  /\ p # "output" => UNCHANGED outputVars

MCNext ==
  \/ Alone("nesting") /\ Next
  \/ Alone("straying") /\ Straying!Next
  \/ Alone("sleep") /\ SleepNext
  \/ Alone("output") /\ OutputNext

(* Each thread is scheduled while it is inside an operation.               *)
MCSpec ==
  /\ MCInit /\ [][MCNext]_allVars
  /\ \A t \in Thread :
       WF_allVars(Advance(t) /\ UNCHANGED <<sleepVars, outputVars, part>>)
  /\ \A t \in Sleeper :
       WF_allVars(Alone("sleep") /\ SleepAdvance(t))
  /\ \A t \in Writer :
       WF_allVars(Alone("output") /\ OutputAdvance(t))

(* Among clients that unlock only what they locked, the count of the lock  *)
(* is the number of locks its owner has taken: see CountIsDepth.           *)
CountWhenNesting == part # "straying" => CountIsDepth

(* The count stays in its range, and is right where it can be.             *)
CountInOrder == TypeOK /\ CountWhenNesting

=============================================================================
