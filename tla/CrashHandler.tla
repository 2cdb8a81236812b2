----------------------------- MODULE CrashHandler -----------------------------
(***************************************************************************)
(* The vectored exception handler that writes crash.log and, when asked    *)
(* to, a minidump (src/tier0/tier0.cpp, minidump.cpp), with the loading of *)
(* the library that installs it, the death of the process in the middle of *)
(* it, and the next process, which appends to the same log.                *)
(*                                                                         *)
(* A record is several appends, each of which opens the file again; the    *)
(* lines between the first and the last stand for one another here.  The   *)
(* dump is written under the lock of MiniDumpLock.                         *)
(***************************************************************************)
EXTENDS MiniDumpLock, Sequences

CONSTANTS
  MaxCrashes,  \* bound: exceptions that are handled
  MaxProcesses \* bound: processes, one after another

ASSUME CrashAssumption == {MaxCrashes, MaxProcesses} \subseteq Nat

VARIABLES
  path,      \* g_CrashLogInitState: "unset", "resolving", "set"
  veh,       \* g_hVeh: "absent", "installed", "removed"; "refused", the system will not have it
  md,        \* TIER0_MD is set
  gate,      \* g_CrashInProgress
  stage,     \* where each thread is in the handler, "app" when it is not
  crash,     \* ghost: the number of the record the thread is writing
  crashes,   \* ghost: records begun
  processes, \* ghost: processes started
  log        \* what each file holds of the records: [crash, part] in order

handlerVars == <<path, veh, md, gate, stage, crash, crashes, processes, log>>
crashVars == <<dumpVars, handlerVars>>

LogFile == {"primary", "fallback"}

CrashInit ==
  /\ DumpInit
  /\ path = "unset" /\ veh \in {"absent", "refused"} /\ md \in BOOLEAN
  /\ gate = 0
  /\ stage = [t \in Dumper |-> "app"]
  /\ crash = [t \in Dumper |-> 0]
  /\ crashes = 0 /\ processes = 1
  /\ log = [f \in LogFile |-> <<>>]

Stage(t, from, to) == stage[t] = from /\ stage' = [stage EXCEPT ![t] = to]

-----------------------------------------------------------------------------
(* DllMain and GetCrashLogPath: the path is worked out, then published,    *)
(* and only then is there a handler; the next who asks for it while it is  *)
(* being worked out is given a path of its own.                            *)
Attach ==
  \/ /\ path = "unset" /\ path' = "resolving"
     /\ UNCHANGED veh
  \/ /\ path = "resolving" /\ path' = "set"
     /\ UNCHANGED veh
  \/ /\ path = "set" /\ veh = "absent"
     /\ veh' = "installed" /\ UNCHANGED path

DllMain ==
  /\ Attach
  /\ UNCHANGED <<dumpVars, md, gate, stage, crash, crashes, processes, log>>

Detach ==
  /\ veh = "installed"
  /\ veh' = "removed"
  /\ UNCHANGED <<dumpVars, path, md, gate, stage, crash, crashes, processes, log>>

GetCrashLogPath == IF path = "set" THEN "primary" ELSE "fallback"

-----------------------------------------------------------------------------
(* Tier0_VectoredHandler.  A thread faults in the program, which may be    *)
(* writing a minidump of its own; the handler is entered by one thread at  *)
(* a time, and by no other until it is left: their exceptions are passed   *)
(* on unrecorded, the handler's own among them.                            *)
Raise(t) ==
  /\ veh = "installed"
  /\ crashes < MaxCrashes
  /\ at[t] = "out"
  /\ Stage(t, "app", "gate")
  /\ UNCHANGED <<dumpVars, path, veh, md, gate, crash, crashes, processes, log>>

(* Faulty: whoever comes in writes a record.                               *)
AdmitAny(t) ==
  /\ Stage(t, "gate", "rotate")
  /\ gate' = 1 /\ crashes' = crashes + 1
  /\ crash' = [crash EXCEPT ![t] = crashes + 1]
  /\ UNCHANGED <<dumpVars, path, veh, md, processes, log>>

Admit(t) ==
  /\ IF gate = 0
     THEN /\ Stage(t, "gate", "rotate")
          /\ gate' = 1 /\ crashes' = crashes + 1
          /\ crash' = [crash EXCEPT ![t] = crashes + 1]
     ELSE /\ Stage(t, "gate", "search")
          /\ UNCHANGED <<gate, crash, crashes>>
  /\ UNCHANGED <<dumpVars, path, veh, md, processes, log>>

(* A log that has grown too large is moved away, before the record.        *)
RotateCrashLogIfNeeded(t) ==
  /\ Stage(t, "rotate", "head")
  /\ \/ UNCHANGED log
     \/ log' = [log EXCEPT ![GetCrashLogPath] = <<>>]
  /\ UNCHANGED <<dumpVars, path, veh, md, gate, crash, crashes, processes>>

WriteLog(t, part) ==
  log' = [log EXCEPT ![GetCrashLogPath] = Append(@, [crash |-> crash[t], part |-> part])]

(* Nothing is written when the log cannot be opened for the first lines;   *)
(* each part after that may fail by itself, and nobody looks.              *)
LogHead(t) ==
  /\ \/ Stage(t, "head", "trace") /\ (WriteLog(t, "head") \/ UNCHANGED log)
     \/ Stage(t, "head", "dump") /\ UNCHANGED log
  /\ UNCHANGED <<dumpVars, path, veh, md, gate, crash, crashes, processes>>

LogTrace(t) ==
  /\ Stage(t, "trace", "end")
  /\ WriteLog(t, "trace") \/ UNCHANGED log
  /\ UNCHANGED <<dumpVars, path, veh, md, gate, crash, crashes, processes>>

LogEnd(t) ==
  /\ Stage(t, "end", "dump")
  /\ WriteLog(t, "end") \/ UNCHANGED log
  /\ UNCHANGED <<dumpVars, path, veh, md, gate, crash, crashes, processes>>

(* WriteMiniDumpForException: MiniDumpWriter takes the lock and writes, or *)
(* goes away; so it does for the program, where no exception is handled.   *)
BeginDump(t) ==
  /\ IF md THEN Enter(t) /\ Stage(t, "dump", "locking")
           ELSE UNCHANGED dumpVars /\ Stage(t, "dump", "leave")
  /\ UNCHANGED <<path, veh, md, gate, crash, crashes, processes, log>>

LockDump(t) ==
  /\ \/ Refused(t) /\ Stage(t, "locking", "leave")
     \/ Count(t) /\ Stage(t, "locking", "dumping")
  /\ UNCHANGED <<path, veh, md, gate, crash, crashes, processes, log>>

EndDump(t) ==
  /\ Finish(t) /\ Stage(t, "dumping", "leave")
  /\ UNCHANGED <<path, veh, md, gate, crash, crashes, processes, log>>

DumpElsewhere(t) ==
  /\ \/ Claim(t) \/ Uncount(t) \/ Clear(t)
     \/ stage[t] = "app" /\ (Enter(t) \/ EnterBlindly(t) \/ Refused(t) \/ Count(t) \/ Finish(t))
  /\ UNCHANGED handlerVars

Leave(t) ==
  /\ at[t] = "out"
  /\ Stage(t, "leave", "search")
  /\ gate' = 0
  /\ crash' = [crash EXCEPT ![t] = 0]
  /\ UNCHANGED <<dumpVars, path, veh, md, crashes, processes, log>>

(* EXCEPTION_CONTINUE_SEARCH: the program handles the exception, the SEH   *)
(* frame of CatchAndWriteMiniDump does, with a dump of its own, or nobody. *)
Handled(t) ==
  /\ Stage(t, "search", "app")
  /\ UNCHANGED <<dumpVars, path, veh, md, gate, crash, crashes, processes, log>>

MiniDumpFilter(t) ==
  /\ Enter(t) /\ Stage(t, "search", "app")
  /\ UNCHANGED <<path, veh, md, gate, crash, crashes, processes, log>>

(* The process ends, wherever its threads are, and the next one starts.    *)
NextProcess ==
  /\ processes < MaxProcesses
  /\ processes' = processes + 1
  /\ current' = NoDumper /\ recursion' = 0
  /\ at' = [t \in Dumper |-> "out"]
  /\ writing' = [t \in Dumper |-> 0]
  /\ blind' = [t \in Dumper |-> FALSE]
  /\ path' = "unset" /\ gate' = 0
  /\ veh' = IF veh = "refused" THEN veh ELSE "absent"
  /\ stage' = [t \in Dumper |-> "app"]
  /\ crash' = [t \in Dumper |-> 0]
  /\ UNCHANGED <<ownWriter, md, crashes, log>>

CrashNext ==
  \/ DllMain \/ Detach \/ NextProcess
  \/ \E t \in Dumper :
       \/ Raise(t) \/ Admit(t) \/ RotateCrashLogIfNeeded(t)
       \/ LogHead(t) \/ LogTrace(t) \/ LogEnd(t)
       \/ BeginDump(t) \/ LockDump(t) \/ EndDump(t) \/ Leave(t)
       \/ Handled(t) \/ MiniDumpFilter(t) \/ DumpElsewhere(t)

CrashSpec == CrashInit /\ [][CrashNext]_crashVars

-----------------------------------------------------------------------------
(* The handler is occupied by one thread exactly while the gate is closed: *)
(* no exception shuts it for the ones that come later.                     *)
Inside(t) == stage[t] \notin {"app", "gate", "search"}

GateHasOwner ==
  /\ gate = 1 <=> \E t \in Dumper : Inside(t)
  /\ \A s, t \in Dumper : Inside(s) /\ Inside(t) => s = t

(* What the log holds of a record is in one piece, of one file and in      *)
(* order, whatever threads and processes wrote before and after it, and    *)
(* wherever it was cut off.                                                *)
Rank(part) == CASE part = "head" -> 1 [] part = "trace" -> 2 [] OTHER -> 3

RecordsWhole ==
  /\ \A f \in LogFile : \A i, j \in 1 .. Len(log[f]) :
       i < j =>
         \/ log[f][i].crash < log[f][j].crash
         \/ /\ log[f][i].crash = log[f][j].crash
            /\ Rank(log[f][i].part) < Rank(log[f][j].part)
  /\ \A f, g \in LogFile : \A i \in 1 .. Len(log[f]), j \in 1 .. Len(log[g]) :
       log[f][i].crash = log[g][j].crash => f = g

(* What a crash leaves in the log can be read: see the two above.          *)
CrashLogInOrder == GateHasOwner /\ RecordsWhole

=============================================================================
