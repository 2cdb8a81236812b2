------------------------- MODULE CrashHandler_proofs -------------------------
(***************************************************************************)
(* What a crash leaves in the log can be read, for any number of threads,  *)
(* crashes and processes.                                                  *)
(***************************************************************************)
EXTENDS CrashHandler, TLAPS

Stages ==
  {"app", "gate", "search", "rotate", "head", "trace", "end", "dump", "locking", "dumping", "leave"}
Part == {"head", "trace", "end"}
Entry == [crash : Nat, part : Part]

HandlerTypeOK ==
  /\ path \in {"unset", "resolving", "set"}
  /\ gate \in {0, 1}
  /\ stage \in [Dumper -> Stages]
  /\ crash \in [Dumper -> Nat]
  /\ crashes \in Nat
  /\ log \in [LogFile -> Seq(Entry)]

(* There is no handler before there is a path, so every record goes to the *)
(* primary log.                                                            *)
PathKnown ==
  /\ veh = "installed" => path = "set"
  /\ \A t \in Dumper : stage[t] # "app" => path = "set"
  /\ log["fallback"] = <<>>

(* The parts of its record that the thread in the handler has behind it.   *)
Behind(s) ==
  CASE s \in {"rotate", "head"} -> 0 [] s = "trace" -> 1 [] s = "end" -> 2 [] OTHER -> 3

(* Who is in the handler writes the latest record, and none of it is in    *)
(* the log but what is behind it.                                          *)
WritesLatest ==
  \A t \in Dumper : Inside(t) =>
    /\ crash[t] = crashes
    /\ \A i \in 1 .. Len(log["primary"]) :
         log["primary"][i].crash = crashes => Rank(log["primary"][i].part) <= Behind(stage[t])

Sorted(s) ==
  \A i, j \in 1 .. Len(s) :
    i < j => \/ s[i].crash < s[j].crash
             \/ s[i].crash = s[j].crash /\ Rank(s[i].part) < Rank(s[j].part)

LogShape ==
  /\ \A i \in 1 .. Len(log["primary"]) : log["primary"][i].crash <= crashes
  /\ Sorted(log["primary"])

HInv == HandlerTypeOK /\ PathKnown /\ GateHasOwner /\ WritesLatest /\ LogShape

-----------------------------------------------------------------------------
LEMMA HInit == CrashInit => HInv
  BY DEF CrashInit, HInv, HandlerTypeOK, PathKnown, GateHasOwner, WritesLatest, LogShape, Sorted,
         Inside, Stages, Entry, Part, LogFile

LEMMA HImplies == HInv => CrashLogInOrder
  BY DEF HInv, HandlerTypeOK, PathKnown, LogShape, Sorted, CrashLogInOrder, RecordsWhole, LogFile

(* A record grows at its end, by the part that is due.                     *)
LEMMA Grows ==
  ASSUME NEW s \in Seq(Entry), NEW e \in Entry, Sorted(s),
         \A i \in 1 .. Len(s) : s[i].crash <= e.crash,
         \A i \in 1 .. Len(s) : s[i].crash = e.crash => Rank(s[i].part) < Rank(e.part)
  PROVE  /\ Append(s, e) \in Seq(Entry) /\ Sorted(Append(s, e))
         /\ \A i \in 1 .. Len(Append(s, e)) :
              /\ Append(s, e)[i].crash <= e.crash
              /\ Append(s, e)[i].crash = e.crash => Rank(Append(s, e)[i].part) <= Rank(e.part)
<1>1. /\ Len(Append(s, e)) = Len(s) + 1 /\ Append(s, e)[Len(s) + 1] = e
      /\ \A i \in 1 .. Len(s) : Append(s, e)[i] = s[i]
  OBVIOUS
<1>2. \A i \in 1 .. Len(s) : s[i].crash \in Nat /\ s[i].part \in Part
  <2>1. \A i \in 1 .. Len(s) : s[i] \in Entry
    OBVIOUS
  <2>. QED
    BY <2>1 DEF Entry
<1>3. e.crash \in Nat /\ e.part \in Part /\ \A p \in Part : Rank(p) \in Nat
  BY DEF Entry, Part, Rank
<1>4. \A i \in 1 .. Len(s) : /\ s[i].crash <= e.crash
                             /\ s[i].crash = e.crash => Rank(s[i].part) < Rank(e.part)
  OBVIOUS
<1>. DEFINE a == Append(s, e)
<1>5. Len(a) = Len(s) + 1 /\ a \in Seq(Entry) /\ Len(s) \in Nat
  BY <1>1
<1>. HIDE DEF a
<1>6. a[Len(s) + 1] = e /\ \A i \in 1 .. Len(s) : a[i] = s[i]
  BY <1>1 DEF a
<1>7. ASSUME NEW i \in 1 .. Len(a)
      PROVE  /\ a[i].crash <= e.crash
             /\ a[i].crash = e.crash => Rank(a[i].part) <= Rank(e.part)
  <2>1. CASE i = Len(s) + 1
    BY <1>3, <1>6, <2>1
  <2>2. CASE i \in 1 .. Len(s)
    BY <1>2, <1>3, <1>4, <1>6, <2>2
  <2>. QED
    BY <1>5, <2>1, <2>2
<1>8. ASSUME NEW i \in 1 .. Len(a), NEW j \in 1 .. Len(a), i < j
      PROVE  \/ a[i].crash < a[j].crash
             \/ a[i].crash = a[j].crash /\ Rank(a[i].part) < Rank(a[j].part)
  <2>1. i \in 1 .. Len(s) /\ a[i] = s[i]
    BY <1>5, <1>6, <1>8
  <2>2. CASE j = Len(s) + 1
    BY <1>2, <1>3, <1>4, <1>6, <2>1, <2>2
  <2>3. CASE j \in 1 .. Len(s)
    BY <1>6, <1>8, <2>1, <2>3 DEF Sorted
  <2>. QED
    BY <1>5, <2>2, <2>3
<1>9. Sorted(a)
  BY <1>8 DEF Sorted
<1>. QED
  BY <1>5, <1>7, <1>9 DEF a

(* A step that writes nothing, of a thread that stays where it was with    *)
(* regard to the gate.                                                     *)
LEMMA Quiet ==
  ASSUME HInv, NEW t \in Dumper, NEW n \in Stages, path = "set",
         stage' = [stage EXCEPT ![t] = n],
         UNCHANGED <<path, veh, gate, crash, crashes, log>>,
         Inside(t)' <=> Inside(t), Inside(t) => Behind(stage[t]) <= Behind(n)
  PROVE  HInv'
<1>. USE DEF HInv, HandlerTypeOK
<1>1. \A s \in Dumper : /\ Inside(s)' <=> Inside(s)
                        /\ stage'[s] = IF s = t THEN n ELSE stage[s]
  BY DEF Inside
<1>2. HandlerTypeOK' /\ PathKnown' /\ LogShape'
  BY DEF PathKnown, LogShape, Sorted
<1>3. GateHasOwner'
  BY <1>1 DEF GateHasOwner
<1>4. WritesLatest'
  <2>. SUFFICES ASSUME NEW s \in Dumper, Inside(s)
                PROVE  /\ crash[s] = crashes
                       /\ \A i \in 1 .. Len(log["primary"]) :
                            log["primary"][i].crash = crashes =>
                              Rank(log["primary"][i].part) <= Behind(stage'[s])
    BY <1>1 DEF WritesLatest
  <2>1. \A u, v : Behind(u) \in Nat /\ Rank(v) \in Nat
    BY DEF Behind, Rank
  <2>. QED
    BY <1>1, <2>1 DEF WritesLatest
<1>. QED
  BY <1>2, <1>3, <1>4

(* A step that writes a part, or not: the thread in the handler goes on to *)
(* a stage that has that part behind it.                                   *)
LEMMA Writes ==
  ASSUME HInv, NEW t \in Dumper, NEW n \in Stages, NEW part \in Part,
         stage' = [stage EXCEPT ![t] = n], n \notin {"app", "gate", "search"},
         UNCHANGED <<path, veh, gate, crash, crashes>>,
         Inside(t), Behind(stage[t]) + 1 = Rank(part), Behind(n) >= Rank(part),
         WriteLog(t, part)
  PROVE  HInv'
<1>. USE DEF HInv, HandlerTypeOK
<1>. DEFINE s == log["primary"]
            e == [crash |-> crash[t], part |-> part]
<1>1. crash[t] = crashes /\ e \in Entry /\ s \in Seq(Entry)
  BY DEF WritesLatest, Entry, LogFile
<1>2. \A v : Behind(v) \in Nat /\ Rank(v) \in Nat
  BY DEF Behind, Rank
<1>3. \A i \in 1 .. Len(s) : s[i].crash = e.crash => Rank(s[i].part) < Rank(e.part)
  <2>1. \A i \in 1 .. Len(s) : s[i].crash = crashes => Rank(s[i].part) <= Behind(stage[t])
    BY DEF WritesLatest
  <2>2. e.crash = crashes /\ e.part = part
    BY <1>1
  <2>3. Behind(stage[t]) < Rank(part) /\ Behind(stage[t]) \in Nat /\ Rank(part) \in Nat
    BY <1>2
  <2>. HIDE DEF s, e
  <2>. QED
    BY ONLY <1>2, <2>1, <2>2, <2>3
<1>4. /\ Append(s, e) \in Seq(Entry) /\ Sorted(Append(s, e))
      /\ \A i \in 1 .. Len(Append(s, e)) :
           /\ Append(s, e)[i].crash <= crashes
           /\ Append(s, e)[i].crash = crashes => Rank(Append(s, e)[i].part) <= Rank(part)
  <2>1. Sorted(s) /\ \A i \in 1 .. Len(s) : s[i].crash <= e.crash
    BY <1>1 DEF LogShape
  <2>. HIDE DEF s
  <2>. QED
    BY <1>1, <1>3, <2>1, Grows
<1>5. path = "set"
  BY DEF PathKnown, Inside
<1>6. log' = [log EXCEPT !["primary"] = Append(s, e)]
  BY <1>5 DEF WriteLog, GetCrashLogPath
<1>7. log'["primary"] = Append(s, e) /\ log'["fallback"] = log["fallback"]
  BY <1>6 DEF LogFile
<1>8. \A u \in Dumper : /\ Inside(u)' <=> Inside(u)
                        /\ Inside(u) => u = t
  BY DEF Inside, GateHasOwner
<1>9. HandlerTypeOK'
  BY <1>4, <1>6 DEF LogFile
<1>10. PathKnown' /\ GateHasOwner'
  BY <1>5, <1>7, <1>8 DEF PathKnown, GateHasOwner
<1>11. LogShape'
  BY <1>4, <1>7 DEF LogShape
<1>12. WritesLatest'
  <2>. SUFFICES ASSUME NEW i \in 1 .. Len(Append(s, e)), Append(s, e)[i].crash = crashes
                PROVE  Rank(Append(s, e)[i].part) <= Behind(n)
    BY <1>1, <1>7, <1>8 DEF WritesLatest
  <2>1. Rank(Append(s, e)[i].part) <= Rank(part) /\ Rank(part) <= Behind(n)
    BY <1>2, <1>4
  <2>2. Rank(Append(s, e)[i].part) \in Nat /\ Rank(part) \in Nat /\ Behind(n) \in Nat
    BY <1>2
  <2>. QED
    BY ONLY <2>1, <2>2
<1>. QED
  BY <1>9, <1>10, <1>11, <1>12

-----------------------------------------------------------------------------
(* The next process has nobody in its handler, and the log as it is.       *)
LEMMA HNextProcess ==
  ASSUME HInv, NextProcess
  PROVE  HInv'
<1>. USE DEF HInv
<1>1. /\ path' = "unset" /\ gate' = 0 /\ veh' \in {veh, "absent"} /\ veh' # "installed"
      /\ stage' = [t \in Dumper |-> "app"] /\ crash' = [t \in Dumper |-> 0]
      /\ UNCHANGED <<crashes, log>>
  BY DEF NextProcess
<1>2. \A t \in Dumper : stage'[t] = "app" /\ ~Inside(t)'
  BY <1>1 DEF Inside
<1>3. HandlerTypeOK'
  BY <1>1 DEF HandlerTypeOK, Stages
<1>4. PathKnown' /\ GateHasOwner'
  BY <1>1, <1>2 DEF PathKnown, GateHasOwner
<1>5. LogShape' /\ WritesLatest'
  BY <1>1, <1>2 DEF LogShape, Sorted, WritesLatest
<1>. QED
  BY <1>3, <1>4, <1>5

LEMMA HLoading ==
  ASSUME HInv, DllMain \/ Detach
  PROVE  HInv'
<1>. USE DEF HInv
<1>1. UNCHANGED <<gate, stage, crash, crashes, log>>
  BY DEF DllMain, Detach
<1>2. /\ path' \in {path, "resolving", "set"}
      /\ path = "set" => path' = "set"
      /\ veh' = "installed" => path' = "set"
  BY DEF DllMain, Attach, Detach, PathKnown
<1>3. HandlerTypeOK'
  BY <1>1, <1>2 DEF HandlerTypeOK
<1>4. PathKnown'
  BY <1>1, <1>2 DEF PathKnown
<1>5. GateHasOwner' /\ WritesLatest'
  BY <1>1 DEF GateHasOwner, WritesLatest, Inside
<1>6. LogShape'
  BY <1>1 DEF LogShape, Sorted
<1>. QED
  BY <1>3, <1>4, <1>5, <1>6

(* Who finds the gate open closes it and begins a record; nobody else is   *)
(* in the handler.                                                         *)
LEMMA HAdmit ==
  ASSUME HInv, NEW t \in Dumper, Admit(t)
  PROVE  HInv'
<1>1. path = "set" /\ stage[t] = "gate"
  BY DEF HInv, PathKnown, Admit, Stage
<1>2. CASE gate # 0
  BY <1>1, <1>2, Quiet DEF Admit, Stage, Inside, Stages, HInv, HandlerTypeOK
<1>3. CASE gate = 0
  <2>. USE DEF HInv, HandlerTypeOK
  <2>1. /\ stage' = [stage EXCEPT ![t] = "rotate"] /\ gate' = 1 /\ crashes' = crashes + 1
        /\ crash' = [crash EXCEPT ![t] = crashes + 1] /\ UNCHANGED <<path, veh, log>>
    BY <1>3 DEF Admit, Stage
  <2>2. \A s \in Dumper : ~Inside(s) /\ (Inside(s)' <=> s = t)
    BY <1>1, <1>3, <2>1 DEF GateHasOwner, Inside
  <2>3. HandlerTypeOK'
    BY <2>1 DEF Stages
  <2>4. PathKnown' /\ GateHasOwner'
    BY <1>1, <2>1, <2>2 DEF PathKnown, GateHasOwner
  <2>5. \A i \in 1 .. Len(log["primary"]) :
           log["primary"][i].crash \in Nat /\ log["primary"][i].crash <= crashes
    <3>1. \A i \in 1 .. Len(log["primary"]) : log["primary"][i] \in Entry
      BY DEF LogFile
    <3>. QED
      BY <3>1 DEF LogShape, Entry
  <2>6. LogShape'
    BY <2>1, <2>5 DEF LogShape
  <2>7. WritesLatest'
    BY <2>1, <2>2, <2>5 DEF WritesLatest
  <2>. QED
    BY <2>3, <2>4, <2>6, <2>7
<1>. QED
  BY <1>2, <1>3 DEF HInv, HandlerTypeOK

LEMMA HRotate ==
  ASSUME HInv, NEW t \in Dumper, RotateCrashLogIfNeeded(t)
  PROVE  HInv'
<1>1. path = "set" /\ stage[t] = "rotate"
  BY DEF HInv, PathKnown, RotateCrashLogIfNeeded, Stage
<1>2. CASE UNCHANGED log
  <2>1. /\ stage' = [stage EXCEPT ![t] = "head"] /\ "head" \in Stages
        /\ UNCHANGED <<path, veh, gate, crash, crashes>>
        /\ stage \in [Dumper -> Stages]
    BY DEF RotateCrashLogIfNeeded, Stage, Stages, HInv, HandlerTypeOK
  <2>2. Inside(t) /\ Inside(t)' /\ Behind(stage[t]) <= Behind("head")
    BY <1>1, <2>1 DEF Inside, Behind
  <2>. QED
    BY <1>1, <1>2, <2>1, <2>2, Quiet
<1>3. CASE log' = [log EXCEPT !["primary"] = <<>>]
  <2>. USE DEF HInv, HandlerTypeOK
  <2>1. /\ stage' = [stage EXCEPT ![t] = "head"]
        /\ UNCHANGED <<path, veh, gate, crash, crashes>>
    BY DEF RotateCrashLogIfNeeded, Stage
  <2>2. \A s \in Dumper : Inside(s)' <=> Inside(s)
    BY <1>1, <2>1 DEF Inside
  <2>3. /\ log'["primary"] = <<>> /\ log'["fallback"] = log["fallback"]
        /\ log' \in [LogFile -> Seq(Entry)]
    BY <1>3 DEF LogFile
  <2>4. HandlerTypeOK'
    BY <2>1, <2>3 DEF Stages
  <2>5. PathKnown' /\ GateHasOwner'
    BY <1>1, <2>1, <2>2, <2>3 DEF PathKnown, GateHasOwner
  <2>6. LogShape' /\ WritesLatest'
    BY <2>1, <2>2, <2>3 DEF LogShape, Sorted, WritesLatest
  <2>. QED
    BY <2>4, <2>5, <2>6
<1>. QED
  BY <1>1, <1>2, <1>3 DEF RotateCrashLogIfNeeded, GetCrashLogPath

(* The three appends.  Each may fail; the next one comes in any case.      *)
LEMMA HLog ==
  ASSUME HInv, NEW t \in Dumper, LogHead(t) \/ LogTrace(t) \/ LogEnd(t)
  PROVE  HInv'
<1>1. /\ path = "set" /\ stage[t] \in {"head", "trace", "end"}
      /\ UNCHANGED <<path, veh, gate, crash, crashes>>
  BY DEF HInv, PathKnown, LogHead, LogTrace, LogEnd, Stage
<1>2. PICK n \in {"trace", "end", "dump"}, part \in Part :
        /\ stage' = [stage EXCEPT ![t] = n]
        /\ \/ (WriteLog(t, part) /\ <<stage[t], part, n>> \in
                 {<<"head", "head", "trace">>, <<"trace", "trace", "end">>, <<"end", "end", "dump">>})
           \/ (UNCHANGED log /\ <<stage[t], n>> \in
                 {<<"head", "trace">>, <<"head", "dump">>, <<"trace", "end">>, <<"end", "dump">>})
  BY DEF LogHead, LogTrace, LogEnd, Stage, Part
<1>3. /\ n \in Stages /\ n \notin {"app", "gate", "search"} /\ Inside(t)
      /\ stage \in [Dumper -> Stages]
  BY <1>1, <1>2 DEF Inside, Stages, HInv, HandlerTypeOK
<1>4. CASE UNCHANGED log
  <2>1. Behind(stage[t]) <= Behind(n)
    <3>1. \/ (stage[t] = "head" /\ n \in {"trace", "dump"}) \/ (stage[t] = "trace" /\ n = "end")
          \/ (stage[t] = "end" /\ n = "dump")
      BY <1>2
    <3>. QED
      BY <3>1 DEF Behind
  <2>2. Inside(t)' <=> Inside(t)
    BY <1>2, <1>3 DEF Inside
  <2>. QED
    BY <1>1, <1>2, <1>3, <1>4, <2>1, <2>2, Quiet
<1>5. CASE WriteLog(t, part) /\ <<stage[t], part, n>> \in
             {<<"head", "head", "trace">>, <<"trace", "trace", "end">>, <<"end", "end", "dump">>}
  <2>1. Behind(stage[t]) + 1 = Rank(part) /\ Behind(n) >= Rank(part)
    BY <1>5 DEF Behind, Rank
  <2>. QED
    BY <1>1, <1>2, <1>3, <1>5, <2>1, Writes
<1>. QED
  BY <1>2, <1>4, <1>5

LEMMA HLeave ==
  ASSUME HInv, NEW t \in Dumper, Leave(t)
  PROVE  HInv'
<1>. USE DEF HInv, HandlerTypeOK
<1>1. /\ stage[t] = "leave" /\ stage' = [stage EXCEPT ![t] = "search"] /\ gate' = 0
      /\ crash' = [crash EXCEPT ![t] = 0] /\ UNCHANGED <<path, veh, crashes, log>>
  BY DEF Leave, Stage
<1>2. \A s \in Dumper : ~Inside(s)'
  BY <1>1 DEF GateHasOwner, Inside
<1>3. HandlerTypeOK'
  BY <1>1 DEF Stages
<1>4. PathKnown'
  BY <1>1 DEF PathKnown
<1>5. LogShape'
  BY <1>1 DEF LogShape, Sorted
<1>6. GateHasOwner' /\ WritesLatest'
  BY <1>1, <1>2 DEF GateHasOwner, WritesLatest
<1>. QED
  BY <1>3, <1>4, <1>5, <1>6

LEMMA HStep == HInv /\ [CrashNext]_crashVars => HInv'
<1>. SUFFICES ASSUME HInv, [CrashNext]_crashVars PROVE HInv'
  OBVIOUS
<1>. USE DEF Stage
<1>1. CASE UNCHANGED handlerVars
  BY <1>1 DEF HInv, HandlerTypeOK, PathKnown, GateHasOwner, WritesLatest, LogShape, Sorted, Inside,
              handlerVars
<1>2. CASE DllMain \/ Detach
  BY <1>2, HLoading
<1>3. CASE NextProcess
  BY <1>3, HNextProcess
<1>4. ASSUME NEW t \in Dumper, Raise(t) PROVE HInv'
  BY <1>4, Quiet DEF Raise, HInv, PathKnown, HandlerTypeOK, Inside, Stages
<1>5. ASSUME NEW t \in Dumper, BeginDump(t) \/ LockDump(t) \/ EndDump(t) PROVE HInv'
  <2>1. PICK n \in {"locking", "dumping", "leave"} : stage' = [stage EXCEPT ![t] = n]
    BY <1>5 DEF BeginDump, LockDump, EndDump
  <2>2. /\ stage[t] \in {"dump", "locking", "dumping"}
        /\ UNCHANGED <<path, veh, gate, crash, crashes, log>>
    BY <1>5 DEF BeginDump, LockDump, EndDump
  <2>3. n \in Stages /\ path = "set" /\ stage'[t] = n
    BY <2>1, <2>2 DEF HInv, HandlerTypeOK, PathKnown, Stages
  <2>4. /\ Inside(t)' <=> Inside(t)
        /\ Inside(t) => Behind(stage[t]) <= Behind(n)
    BY <2>1, <2>2, <2>3 DEF Inside, Behind
  <2>. QED
    BY <2>1, <2>2, <2>3, <2>4, Quiet
<1>6. ASSUME NEW t \in Dumper, Handled(t) \/ MiniDumpFilter(t) PROVE HInv'
  <2>1. /\ stage[t] = "search" /\ stage' = [stage EXCEPT ![t] = "app"]
        /\ UNCHANGED <<path, veh, gate, crash, crashes, log>>
    BY <1>6 DEF Handled, MiniDumpFilter
  <2>2. path = "set" /\ stage'[t] = "app" /\ "app" \in Stages
    BY <2>1 DEF HInv, HandlerTypeOK, PathKnown, Stages
  <2>3. /\ Inside(t)' <=> Inside(t)
        /\ Inside(t) => Behind(stage[t]) <= Behind("app")
    BY <2>1, <2>2 DEF Inside
  <2>. QED
    BY <2>1, <2>2, <2>3, Quiet
<1>7. ASSUME NEW t \in Dumper, DumpElsewhere(t) PROVE UNCHANGED handlerVars
  BY <1>7 DEF DumpElsewhere
<1>. QED
  BY <1>1, <1>2, <1>3, <1>4, <1>5, <1>6, <1>7, HAdmit, HRotate, HLog, HLeave
     DEF CrashNext, crashVars

(* The gate is shut by exactly the thread in the handler, and what the log *)
(* holds of a record is in one piece and in order: see CrashLogInOrder.    *)
THEOREM CrashLogAlwaysInOrder == CrashSpec => []CrashLogInOrder
<1>1. CrashSpec => []HInv
  BY HInit, HStep, PTL DEF CrashSpec
<1>. QED
  BY <1>1, HImplies, PTL

-----------------------------------------------------------------------------
(* The lock of the dumps, where the trampoline leaves it alone.            *)

LockTypeOK ==
  /\ at \in [Dumper -> {"out", "claim", "count", "uncount", "clear"}]
  /\ writing \in [Dumper -> Nat]
  /\ blind \in [Dumper -> BOOLEAN]
  /\ recursion \in Int
  /\ current \in Dumper \cup {NoDumper}

(* What the level counts for the thread that holds the lock.               *)
Held(t) == writing[t] + (IF at[t] = "uncount" THEN 1 ELSE 0)

(* Whoever writes, or is about to take or to free the lock once more, is   *)
(* the one it names; the level counts its dumps; between two of its calls  *)
(* it has a dump to end.                                                   *)
LockKept ==
  /\ \A t \in Dumper : ~blind[t]
  /\ \A t \in Dumper : writing[t] > 0 \/ at[t] \in {"count", "uncount", "clear"} => current = t
  /\ \A t \in Dumper : at[t] = "claim" => current # t
  /\ current = NoDumper => recursion = 0
  /\ \A t \in Dumper : current = t =>
       /\ recursion = Held(t)
       /\ at[t] = "clear" => writing[t] = 0
       /\ at[t] = "out" => writing[t] > 0

LInv == ownWriter => LockTypeOK /\ LockKept

(* A free lock, as in the first process so in each.                        *)
LEMMA LFree ==
  ASSUME NEW f, f = [t \in Dumper |-> FALSE]
  PROVE  f \in [Dumper -> BOOLEAN] /\ \A t \in Dumper : ~f[t]
  OBVIOUS

LEMMA LInit == DumpInit => LInv
<1>. SUFFICES ASSUME DumpInit PROVE LockTypeOK /\ LockKept
  BY DEF LInv
<1>1. blind \in [Dumper -> BOOLEAN] /\ \A t \in Dumper : ~blind[t]
  BY LFree DEF DumpInit
<1>2. LockTypeOK
  BY <1>1 DEF DumpInit, LockTypeOK
<1>. QED
  BY <1>1, <1>2, DumperAssumption DEF DumpInit, LockKept

LEMMA LImplies == LInv => DumpLockInOrder
<1>. SUFFICES ASSUME LInv, ownWriter PROVE DumpLockInOrder
  BY DEF DumpLockInOrder, OneDumper, DumpLockComesFree
<1>1. OneDumper
  BY DEF LInv, LockKept, OneDumper
<1>2. DumpLockComesFree
  BY DEF LInv, LockTypeOK, LockKept, DumpLockComesFree
<1>. QED
  BY <1>1, <1>2 DEF DumpLockInOrder

LEMMA LStep ==
  ASSUME LInv, [DumpNext]_dumpVars
  PROVE  LInv'
<1>1. CASE UNCHANGED dumpVars
  BY <1>1 DEF LInv, LockTypeOK, LockKept, Held, dumpVars
<1>2. CASE ~ownWriter /\ DumpNext
  BY <1>2 DEF LInv, DumpNext, Enter, EnterBlindly, Claim, Refused, Count, Finish, Uncount, Clear
<1>3. CASE ownWriter /\ DumpNext
  <2>. LockTypeOK /\ LockKept
    BY <1>3 DEF LInv
  <2>. USE DumperAssumption DEF LockTypeOK, Step
  <2>. SUFFICES LockTypeOK' /\ LockKept'
    BY DEF LInv
  <2>1. ASSUME NEW t \in Dumper, Enter(t) PROVE LockTypeOK' /\ LockKept'
    BY <2>1 DEF Enter, LockKept, Held
  <2>2. ASSUME NEW t \in Dumper, EnterBlindly(t) PROVE FALSE
    BY <1>3, <2>2 DEF EnterBlindly
  <2>3. ASSUME NEW t \in Dumper, Claim(t) PROVE LockTypeOK' /\ LockKept'
    BY <2>3 DEF Claim, LockKept, Held
  <2>4. ASSUME NEW t \in Dumper, Refused(t) PROVE LockTypeOK' /\ LockKept'
    BY <2>4 DEF Refused, LockKept, Held
  <2>5. ASSUME NEW t \in Dumper, Count(t) PROVE LockTypeOK' /\ LockKept'
    BY <2>5 DEF Count, LockKept, Held
  <2>6. ASSUME NEW t \in Dumper, Finish(t) PROVE LockTypeOK' /\ LockKept'
    BY <2>6 DEF Finish, LockKept, Held
  <2>7. ASSUME NEW t \in Dumper, Uncount(t) PROVE LockTypeOK' /\ LockKept'
    BY <2>7 DEF Uncount, LockKept, Held
  <2>8. ASSUME NEW t \in Dumper, Clear(t) PROVE LockTypeOK' /\ LockKept'
    BY <2>8 DEF Clear, LockKept, Held
  <2>. QED
    BY <1>3, <2>1, <2>2, <2>3, <2>4, <2>5, <2>6, <2>7, <2>8 DEF DumpNext
<1>. QED
  BY <1>1, <1>2, <1>3

(* The handler uses the lock as every other writer does; a process that    *)
(* dies leaves the next one a free lock.                                   *)
LEMMA LCrashStep == LInv /\ [CrashNext]_crashVars => LInv'
<1>. SUFFICES ASSUME LInv, [CrashNext]_crashVars PROVE LInv'
  OBVIOUS
<1>1. CASE NextProcess
  <2>1. blind' \in [Dumper -> BOOLEAN] /\ \A t \in Dumper : ~blind'[t]
    BY <1>1, LFree DEF NextProcess
  <2>2. LockTypeOK'
    BY <1>1, <2>1 DEF NextProcess, LockTypeOK
  <2>3. LockKept'
    BY <1>1, <2>1, DumperAssumption DEF NextProcess, LockKept
  <2>. QED
    BY <2>2, <2>3 DEF LInv
<1>2. CASE UNCHANGED dumpVars
  BY <1>2, LStep
<1>3. CASE DllMain \/ Detach
  BY <1>2, <1>3 DEF DllMain, Detach
<1>4. ASSUME NEW t \in Dumper,
             \/ Raise(t) \/ Admit(t) \/ RotateCrashLogIfNeeded(t) \/ LogHead(t)
             \/ LogTrace(t) \/ LogEnd(t) \/ Leave(t) \/ Handled(t)
      PROVE  UNCHANGED dumpVars
  BY <1>4 DEF Raise, Admit, RotateCrashLogIfNeeded, LogHead, LogTrace, LogEnd, Leave, Handled
<1>5. ASSUME NEW t \in Dumper,
             BeginDump(t) \/ LockDump(t) \/ EndDump(t) \/ MiniDumpFilter(t) \/ DumpElsewhere(t)
      PROVE  [DumpNext]_dumpVars
  BY <1>5 DEF BeginDump, LockDump, EndDump, MiniDumpFilter, DumpElsewhere, DumpNext
<1>. QED
  BY <1>1, <1>2, <1>3, <1>4, <1>5, LStep DEF CrashNext, crashVars

(* One thread writes dumps at a time, and the lock comes free: see         *)
(* DumpLockInOrder.                                                        *)
THEOREM DumpLockAlwaysInOrder == CrashSpec => []DumpLockInOrder
<1>1. CrashInit => LInv
  BY LInit DEF CrashInit
<1>2. CrashSpec => []LInv
  BY <1>1, LCrashStep, PTL DEF CrashSpec
<1>. QED
  BY <1>2, LImplies, PTL

=============================================================================
