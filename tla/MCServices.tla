------------------------------ MODULE MCServices ------------------------------
(***************************************************************************)
(* The services of tier0 that share no state with the allocator or with    *)
(* one another, for one run of TLC.  A behaviour is about one of them; the *)
(* others stay in their initial states, which nothing the first one does   *)
(* depends on.                                                             *)
(***************************************************************************)
EXTENDS VProf, ThreadLifecycle, FileSystem, FindHandles, TextFile, CrashHandler,
        ScratchStack, SpewGroups, TlsSlots, Validator

VARIABLE service  \* the one this behaviour is about

Budget == [n \in ScopeName |-> IF n = "Update" THEN "TIME" ELSE "DRAW"]

CutNames == [n \in GroupName |-> IF n = 4 THEN 3 ELSE n]

Service ==
  {"prof", "thread", "fs", "find", "text", "crash", "scratch", "spew", "tls", "validator"}

(* One initial state of each service is enough for those that stay there.  *)
(* The crash handler is checked where the trampoline leaves the lock of    *)
(* the dumps alone, and the lock by itself where it does not.              *)
AtRest(s) == service # s

Init ==
  /\ service \in Service
  /\ ProfInit /\ (AtRest("prof") => regime = "plain")
  /\ ThreadInit
  /\ FsInit
  /\ AtRest("fs") => platform = "linux" /\ disk = [p \in Place |-> Absent]
  /\ FindInit
  /\ TextInit /\ (AtRest("text") => text = <<>>)
  /\ CrashInit
  /\ IF ownWriter THEN veh = "absent" ELSE veh = "refused" /\ ~md
  /\ AtRest("crash") => ownWriter /\ ~md
  /\ ScratchInit
  /\ SpewInit
  /\ TlsInit
  /\ ValidatorInit

Others(s) ==
  /\ service = s /\ UNCHANGED service
  /\ s # "prof" => UNCHANGED profVars
  /\ s # "thread" => UNCHANGED threadVars
  /\ s # "fs" => UNCHANGED fsVars
  /\ s # "find" => UNCHANGED findVars
  /\ s # "text" => UNCHANGED textVars
  /\ s # "crash" => UNCHANGED crashVars
  /\ s # "scratch" => UNCHANGED scratchVars
  /\ s # "spew" => UNCHANGED spewVars
  /\ s # "tls" => UNCHANGED tlsVars
  /\ s # "validator" => UNCHANGED validatorVars

Next ==
  \/ Others("prof") /\ ProfNext
  \/ Others("thread") /\ ThreadNext
  \/ Others("fs") /\ FsNext
  \/ Others("find") /\ SearchesNext
  \/ Others("text") /\ TextNext
  \/ Others("crash") /\ CrashNext
  \/ Others("scratch") /\ ScratchNext
  \/ Others("spew") /\ SpewNext
  \/ Others("tls") /\ TlsNext
  \/ Others("validator") /\ ValidatorNext

vars == <<service, profVars, threadVars, fsVars, findVars, textVars, crashVars,
          scratchVars, spewVars, tlsVars, validatorVars>>

Spec == Init /\ [][Next]_vars

(* What the client holds, a search or a slot of the thread-local storage,  *)
(* stays its own and what it was, until the client gives it back.          *)
HandlesStay == FindHandlesStay /\ TlsInOrder

(* Validators and the objects pushed to them are interchangeable, and so   *)
(* are the threads that crash.                                             *)
Symmetric ==
  Permutations(Object) \cup Permutations(ValidatorName) \cup Permutations(Dumper)

=============================================================================
