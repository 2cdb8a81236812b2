------------------------------ MODULE TlsSlots ------------------------------
(***************************************************************************)
(* CThreadLocalBase and CThreadLocalPtr (src/tier0/threadtools.cpp,        *)
(* src/public/tier0/threadtools.h): objects that each own one slot of the  *)
(* system's thread-local storage.  An assignment from another object takes *)
(* a slot of its own and copies the value of the thread that assigns.      *)
(***************************************************************************)
EXTENDS Integers, FiniteSets

CONSTANTS
  TlsThread,  \* threads that use the objects
  TlsObject,  \* the objects
  Index,      \* the slots the system has
  NoIndex,    \* 0xFFFFFFFF
  Pointer     \* what is stored; 0 is NULL

ASSUME TlsAssumption == NoIndex \notin Index /\ 0 \in Pointer

VARIABLES
  taken,    \* the slots the system has given out
  tls,      \* what the system keeps for each thread in each slot
  usable,   \* objects that exist and are not being assigned to
  copying,  \* the object each thread assigns to, the value, and whose it was
  index,    \* m_index
  put,      \* history: what each thread put last into each object
  spurious  \* history: slots given back while nobody had them

tlsVars == <<taken, tls, usable, copying, index, put, spurious>>

TlsInit ==
  /\ taken = {} /\ usable = {} /\ spurious = {}
  /\ copying = [t \in TlsThread |-> {}]
  /\ tls = [t \in TlsThread |-> [i \in Index |-> 0]]
  /\ index = [o \in TlsObject |-> NoIndex]
  /\ put = [t \in TlsThread |-> [o \in TlsObject |-> 0]]

(* TlsAlloc hands out a slot nobody has, in which every thread has NULL,   *)
(* or none: other libraries of the process have slots as well.             *)
TlsAlloc == (Index \ taken) \cup {NoIndex}

(* The storage when thread t has v in a slot just handed out.              *)
Filled(i, t, v) ==
  [s \in TlsThread |-> IF i = NoIndex THEN tls[s]
                       ELSE [tls[s] EXCEPT ![i] = IF s = t THEN v ELSE 0]]

(* TlsGetValue and TlsSetValue.                                            *)
Get(t, o) == IF index[o] = NoIndex THEN 0 ELSE tls[t][index[o]]

(* The slots that are taken when o, unless it has none, gives back its own.*)
TlsFree(o) == taken \ {index[o]}

Spurious(o) == spurious \cup ({index[o]} \ (taken \cup {NoIndex}))

-----------------------------------------------------------------------------
Construct(o) ==
  /\ o \notin usable /\ \A t \in TlsThread : \A c \in copying[t] : c[1] # o
  /\ usable' = usable \cup {o}
  /\ \E i \in TlsAlloc :
       /\ index' = [index EXCEPT ![o] = i]
       /\ taken' = taken \cup ({i} \ {NoIndex})
       /\ \E t \in TlsThread : tls' = Filled(i, t, 0)
  /\ put' = [t \in TlsThread |-> [put[t] EXCEPT ![o] = 0]]
  /\ UNCHANGED <<copying, spurious>>

Destruct(o) ==
  /\ o \in usable
  /\ usable' = usable \ {o}
  /\ taken' = TlsFree(o) /\ spurious' = Spurious(o)
  /\ index' = [index EXCEPT ![o] = NoIndex]
  /\ put' = [t \in TlsThread |-> [put[t] EXCEPT ![o] = 0]]
  /\ UNCHANGED <<tls, copying>>

(* Set, with any pointer or, from a CThreadLocalPtr, with what another     *)
(* object holds; without a slot it does nothing.                           *)
Set(t, o, p) ==
  /\ o \in usable /\ index[o] # NoIndex
  /\ tls' = [tls EXCEPT ![t][index[o]] = p]
  /\ put' = [put EXCEPT ![t][o] = p]
  /\ UNCHANGED <<taken, usable, copying, index, spurious>>

SetFrom(t, o, other) == other \in usable /\ Set(t, o, Get(t, other))

(* operator= and DuplicateFrom: the value is read and the own slot given   *)
(* back, then a new one asked for, which another thread may have taken.    *)
StartAssign(t, o, other) ==
  /\ {o, other} \subseteq usable /\ o # other /\ copying[t] = {}
  /\ taken' = TlsFree(o) /\ spurious' = Spurious(o)
  /\ usable' = usable \ {o}
  /\ copying' = [copying EXCEPT ![t] = {<<o, Get(t, other), other>>}]
  /\ UNCHANGED <<tls, index, put>>

(* Faulty: the other object's slot is shared.                              *)
EndAssignShared(t) ==
  \E c \in copying[t] :
    /\ copying' = [copying EXCEPT ![t] = {}]
    /\ usable' = usable \cup {c[1]}
    /\ index' = [index EXCEPT ![c[1]] = index[c[3]]]
    /\ put' = [s \in TlsThread |-> [put[s] EXCEPT ![c[1]] = put[s][c[3]]]]
    /\ UNCHANGED <<taken, tls, spurious>>

EndAssign(t) ==
  \E c \in copying[t] : \E i \in TlsAlloc :
    /\ copying' = [copying EXCEPT ![t] = {}]
    /\ usable' = usable \cup {c[1]}
    /\ index' = [index EXCEPT ![c[1]] = i]
    /\ taken' = taken \cup ({i} \ {NoIndex})
    /\ tls' = Filled(i, t, c[2])
    /\ put' = [s \in TlsThread |->
         [put[s] EXCEPT ![c[1]] = IF s = t /\ i # NoIndex THEN c[2] ELSE 0]]
    /\ UNCHANGED spurious

TlsNext ==
  \/ \E o \in TlsObject : Construct(o) \/ Destruct(o)
  \/ \E t \in TlsThread, o \in TlsObject :
       \/ \E p \in Pointer : Set(t, o, p)
       \/ \E other \in TlsObject : SetFrom(t, o, other) \/ StartAssign(t, o, other)
  \/ \E t \in TlsThread : EndAssign(t)

TlsSpec == TlsInit /\ [][TlsNext]_tlsVars

-----------------------------------------------------------------------------
(* A slot has one owner, which lives: none is shared, none given back      *)
(* twice, none left over.                                                  *)
SlotsOwned ==
  /\ spurious = {}
  /\ taken = {index[o] : o \in usable} \ {NoIndex}
  /\ \A o, p \in usable : index[o] = index[p] /\ index[o] # NoIndex => o = p

(* Each thread finds in an object what it put there last, whatever it and  *)
(* others did to other objects, and NULL when it put nothing there since   *)
(* the object has its slot.                                                *)
OwnValue == \A o \in usable, t \in TlsThread : Get(t, o) = put[t][o]

(* The objects keep the system's promise: see the two above.               *)
TlsInOrder == SlotsOwned /\ OwnValue

=============================================================================
