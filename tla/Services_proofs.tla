--------------------------- MODULE Services_proofs ---------------------------
(***************************************************************************)
(* The services of tier0 that keep something for their callers, for any    *)
(* number of callers and of what they hold: thread-local slots and         *)
(* directory searches stay their owners', pieces of the scratch memory are *)
(* apart from one another, groups of output are found by their names, the  *)
(* profiler's accounts agree with where its cursor is, a validator's list  *)
(* is a chain of its own records, and what is read of a file line by line  *)
(* or token by token is that file.                                         *)
(***************************************************************************)
EXTENDS MCServices, Links_proofs, TLAPS

-----------------------------------------------------------------------------
TlsTypeOK ==
  /\ taken \subseteq Index
  /\ usable \subseteq TlsObject
  /\ index \in [TlsObject -> Index \cup {NoIndex}]
  /\ tls \in [TlsThread -> [Index -> Pointer]]
  /\ put \in [TlsThread -> [TlsObject -> Pointer]]
  /\ copying = [t \in TlsThread |-> copying[t]]
  /\ \A t \in TlsThread : \A c \in copying[t] : c[1] \in TlsObject /\ c[2] \in Pointer

(* An object that is being assigned to is out of use, and one thread does  *)
(* it: its old slot, which may be another's by now, is nobody's concern.   *)
OneAssigns ==
  /\ \A t \in TlsThread : \A c \in copying[t] : c[1] \notin usable
  /\ \A s, t \in TlsThread : \A c \in copying[s], d \in copying[t] :
       c[1] = d[1] => s = t /\ c = d

TInv == TlsTypeOK /\ OneAssigns /\ TlsInOrder

-----------------------------------------------------------------------------
(* The storage once a slot has been handed out.                            *)
LEMMA FilledIs ==
  ASSUME TlsTypeOK, NEW i \in Index \cup {NoIndex}, NEW t \in TlsThread, NEW v \in Pointer
  PROVE  /\ Filled(i, t, v) \in [TlsThread -> [Index -> Pointer]]
         /\ \A s \in TlsThread, j \in Index :
              Filled(i, t, v)[s][j] =
                IF j = i THEN (IF s = t THEN v ELSE 0) ELSE tls[s][j]
  BY TlsAssumption DEF TlsTypeOK, Filled

LEMMA TInit == TlsInit => TInv
  BY TlsAssumption DEF TlsInit, TInv, TlsTypeOK, OneAssigns, TlsInOrder, SlotsOwned, OwnValue

(* An object gets a slot nobody has, or none, with what is put there.      *)
LEMMA Given ==
  ASSUME TInv, NEW o \in TlsObject, o \notin usable, NEW i \in TlsAlloc,
         NEW t \in TlsThread, NEW v \in Pointer,
         usable' = usable \cup {o},
         index' = [index EXCEPT ![o] = i],
         taken' = taken \cup ({i} \ {NoIndex}),
         tls' = Filled(i, t, v),
         put' = [s \in TlsThread |-> [put[s] EXCEPT ![o] = IF s = t /\ i # NoIndex THEN v ELSE 0]],
         UNCHANGED spurious
  PROVE  TlsInOrder'
<1>0. TlsTypeOK /\ i \in Index \cup {NoIndex} /\ i \notin taken
  BY TlsAssumption DEF TInv, TlsTypeOK, TlsAlloc
<1>1. /\ i \in Index \cup {NoIndex} /\ i \notin taken
      /\ \A s \in TlsThread, j \in Index :
           tls'[s][j] = IF j = i THEN (IF s = t THEN v ELSE 0) ELSE tls[s][j]
  BY <1>0, FilledIs
<1>. USE TlsAssumption DEF TInv, TlsTypeOK
<1>2. \A p \in usable : p # o /\ index'[p] = index[p] /\ index[p] \in taken \cup {NoIndex}
  BY DEF TlsInOrder, SlotsOwned
<1>3. index'[o] = i
  OBVIOUS
<1>4. SlotsOwned'
  BY <1>1, <1>2, <1>3 DEF TlsInOrder, SlotsOwned
<1>5. OwnValue'
  <2>1. ASSUME NEW p \in usable, NEW s \in TlsThread PROVE Get(s, p)' = put'[s][p]
    BY <1>1, <1>2 DEF Get, TlsInOrder, OwnValue
  <2>2. ASSUME NEW s \in TlsThread PROVE Get(s, o)' = put'[s][o]
    BY <1>1, <1>3 DEF Get
  <2>. QED
    BY <2>1, <2>2 DEF OwnValue
<1>. QED
  BY <1>4, <1>5 DEF TlsInOrder

(* An object out of use gives its slot back, and only its own.             *)
LEMMA GivenBack ==
  ASSUME TInv, NEW o \in usable,
         usable' = usable \ {o}, taken' = TlsFree(o), spurious' = Spurious(o),
         \A p \in usable \ {o} : index'[p] = index[p] /\ \A t \in TlsThread : put'[t][p] = put[t][p],
         UNCHANGED tls
  PROVE  TlsInOrder'
<1>. USE TlsAssumption DEF TInv, TlsTypeOK, TlsInOrder
<1>1. index[o] \in taken \cup {NoIndex}
  BY DEF SlotsOwned
<1>2. SlotsOwned'
  BY <1>1 DEF SlotsOwned, TlsFree, Spurious
<1>3. OwnValue'
  BY DEF OwnValue, Get
<1>. QED
  BY <1>2, <1>3

LEMMA TConstruct ==
  ASSUME TInv, NEW o \in TlsObject, Construct(o)
  PROVE  TInv'
<1>1. PICK i \in TlsAlloc, t \in TlsThread :
        /\ index' = [index EXCEPT ![o] = i]
        /\ taken' = taken \cup ({i} \ {NoIndex})
        /\ tls' = Filled(i, t, 0)
  BY DEF Construct
<1>2. /\ o \notin usable /\ usable' = usable \cup {o} /\ UNCHANGED <<copying, spurious>>
      /\ put' = [s \in TlsThread |-> [put[s] EXCEPT ![o] = 0]]
      /\ \A s \in TlsThread : \A c \in copying[s] : c[1] # o
  BY DEF Construct
<1>3. i \in Index \cup {NoIndex} /\ 0 \in Pointer
  BY TlsAssumption DEF TlsAlloc, TInv, TlsTypeOK
<1>4. TlsTypeOK'
  <2>1. tls' \in [TlsThread -> [Index -> Pointer]]
    BY <1>1, <1>3, FilledIs DEF TInv, TlsTypeOK
  <2>2. put' \in [TlsThread -> [TlsObject -> Pointer]]
    BY <1>2, <1>3 DEF TInv, TlsTypeOK
  <2>3. /\ taken' \subseteq Index /\ usable' \subseteq TlsObject
        /\ index' \in [TlsObject -> Index \cup {NoIndex}]
    BY <1>1, <1>2, <1>3 DEF TInv, TlsTypeOK
  <2>. QED
    BY <1>2, <2>1, <2>2, <2>3 DEF TInv, TlsTypeOK
<1>5. OneAssigns'
  BY <1>2 DEF TInv, OneAssigns
<1>6. TlsInOrder'
  <2>1. put' = [s \in TlsThread |-> [put[s] EXCEPT ![o] = IF s = t /\ i # NoIndex THEN 0 ELSE 0]]
    BY <1>2
  <2>2. UNCHANGED spurious /\ o \notin usable /\ usable' = usable \cup {o}
    BY <1>2
  <2>. QED
    BY <1>1, <1>3, <2>1, <2>2, Given
<1>. QED
  BY <1>4, <1>5, <1>6 DEF TInv

LEMMA TDestruct ==
  ASSUME TInv, NEW o \in TlsObject, Destruct(o)
  PROVE  TInv'
<1>. USE TlsAssumption DEF TlsTypeOK
<1>1. TlsTypeOK' /\ OneAssigns'
  BY DEF TInv, Destruct, TlsFree, OneAssigns
<1>2. TlsInOrder'
  BY GivenBack DEF TInv, Destruct
<1>. QED
  BY <1>1, <1>2 DEF TInv

LEMMA TSet ==
  ASSUME TInv, NEW t \in TlsThread, NEW o \in TlsObject, NEW p \in Pointer, Set(t, o, p)
  PROVE  TInv'
<1>. USE TlsAssumption DEF TlsTypeOK, Set
<1>1. TlsTypeOK' /\ OneAssigns'
  BY DEF TInv, OneAssigns
<1>2. SlotsOwned'
  BY DEF TInv, TlsInOrder, SlotsOwned
<1>3. OwnValue'
  <2>. SUFFICES ASSUME NEW q \in usable, NEW s \in TlsThread PROVE Get(s, q)' = put'[s][q]
    BY DEF OwnValue
  <2>1. Get(s, q) = put[s][q] /\ (q # o /\ index[q] # NoIndex => index[q] # index[o])
    BY DEF TInv, TlsInOrder, OwnValue, SlotsOwned
  <2>. QED
    BY <2>1 DEF Get, TInv
<1>. QED
  BY <1>1, <1>2, <1>3 DEF TInv, TlsInOrder

LEMMA TStartAssign ==
  ASSUME TInv, NEW t \in TlsThread, NEW o \in TlsObject, NEW other \in TlsObject,
         StartAssign(t, o, other)
  PROVE  TInv'
<1>. DEFINE new == <<o, Get(t, other), other>>
<1>1. /\ o \in usable /\ usable' = usable \ {o}
      /\ taken' = TlsFree(o) /\ spurious' = Spurious(o) /\ UNCHANGED <<tls, index, put>>
      /\ copying' = [copying EXCEPT ![t] = {new}]
  BY DEF StartAssign
<1>2. new[1] = o /\ new[2] \in Pointer
  BY TlsAssumption DEF Get, TInv, TlsTypeOK
<1>. HIDE DEF new
<1>3. /\ copying' = [s \in TlsThread |-> copying'[s]]
      /\ \A s \in TlsThread : copying'[s] = IF s = t THEN {new} ELSE copying[s]
  BY <1>1 DEF TInv, TlsTypeOK
<1>4. TlsTypeOK'
  BY <1>1, <1>2, <1>3 DEF TInv, TlsTypeOK, TlsFree
<1>5. \A s \in TlsThread : \A c \in copying[s] : c[1] # o /\ c[1] \notin usable'
  BY <1>1 DEF TInv, OneAssigns
<1>6. OneAssigns'
  BY <1>1, <1>2, <1>3, <1>5 DEF TInv, OneAssigns
<1>7. TlsInOrder'
  BY <1>1, GivenBack
<1>. QED
  BY <1>4, <1>6, <1>7 DEF TInv

LEMMA TEndAssign ==
  ASSUME TInv, NEW t \in TlsThread, EndAssign(t)
  PROVE  TInv'
<1>. USE TlsAssumption DEF TlsTypeOK
<1>1. PICK c \in copying[t], i \in TlsAlloc :
        /\ copying' = [copying EXCEPT ![t] = {}]
        /\ usable' = usable \cup {c[1]}
        /\ index' = [index EXCEPT ![c[1]] = i]
        /\ taken' = taken \cup ({i} \ {NoIndex})
        /\ tls' = Filled(i, t, c[2])
        /\ put' = [s \in TlsThread |->
             [put[s] EXCEPT ![c[1]] = IF s = t /\ i # NoIndex THEN c[2] ELSE 0]]
        /\ UNCHANGED spurious
  BY DEF EndAssign
<1>2. /\ i \in Index \cup {NoIndex} /\ c[1] \in TlsObject /\ c[2] \in Pointer
      /\ c[1] \notin usable
  BY DEF TlsAlloc, TInv, OneAssigns
<1>3. /\ copying' = [s \in TlsThread |-> copying'[s]]
      /\ \A s \in TlsThread : copying'[s] = IF s = t THEN {} ELSE copying[s]
  BY <1>1 DEF TInv
<1>4. TlsTypeOK'
  <2>1. tls' \in [TlsThread -> [Index -> Pointer]]
    BY <1>1, <1>2, FilledIs DEF TInv
  <2>2. \A s \in TlsThread : \A d \in copying'[s] : d[1] \in TlsObject /\ d[2] \in Pointer
    BY <1>3 DEF TInv
  <2>3. put' \in [TlsThread -> [TlsObject -> Pointer]]
    BY <1>1, <1>2 DEF TInv
  <2>4. /\ taken' \subseteq Index /\ usable' \subseteq TlsObject
        /\ index' \in [TlsObject -> Index \cup {NoIndex}]
    BY <1>1, <1>2 DEF TInv
  <2>. QED
    BY <1>3, <2>1, <2>2, <2>3, <2>4
<1>5. OneAssigns'
  <2>1. \A s \in TlsThread : \A d \in copying'[s] : d \in copying[s] /\ d[1] # c[1]
    BY <1>3 DEF TInv, OneAssigns
  <2>. QED
    BY <1>1, <2>1 DEF TInv, OneAssigns
<1>6. TlsInOrder'
  BY <1>1, <1>2, Given
<1>. QED
  BY <1>4, <1>5, <1>6 DEF TInv

LEMMA TStep == TInv /\ [TlsNext]_tlsVars => TInv'
<1>. SUFFICES ASSUME TInv, [TlsNext]_tlsVars PROVE TInv'
  OBVIOUS
<1>1. CASE UNCHANGED tlsVars
  BY <1>1 DEF TInv, TlsTypeOK, OneAssigns, TlsInOrder, SlotsOwned, OwnValue, Get, tlsVars
<1>2. ASSUME NEW t \in TlsThread, NEW o \in TlsObject, NEW other \in TlsObject,
             SetFrom(t, o, other)
      PROVE  TInv'
  <2>1. Get(t, other) \in Pointer
    BY TlsAssumption DEF Get, TInv, TlsTypeOK
  <2>. QED
    BY <1>2, <2>1, TSet DEF SetFrom
<1>. QED
  BY <1>1, <1>2, TConstruct, TDestruct, TSet, TStartAssign, TEndAssign DEF TlsNext

(* A slot has one living owner, and each thread finds in an object what it *)
(* put there last: see TlsInOrder.                                         *)
THEOREM TlsAlwaysInOrder == TlsSpec => []TlsInOrder
<1>1. TlsSpec => []TInv
  BY TInit, TStep, PTL DEF TlsSpec
<1>2. TInv => TlsInOrder
  BY DEF TInv
<1>. QED
  BY <1>1, <1>2, PTL

-----------------------------------------------------------------------------
(***************************************************************************)
(* Directory searches: each slot the client was given holds its search,    *)
(* which is why none of them is free.                                      *)
(***************************************************************************)
FindInv ==
  /\ finds \in Seq(0 .. MaxFinds)
  /\ held \subseteq (Nat \ {0}) \X (1 .. MaxFinds)
  /\ FindHandlesStay

LEMMA FInit == FindInit => FindInv
BY FindsAssumption DEF FindInit, FindInv, FindHandlesStay

LEMMA FStep == FindInv /\ [SearchesNext]_findVars => FindInv'
<1>. SUFFICES ASSUME FindInv, [SearchesNext]_findVars PROVE FindInv'
  OBVIOUS
<1>0. /\ finds \in Seq(0 .. MaxFinds) /\ held \subseteq (Nat \ {0}) \X (1 .. MaxFinds)
      /\ MaxFinds \in Nat
      /\ \A s \in held : s[1] \in DOMAIN finds /\ finds[s[1]] = s[2] /\ s[2] # 0
  BY FindsAssumption DEF FindInv, FindHandlesStay
<1>1. CASE FindFirst
  <2>1. PICK f \in 1 .. MaxFinds, i \in 1 .. MaxFinds :
          /\ IF FreeSlots = {}
               THEN i = Len(finds) + 1 /\ finds' = Append(finds, f)
               ELSE i \in FreeSlots /\ finds' = [finds EXCEPT ![i] = f]
          /\ held' = held \cup {<<i, f>>}
    BY <1>1 DEF FindFirst
  <2>2. CASE FreeSlots = {}
    <3>1. /\ i = Len(finds) + 1 /\ finds' = Append(finds, f) /\ held' = held \cup {<<i, f>>}
      BY <2>1, <2>2
    <3>2. /\ finds' \in Seq(0 .. MaxFinds) /\ i \in DOMAIN finds' /\ finds'[i] = f
          /\ \A j \in DOMAIN finds : j \in DOMAIN finds' /\ finds'[j] = finds[j]
      BY <1>0, <3>1
    <3>. QED
      BY <1>0, <3>1, <3>2 DEF FindInv, FindHandlesStay
  <2>3. CASE FreeSlots # {}
    <3>1. /\ i \in DOMAIN finds /\ finds[i] = 0 /\ finds' = [finds EXCEPT ![i] = f]
          /\ held' = held \cup {<<i, f>>}
      BY <2>1, <2>3 DEF FreeSlots
    <3>2. /\ finds' \in Seq(0 .. MaxFinds) /\ DOMAIN finds' = DOMAIN finds /\ finds'[i] = f
          /\ \A j \in DOMAIN finds : j # i => finds'[j] = finds[j]
      BY <1>0, <3>1
    <3>. QED
      BY <1>0, <3>1, <3>2 DEF FindInv, FindHandlesStay
  <2>. QED
    BY <2>2, <2>3
<1>2. CASE FindClose
  <2>1. PICK s \in held : finds' = [finds EXCEPT ![s[1]] = 0] /\ held' = held \ {s}
    BY <1>2 DEF FindClose
  <2>2. /\ finds' \in Seq(0 .. MaxFinds) /\ DOMAIN finds' = DOMAIN finds
        /\ \A j \in DOMAIN finds : j # s[1] => finds'[j] = finds[j]
    BY <1>0, <2>1
  <2>3. \A u \in held : u[1] = s[1] => u = s
    <3>1. \A u \in held : u = <<u[1], u[2]>>
      BY <1>0
    <3>. QED
      BY <1>0, <3>1
  <2>. QED
    BY <1>0, <2>1, <2>2, <2>3 DEF FindInv, FindHandlesStay
<1>3. CASE UNCHANGED findVars
  BY <1>3 DEF findVars, FindInv, FindHandlesStay
<1>. QED
  BY <1>1, <1>2, <1>3 DEF SearchesNext

(* A client's search, and what a thread put into a slot of the             *)
(* thread-local storage, stay the client's and the thread's whatever the   *)
(* others open, close, construct or assign: FindFirstEx takes a slot only  *)
(* when nobody has it.                                                     *)
THEOREM HandlesAlwaysStay == Spec => []HandlesStay
<1>1. Init => FindInv /\ TInv
  BY FInit, TInit DEF Init
<1>2. FindInv /\ TInv /\ [Next]_vars => FindInv' /\ TInv'
  <2>1. [Next]_vars => [SearchesNext]_findVars /\ [TlsNext]_tlsVars
    BY DEF Next, Others, vars
  <2>. QED
    BY <2>1, FStep, TStep
<1>3. FindInv /\ TInv => HandlesStay
  BY DEF FindInv, TInv, HandlesStay
<1>. QED
  BY <1>1, <1>2, <1>3, PTL DEF Spec

-----------------------------------------------------------------------------
(***************************************************************************)
(* Scratch memory: the sizes the stack keeps are those of the pieces that  *)
(* are handed out, so that what is taken back is what was handed out last. *)
(***************************************************************************)
Piece == [offset : Nat, size : Nat, block : Nat]

ScratchTyped ==
  /\ depth \in 0 .. ScratchDepth /\ {scratchAllocated, scratchMax, moves} \subseteq Nat
  /\ scratchSizes \in [0 .. ScratchDepth - 1 -> Nat]
  /\ handed \in Seq(Piece)

SizesKept == \A i \in DOMAIN handed : scratchSizes[i - 1] = handed[i].size

ScratchInv == ScratchTyped /\ SizesKept /\ ScratchInOrder

LEMMA ScInit == ScratchInit => ScratchInv
BY ScratchAssumption DEF ScratchInit, ScratchInv, ScratchTyped, SizesKept, ScratchInOrder,
   HandedEndToEnd, HandedInBlock

LEMMA ScAlloc ==
  ASSUME ScratchInv, NEW n \in ScratchSize, MemAllocScratch(n)
  PROVE  ScratchInv'
<1>. DEFINE piece == [offset |-> scratchAllocated, size |-> n, block |-> moves']
<1>1. /\ ScratchTyped /\ SizesKept /\ HandedEndToEnd /\ HandedInBlock /\ n \in Nat
      /\ ScratchDepth \in Nat \ {0} /\ ScratchMin \in Nat
  BY ScratchAssumption DEF ScratchInv, ScratchInOrder
<1>2. /\ depth \in 0 .. ScratchDepth - 1 /\ scratchAllocated \in Nat /\ scratchMax \in Nat
      /\ Len(handed) = depth /\ DOMAIN handed = 1 .. depth /\ handed \in Seq(Piece)
  BY <1>1 DEF MemAllocScratch, ScratchTyped, HandedEndToEnd
<1>3. /\ scratchMax' \in Nat /\ moves' \in Nat /\ scratchAllocated' = scratchAllocated + n
      /\ scratchAllocated' <= scratchMax'
  BY <1>1, <1>2 DEF MemAllocScratch, Grow, Needed, ScratchTyped, HandedInBlock
<1>4. piece \in Piece /\ piece.offset = scratchAllocated /\ piece.size = n
  BY <1>1, <1>2, <1>3 DEF Piece
<1>5. /\ depth' = depth + 1 /\ handed' = Append(handed, piece)
      /\ scratchSizes' = [scratchSizes EXCEPT ![depth] = n]
  BY DEF MemAllocScratch, Slot
<1>. HIDE DEF piece
<1>6. /\ handed' \in Seq(Piece) /\ Len(handed') = depth + 1 /\ DOMAIN handed' = 1 .. depth + 1
      /\ handed'[depth + 1] = piece /\ \A i \in 1 .. depth : handed'[i] = handed[i]
      /\ handed' # <<>>
  BY <1>2, <1>4, <1>5
<1>7. Last(handed') = piece
  BY <1>6 DEF Last
<1>8. ScratchTyped'
  BY <1>1, <1>2, <1>3, <1>5, <1>6 DEF ScratchTyped
<1>9. \A i \in 1 .. depth + 1 : i = depth + 1 \/ (i \in 1 .. depth /\ i # depth + 1)
  BY <1>2
<1>10. SizesKept'
  <2>1. ASSUME NEW i \in 1 .. depth + 1 PROVE scratchSizes'[i - 1] = handed'[i].size
    <3>1. CASE i = depth + 1
      BY <1>1, <1>2, <1>4, <1>5, <1>6, <3>1 DEF ScratchTyped
    <3>2. CASE i \in 1 .. depth
      <4>1. scratchSizes[i - 1] = handed[i].size /\ i - 1 # depth
        BY <1>1, <1>2, <3>2 DEF SizesKept
      <4>. QED
        BY <1>1, <1>2, <1>5, <1>6, <3>2, <4>1 DEF ScratchTyped
    <3>. QED
      BY <1>9, <2>1, <3>1, <3>2
  <2>. QED
    BY <1>6, <2>1 DEF SizesKept
<1>11. HandedEndToEnd'
  <2>1. ASSUME NEW i \in 1 .. depth + 1
        PROVE  handed'[i].offset =
                 IF i = 1 THEN 0 ELSE handed'[i - 1].offset + handed'[i - 1].size
    <3>1. CASE i = depth + 1
      <4>1. CASE depth = 0
        BY <1>1, <1>2, <1>4, <1>6, <3>1, <4>1 DEF HandedEndToEnd
      <4>2. CASE depth # 0
        <5>1. /\ depth \in 1 .. depth /\ i # 1 /\ i - 1 = depth /\ handed # <<>>
              /\ Last(handed) = handed[depth]
          BY <1>2, <3>1, <4>2 DEF Last
        <5>. QED
          BY <1>1, <1>4, <1>6, <3>1, <5>1 DEF HandedEndToEnd
      <4>. QED
        BY <4>1, <4>2
    <3>2. CASE i \in 1 .. depth
      <4>1. i = 1 \/ i - 1 \in 1 .. depth
        BY <1>2, <3>2
      <4>. QED
        BY <1>1, <1>2, <1>6, <3>2, <4>1 DEF HandedEndToEnd
    <3>. QED
      BY <1>9, <2>1, <3>1, <3>2
  <2>2. scratchAllocated' = Last(handed').offset + Last(handed').size
    BY <1>3, <1>4, <1>7
  <2>. QED
    BY <1>5, <1>6, <2>1, <2>2 DEF HandedEndToEnd
<1>. QED
  BY <1>3, <1>8, <1>10, <1>11 DEF ScratchInv, ScratchInOrder, HandedInBlock

LEMMA ScFree ==
  ASSUME ScratchInv, MemFreeScratch
  PROVE  ScratchInv'
<1>1. /\ ScratchTyped /\ SizesKept /\ HandedEndToEnd /\ HandedInBlock
      /\ ScratchDepth \in Nat \ {0}
  BY ScratchAssumption DEF ScratchInv, ScratchInOrder
<1>2. CASE depth = 0
  <2>1. UNCHANGED scratchVars
    BY <1>1, <1>2 DEF MemFreeScratch, ScratchTyped, scratchVars
  <2>. QED
    BY <2>1 DEF scratchVars, ScratchInv, ScratchTyped, SizesKept, ScratchInOrder,
       HandedEndToEnd, HandedInBlock
<1>3. CASE depth # 0
  <2>1. /\ depth \in 1 .. ScratchDepth /\ Len(handed) = depth /\ DOMAIN handed = 1 .. depth
        /\ handed \in Seq(Piece) /\ handed # <<>> /\ Last(handed) = handed[depth]
        /\ depth \in 1 .. depth
    BY <1>1, <1>3 DEF ScratchTyped, HandedEndToEnd, Last
  <2>2. /\ depth' = depth - 1 /\ handed' = Front(handed)
        /\ scratchAllocated' = scratchAllocated - scratchSizes[depth - 1]
        /\ UNCHANGED <<scratchMax, scratchSizes, moves>>
    BY <2>1 DEF MemFreeScratch, Slot
  <2>3. Front(handed) = SubSeq(handed, 1, depth - 1)
    BY <2>1 DEF Front
  <2>4. /\ handed' \in Seq(Piece) /\ Len(handed') = depth - 1
        /\ DOMAIN handed' = 1 .. depth - 1
        /\ \A i \in 1 .. depth - 1 : i \in 1 .. depth /\ handed'[i] = handed[i]
    BY <2>1, <2>2, <2>3
  <2>5. /\ handed[depth] \in Piece
        /\ scratchAllocated = handed[depth].offset + handed[depth].size
        /\ scratchSizes[depth - 1] = handed[depth].size
    BY <1>1, <2>1 DEF HandedEndToEnd, SizesKept
  <2>6. scratchAllocated' = handed[depth].offset /\ handed[depth].offset \in Nat
        /\ scratchAllocated' <= scratchAllocated
    BY <2>2, <2>5 DEF Piece
  <2>7. ScratchTyped'
    BY <1>1, <2>1, <2>2, <2>4, <2>6 DEF ScratchTyped
  <2>8. SizesKept'
    BY <1>1, <2>1, <2>2, <2>4 DEF SizesKept
  <2>9. HandedEndToEnd'
    <3>1. \A i \in 1 .. depth - 1 :
            handed'[i].offset = IF i = 1 THEN 0 ELSE handed'[i - 1].offset + handed'[i - 1].size
      <4>1. \A i \in 1 .. depth - 1 : i = 1 \/ i - 1 \in 1 .. depth - 1
        BY <2>1
      <4>. QED
        BY <1>1, <2>1, <2>4, <4>1 DEF HandedEndToEnd
    <3>2. CASE depth = 1
      <4>1. handed' = <<>> /\ handed[depth].offset = 0
        BY <1>1, <2>1, <2>4, <3>2 DEF HandedEndToEnd
      <4>. QED
        BY <2>2, <2>4, <2>6, <3>1, <3>2, <4>1 DEF HandedEndToEnd
    <3>3. CASE depth # 1
      <4>1. /\ handed' # <<>> /\ Last(handed') = handed'[depth - 1]
            /\ depth - 1 \in 1 .. depth - 1
        BY <2>1, <2>4, <3>3 DEF Last
      <4>2. handed[depth].offset = handed[depth - 1].offset + handed[depth - 1].size
        BY <1>1, <2>1, <3>3 DEF HandedEndToEnd
      <4>. QED
        BY <2>2, <2>4, <2>6, <3>1, <4>1, <4>2 DEF HandedEndToEnd
    <3>. QED
      BY <3>2, <3>3
  <2>10. HandedInBlock'
    BY <1>1, <2>1, <2>2, <2>6 DEF HandedInBlock, ScratchTyped
  <2>. QED
    BY <2>7, <2>8, <2>9, <2>10 DEF ScratchInv, ScratchInOrder
<1>. QED
  BY <1>2, <1>3

(* However deep the stack has been and wherever the block has moved, what  *)
(* MemAllocScratch hands out lies in the block, end to end, and            *)
(* MemFreeScratch takes back the piece handed out last.                    *)
THEOREM ScratchAlwaysInOrder == ScratchSpec => []ScratchInOrder
<1>1. ScratchInv /\ [ScratchNext]_scratchVars => ScratchInv'
  <2>. SUFFICES ASSUME ScratchInv, [ScratchNext]_scratchVars PROVE ScratchInv'
    OBVIOUS
  <2>1. CASE UNCHANGED scratchVars
    BY <2>1 DEF scratchVars, ScratchInv, ScratchTyped, SizesKept, ScratchInOrder,
       HandedEndToEnd, HandedInBlock
  <2>. QED
    BY <2>1, ScAlloc, ScFree DEF ScratchNext
<1>2. ScratchInv => ScratchInOrder
  BY DEF ScratchInv
<1>. QED
  BY <1>1, <1>2, ScInit, PTL DEF ScratchSpec

-----------------------------------------------------------------------------
(***************************************************************************)
(* Threads and their object.  As long as no Start gave up, one thread      *)
(* lives at a time: Start waits for it, and the owner joins it, or ends    *)
(* it, before the next.                                                    *)
(***************************************************************************)
LifeTyped ==
  /\ {handle, tid, resultOf} \subseteq 0 .. last /\ last \in 0 .. MaxThreads
  /\ result \in {"none", "returned", "terminated"} /\ (result = "none" <=> resultOf = 0)
  /\ thr \in [Started -> [pc : Steps, ok : BOOLEAN, code : {"none", "returned", "terminated"}]]
  /\ \A k \in Started : (thr[k].pc = "none" <=> k > last) /\ (Ended(k) => thr[k].code # "none")
  /\ answer \in [Started -> {"none", "yes", "no", "timeout"}]
  /\ \A k \in Started : (k > last \/ (k = last /\ InStart)) => answer[k] = "none"
  /\ owner \in {"idle", "created", "waiting", "terminating", "gone"}
  /\ InStart => last # 0
  /\ owner = "terminating" => handle # 0

(* The threads that have told Start what Init said.                        *)
Told == {k \in Started : thr[k].pc \in {"run", "exit", "ended"}}

(* One thread lives at a time, the last one, and the owner holds on to it. *)
OneLives ==
  /\ \A k \in Started : k < last => Ended(k)
  /\ owner = "created" => handle = 0
  /\ owner = "waiting" => handle = last
  /\ owner = "gone" => handle = 0
  /\ handle = 0 /\ ~InStart => \A k \in Started : k <= last => Ended(k)
  /\ handle # 0 => handle = last /\ (tid = handle \/ Ended(handle))
  /\ handle # 0 /\ ~InStart => handle \in Told

(* What is in the frame of Start is what the last thread has written there.*)
FrameTells ==
  InStart =>
    /\ signalled <=> last \in Told
    /\ last \in Told \/ thr[last].pc = "set" => success = thr[last].ok

Orderly == GaveUp = {} => OneLives /\ FrameTells /\ late = {} /\ ghosts = {}

LifeInv == LifeTyped /\ Orderly /\ AnswerIsInits /\ ResultIsExitCode

LEMMA LifeInit == ThreadInit => LifeInv
<1>. SUFFICES ASSUME ThreadInit PROVE LifeInv
  OBVIOUS
<1>1. /\ handle = 0 /\ last = 0 /\ owner = "idle" /\ ~InStart /\ late = {} /\ ghosts = {}
      /\ \A k \in Started : thr[k].pc = "none" /\ answer[k] = "none" /\ k > 0
  BY StartsAssumption DEF ThreadInit, InStart, Started
<1>2. LifeTyped
  BY <1>1, StartsAssumption DEF ThreadInit, LifeTyped, Ended, Steps, Started
<1>3. OneLives /\ FrameTells
  BY <1>1, StartsAssumption DEF OneLives, FrameTells, Ended, Told, Started
<1>. QED
  BY <1>1, <1>2, <1>3 DEF LifeInv, Orderly, AnswerIsInits, ResultIsExitCode, ThreadInit

(* While Start runs on a thread the frame is that thread's alone.          *)
LEMMA LastWrites ==
  ASSUME LifeTyped, Orderly, GaveUp = {}, NEW k \in Started,
         thr[k].pc \notin {"none", "ended"}
  PROVE  /\ k = last /\ owner # "gone"
         /\ k \notin Told => InStart
         /\ ~InStart => handle = k
BY DEF LifeTyped, Orderly, OneLives, GaveUp, Ended, Started, Told, InStart

(* The owner's steps.                                                      *)
LEMMA LifeStart ==
  ASSUME LifeInv, StartThread
  PROVE  LifeInv'
<1>. USE StartsAssumption DEF Started
<1>1. /\ LifeTyped /\ Orderly /\ AnswerIsInits /\ ResultIsExitCode
      /\ last \in 0 .. MaxThreads - 1 /\ last' = last + 1 /\ last' \in Started /\ last \in Int
      /\ thr[last'].pc = "none" /\ answer[last'] = "none"
  BY DEF LifeInv, LifeTyped, StartThread
<1>2. /\ thr' = [thr EXCEPT ![last'].pc = "new"] /\ owner = "idle" /\ owner' = "created"
      /\ handle = 0 \/ last \in GaveUp
      /\ signalled' = FALSE /\ success' = FALSE
      /\ UNCHANGED <<handle, tid, result, resultOf, answer, late, ghosts>>
  BY DEF StartThread, object
<1>3. /\ thr' \in [Started -> [pc : Steps, ok : BOOLEAN, code : {"none", "returned", "terminated"}]]
      /\ thr'[last'].pc = "new" /\ \A k \in Started : k # last' => thr'[k] = thr[k]
  BY <1>1, <1>2 DEF LifeTyped, Steps
<1>4. \A k \in Started : k < last' => k <= last
  BY <1>1
<1>5. LifeTyped'
  <2>1. {handle', tid', resultOf'} \subseteq 0 .. last' /\ last' \in 0 .. MaxThreads
    BY <1>1, <1>2 DEF LifeTyped
  <2>2. \A k \in Started : (thr'[k].pc = "none" <=> k > last') /\ (Ended(k)' => thr'[k].code # "none")
    <3>1. \A k \in Started : k # last' => (k > last' <=> k > last)
      BY <1>1
    <3>. QED
      BY <1>1, <1>3, <3>1 DEF LifeTyped, Ended
  <2>3. \A k \in Started : (k > last' \/ (k = last' /\ InStart')) => answer'[k] = "none"
    <3>1. \A k \in Started : k > last' => k > last
      BY <1>1
    <3>. QED
      BY <1>1, <1>2, <3>1 DEF LifeTyped
  <2>4. last' # 0
    BY <1>1, <1>2
  <2>. QED
    BY <1>1, <1>2, <1>3, <2>1, <2>2, <2>3, <2>4 DEF LifeTyped
<1>6. Orderly'
  <2>. SUFFICES ASSUME GaveUp = {} PROVE OneLives' /\ FrameTells' /\ late' = {} /\ ghosts' = {}
    BY <1>2 DEF Orderly, GaveUp
  <2>1. handle = 0 /\ \A k \in Started : k <= last => Ended(k)
    BY <1>1, <1>2 DEF Orderly, OneLives, InStart
  <2>2. OneLives'
    BY <1>1, <1>2, <1>3, <1>4, <2>1 DEF OneLives, InStart, Ended
  <2>3. FrameTells'
    BY <1>1, <1>2, <1>3 DEF FrameTells, Told
  <2>. QED
    BY <1>1, <1>2, <2>2, <2>3 DEF Orderly
<1>7. AnswerIsInits'
  BY <1>1, <1>2, <1>3 DEF AnswerIsInits, GaveUp
<1>8. ResultIsExitCode'
  BY <1>1, <1>2, <1>3 DEF ResultIsExitCode, Ended, LifeTyped
<1>. QED
  BY <1>5, <1>6, <1>7, <1>8 DEF LifeInv

LEMMA LifeStore ==
  ASSUME LifeInv, StoreHandle
  PROVE  LifeInv'
<1>. USE StartsAssumption DEF Started
<1>1. /\ LifeTyped /\ Orderly /\ AnswerIsInits /\ ResultIsExitCode
      /\ owner = "created" /\ owner' = "waiting" /\ handle' = last /\ tid' = last
      /\ UNCHANGED <<result, resultOf, signalled, success, thr, last, answer, late, ghosts>>
      /\ InStart /\ InStart' /\ last # 0
  BY DEF LifeInv, LifeTyped, StoreHandle, frame, InStart
<1>2. LifeTyped'
  BY <1>1 DEF LifeTyped, Ended
<1>3. Orderly'
  BY <1>1 DEF Orderly, OneLives, FrameTells, GaveUp, Told, Ended
<1>4. AnswerIsInits' /\ ResultIsExitCode'
  BY <1>1 DEF AnswerIsInits, ResultIsExitCode, GaveUp, Ended
<1>. QED
  BY <1>2, <1>3, <1>4 DEF LifeInv

LEMMA LifeReturns ==
  ASSUME LifeInv, StartReturns \/ StartTimesOut
  PROVE  LifeInv'
<1>. USE StartsAssumption DEF Started
<1>1. /\ LifeTyped /\ Orderly /\ AnswerIsInits /\ ResultIsExitCode
      /\ owner = "waiting" /\ owner' = "idle" /\ InStart /\ ~InStart'
      /\ last \in Started /\ answer[last] = "none"
      /\ UNCHANGED <<handle, tid, result, resultOf, signalled, success, thr, last, late, ghosts>>
  BY DEF LifeInv, LifeTyped, StartReturns, StartTimesOut, frame, object, InStart
<1>2. PICK a \in {"yes", "no", "timeout"} :
        /\ answer' = [answer EXCEPT ![last] = a]
        /\ a # "timeout" => signalled /\ a = (IF success THEN "yes" ELSE "no")
  BY DEF StartReturns, StartTimesOut
<1>3. /\ answer' \in [Started -> {"none", "yes", "no", "timeout"}] /\ answer'[last] = a
      /\ \A k \in Started : k # last => answer'[k] = answer[k]
  BY <1>1, <1>2 DEF LifeTyped
<1>4. LifeTyped'
  <2>1. \A k \in Started : k > last => k # last
    BY <1>1 DEF LifeTyped
  <2>. QED
    BY <1>1, <1>3, <2>1 DEF LifeTyped, Ended
<1>5. GaveUp' = {} => GaveUp = {} /\ a # "timeout" /\ last \in Told /\ success = thr[last].ok
  <2>1. GaveUp' = {} => GaveUp = {} /\ a # "timeout"
    BY <1>1, <1>3 DEF GaveUp
  <2>. QED
    BY <1>1, <1>2, <2>1 DEF Orderly, FrameTells
<1>6. Orderly'
  BY <1>1, <1>5 DEF Orderly, OneLives, FrameTells, Told, Ended
<1>7. AnswerIsInits'
  <2>. SUFFICES ASSUME GaveUp' = {}, NEW k \in Started
                PROVE  (answer'[k] = "yes" => thr[k].ok) /\ (answer'[k] = "no" => ~thr[k].ok)
    BY <1>1 DEF AnswerIsInits
  <2>1. CASE k = last
    BY <1>2, <1>3, <1>5, <2>1
  <2>2. CASE k # last
    BY <1>1, <1>3, <1>5, <2>2 DEF AnswerIsInits
  <2>. QED
    BY <2>1, <2>2
<1>8. ResultIsExitCode'
  BY <1>1 DEF ResultIsExitCode, Ended
<1>. QED
  BY <1>4, <1>6, <1>7, <1>8 DEF LifeInv

(* A thread is ended from outside, or its end is noted.                    *)
LEMMA LifeEnds ==
  ASSUME LifeInv, Join \/ Terminate \/ Kill \/ Destroy
  PROVE  LifeInv'
<1>. USE StartsAssumption DEF Started
<1>1. /\ LifeTyped /\ Orderly /\ AnswerIsInits /\ ResultIsExitCode
      /\ owner \in {"idle", "terminating"} /\ owner' \in {"idle", "terminating", "gone"}
      /\ owner' = "terminating" => handle' # 0
      /\ ~InStart /\ ~InStart' /\ handle \in 0 .. last /\ last \in 0 .. MaxThreads
      /\ UNCHANGED <<signalled, success, last, answer, late, ghosts>>
  BY DEF LifeInv, LifeTyped, Join, Terminate, Kill, Destroy, frame, InStart
<1>2. /\ handle' \in {0, handle} /\ tid' \in {0, tid}
      /\ handle' # 0 => tid' = tid
      /\ owner' = "gone" => handle' = 0
      /\ handle' = 0 /\ handle # 0 => thr'[handle].pc = "ended"
      /\ thr' = thr \/ (handle # 0 /\ ~Ended(handle) /\ thr' = Killed(handle))
  <2>1. CASE Join
    BY <1>1, <2>1 DEF Join, Ended
  <2>2. CASE Terminate
    BY <1>1, <2>2 DEF Terminate
  <2>3. CASE Kill
    BY <1>1, <2>3 DEF Kill, LifeTyped
  <2>4. CASE Destroy
    <3>1. CASE handle # 0 /\ ~Ended(handle)
      <4>1. thr' = Killed(handle) /\ handle \in DOMAIN thr
        BY <1>1, <2>4, <3>1 DEF Destroy, LifeTyped
      <4>2. thr'[handle].pc = "ended"
        BY <1>1, <4>1 DEF Killed, LifeTyped
      <4>. QED
        BY <1>1, <2>4, <3>1, <4>1, <4>2 DEF Destroy
    <3>2. CASE handle = 0 \/ Ended(handle)
      BY <1>1, <2>4, <3>2 DEF Destroy, Ended
    <3>. QED
      BY <3>1, <3>2
  <2>. QED
    BY <2>1, <2>2, <2>3, <2>4
<1>3. /\ thr' \in [Started -> [pc : Steps, ok : BOOLEAN, code : {"none", "returned", "terminated"}]]
      /\ \A k \in Started : thr'[k].ok = thr[k].ok /\ (Ended(k) => thr'[k] = thr[k])
      /\ \A k \in Started : thr'[k] = thr[k] \/ (k = handle /\ thr'[k].pc = "ended" /\ thr'[k].code = "terminated")
  <2>1. CASE thr' = thr
    BY <1>1, <2>1 DEF LifeTyped
  <2>2. CASE handle # 0 /\ ~Ended(handle) /\ thr' = Killed(handle)
    <3>1. /\ handle \in Started /\ thr[handle].pc # "ended"
          /\ thr \in [Started -> [pc : Steps, ok : BOOLEAN, code : {"none", "returned", "terminated"}]]
      BY <1>1, <2>2 DEF LifeTyped, Ended
    <3>2. thr' = [thr EXCEPT ![handle] = [thr[handle] EXCEPT !.pc = "ended", !.code = "terminated"]]
      BY <2>2, <3>1 DEF Killed
    <3>3. [thr[handle] EXCEPT !.pc = "ended", !.code = "terminated"] \in
            [pc : Steps, ok : BOOLEAN, code : {"none", "returned", "terminated"}]
      BY <3>1 DEF Steps
    <3>. QED
      BY <3>1, <3>2, <3>3 DEF Ended
  <2>. QED
    BY <1>2, <2>1, <2>2
<1>4. /\ resultOf' \in {resultOf, handle} /\ result' \in {result, "returned", "terminated"}
      /\ result' = "none" <=> resultOf' = 0
      /\ ResultIsExitCode'
  <2>1. CASE UNCHANGED <<result, resultOf>>
    BY <1>1, <1>3, <2>1 DEF ResultIsExitCode, LifeTyped, Ended
  <2>2. CASE ~UNCHANGED <<result, resultOf>>
    <3>1. CASE Ended(handle) /\ thr' = thr /\ handle # 0 /\ resultOf' = handle /\ result' = thr[handle].code
      BY <1>1, <3>1 DEF ResultIsExitCode, LifeTyped, Ended
    <3>2. CASE thr' = Killed(handle) /\ handle # 0 /\ resultOf' = handle /\ result' = "terminated"
      BY <1>1, <3>2 DEF ResultIsExitCode, LifeTyped, Ended, Killed
    <3>. QED
      BY <1>1, <2>2, <3>1, <3>2 DEF Join, Terminate, Kill, Destroy, LifeTyped
  <2>. QED
    BY <2>1, <2>2
<1>5. LifeTyped'
  <2>1. \A k \in Started : (thr'[k].pc = "none" <=> k > last) /\ (Ended(k)' => thr'[k].code # "none")
    BY <1>1, <1>3 DEF LifeTyped, Ended
  <2>2. {handle', tid', resultOf'} \subseteq 0 .. last
    BY <1>1, <1>2, <1>4 DEF LifeTyped
  <2>3. result' \in {"none", "returned", "terminated"}
    BY <1>1, <1>4 DEF LifeTyped
  <2>. QED
    BY <1>1, <1>3, <1>4, <2>1, <2>2, <2>3 DEF LifeTyped
<1>6. Orderly'
  <2>. SUFFICES ASSUME GaveUp = {} PROVE OneLives' /\ FrameTells' /\ late' = {} /\ ghosts' = {}
    BY <1>1 DEF Orderly, GaveUp
  <2>1. OneLives /\ late = {} /\ ghosts = {}
    BY <1>1 DEF Orderly
  <2>2. \A k \in Started : Ended(k) => Ended(k)'
    BY <1>3 DEF Ended
  <2>3. Told \subseteq Told'
    BY <1>3 DEF Told
  <2>4. OneLives'
    <3>1. \A k \in Started : k < last => Ended(k)'
      BY <2>1, <2>2 DEF OneLives
    <3>2. handle' = 0 => \A k \in Started : k <= last => Ended(k)'
      <4>1. CASE handle = 0
        BY <1>1, <2>1, <2>2, <4>1 DEF OneLives
      <4>2. CASE handle # 0
        <5>1. handle = last
          BY <2>1, <4>2 DEF OneLives
        <5>2. \A k \in Started : k <= last => k = last \/ k < last
          BY <1>1
        <5>. QED
          BY <1>2, <3>1, <4>2, <5>1, <5>2 DEF Ended
      <4>. QED
        BY <4>1, <4>2
    <3>3. handle' # 0 => handle' = last /\ (tid' = handle' \/ Ended(handle)') /\ handle' \in Told'
      <4>. SUFFICES ASSUME handle' # 0
                    PROVE  handle' = last /\ (tid' = handle' \/ Ended(handle)') /\ handle \in Told'
        BY <1>2
      <4>1. handle' = handle /\ handle = last /\ (tid = handle \/ Ended(handle)) /\ handle \in Told
        BY <1>1, <1>2, <2>1 DEF OneLives
      <4>2. handle \in Started
        BY <4>1 DEF Told
      <4>. QED
        BY <1>2, <2>2, <2>3, <4>1, <4>2
    <3>. QED
      BY <1>1, <1>2, <3>1, <3>2, <3>3 DEF OneLives
  <2>. QED
    BY <1>1, <2>1, <2>4 DEF FrameTells
<1>7. AnswerIsInits'
  BY <1>1, <1>3 DEF AnswerIsInits, GaveUp
<1>. QED
  BY <1>4, <1>5, <1>6, <1>7 DEF LifeInv

(* A step of ThreadProc, by what it makes of the thread and of the frame.  *)
ThreadRecord == [pc : Steps, ok : BOOLEAN, code : {"none", "returned", "terminated"}]

LEMMA LifeGoesOn ==
  ASSUME LifeInv, NEW k \in Started, NEW r \in ThreadRecord, thr' = [thr EXCEPT ![k] = r],
         thr[k].pc \notin {"none", "ended"}, r.pc # "none", r.pc = "ended" => r.code # "none",
         k \in Told => r.pc \in {"run", "exit", "ended"} /\ r.ok = thr[k].ok,
         UNCHANGED <<handle, result, resultOf, last, owner, answer>>,
         tid' = tid \/ (tid' = 0 /\ r.pc = "ended"),
         k \in Told \/ (k = last /\ InStart) => late' = late,
         owner # "gone" => ghosts' = ghosts,
         GaveUp = {} /\ k = last /\ InStart =>
           /\ signalled' <=> r.pc \in {"run", "exit", "ended"}
           /\ r.pc \in {"set", "run", "exit", "ended"} => success' = r.ok
  PROVE  LifeInv'
<1>. USE StartsAssumption DEF Started
<1>1. /\ LifeTyped /\ Orderly /\ AnswerIsInits /\ ResultIsExitCode
      /\ handle \in 0 .. last /\ resultOf \in 0 .. last /\ last \in 0 .. MaxThreads
      /\ thr \in [Started -> ThreadRecord]
  BY DEF LifeInv, LifeTyped, ThreadRecord
<1>2. /\ thr' \in [Started -> ThreadRecord] /\ thr'[k] = r
      /\ \A j \in Started : j # k => thr'[j] = thr[j]
  BY <1>1
<1>3. k <= last
  BY <1>1 DEF LifeTyped
<1>4. \A j \in Started : Ended(j) => thr'[j] = thr[j]
  BY <1>2 DEF Ended
<1>5. LifeTyped'
  <2>1. \A j \in Started : (thr'[j].pc = "none" <=> j > last) /\ (Ended(j)' => thr'[j].code # "none")
    <3>1. CASE TRUE
      BY <1>1, <1>2, <1>3 DEF LifeTyped, Ended
    <3>. QED
      BY <3>1
  <2>2. tid' \in 0 .. last
    BY <1>1 DEF LifeTyped
  <2>3. thr' \in [Started -> [pc : Steps, ok : BOOLEAN, code : {"none", "returned", "terminated"}]]
    BY <1>2 DEF ThreadRecord
  <2>4. InStart' <=> InStart
    BY DEF InStart
  <2>. QED
    BY <1>1, <2>1, <2>2, <2>3, <2>4 DEF LifeTyped
<1>6. ASSUME GaveUp = {}
      PROVE  /\ k = last /\ owner # "gone" /\ (k \notin Told => InStart)
             /\ late = {} /\ ghosts = {} /\ OneLives /\ FrameTells
  BY <1>1, <1>6, LastWrites DEF Orderly
<1>7. Orderly'
  <2>. SUFFICES ASSUME GaveUp = {} PROVE OneLives' /\ FrameTells' /\ late' = {} /\ ghosts' = {}
    BY DEF Orderly, GaveUp
  <2>1. late' = {} /\ ghosts' = {}
    BY <1>6
  <2>2. \A j \in Started : Ended(j) => Ended(j)'
    BY <1>4 DEF Ended
  <2>3. Told \subseteq Told' /\ (k \in Told' <=> r.pc \in {"run", "exit", "ended"})
    BY <1>2 DEF Told
  <2>4. OneLives'
    <3>1. /\ \A j \in Started : j < last => Ended(j)'
          /\ handle = 0 /\ ~InStart => \A j \in Started : j <= last => Ended(j)'
      BY <1>6, <2>2 DEF OneLives
    <3>2. handle # 0 => handle = last /\ (tid' = handle \/ thr'[handle].pc = "ended")
      BY <1>2, <1>4, <1>6 DEF OneLives, Ended
    <3>3. handle # 0 /\ ~InStart => handle \in Told'
      BY <1>6, <2>3 DEF OneLives
    <3>. QED
      BY <1>6, <3>1, <3>2, <3>3 DEF OneLives, InStart, Ended
  <2>5. FrameTells'
    <3>. SUFFICES ASSUME InStart
                  PROVE  /\ signalled' <=> last \in Told'
                         /\ last \in Told' \/ thr'[last].pc = "set" => success' = thr'[last].ok
      BY DEF FrameTells, InStart
    <3>. QED
      BY <1>2, <1>6, <2>3
  <2>. QED
    BY <2>1, <2>4, <2>5
<1>8. AnswerIsInits'
  <2>. SUFFICES ASSUME GaveUp = {}, NEW j \in Started
                PROVE  (answer[j] = "yes" => thr'[j].ok) /\ (answer[j] = "no" => ~thr'[j].ok)
    BY DEF AnswerIsInits, GaveUp
  <2>1. (answer[j] = "yes" => thr[j].ok) /\ (answer[j] = "no" => ~thr[j].ok)
    BY <1>1 DEF AnswerIsInits
  <2>2. CASE j # k \/ k \in Told
    BY <1>2, <2>1, <2>2
  <2>3. CASE j = k /\ k \notin Told
    BY <1>1, <1>6, <2>3 DEF LifeTyped
  <2>. QED
    BY <2>2, <2>3
<1>9. ResultIsExitCode'
  BY <1>1, <1>4 DEF ResultIsExitCode, Ended
<1>. QED
  BY <1>5, <1>7, <1>8, <1>9 DEF LifeInv

(* The functions ThreadProc goes through, in their order.                  *)
LEMMA LifeBegins ==
  ASSUME LifeInv, NEW k \in Started, Begin(k) \/ CallInit(k) \/ StoreSuccess(k)
  PROVE  LifeInv'
<1>0. thr \in [Started -> ThreadRecord]
  BY DEF LifeInv, LifeTyped, ThreadRecord
<1>1. LifeTyped /\ Orderly /\ k \notin Told /\ thr[k].pc \notin {"none", "ended"}
  BY DEF LifeInv, Begin, CallInit, StoreSuccess, Told
<1>2. GaveUp = {} /\ k = last /\ InStart => ~signalled
  BY <1>1 DEF Orderly, FrameTells
<1>3. CASE Begin(k)
  <2>. DEFINE r == [thr[k] EXCEPT !.pc = "init"]
  <2>1. r \in ThreadRecord /\ r.pc = "init" /\ thr' = [thr EXCEPT ![k] = r]
    <3>1. thr' = [thr EXCEPT ![k].pc = "init"]
      BY <1>3 DEF Begin, To
    <3>2. thr' = [thr EXCEPT ![k] = [thr[k] EXCEPT !.pc = "init"]]
      BY <1>0, <3>1
    <3>3. r \in ThreadRecord
      BY <1>0 DEF ThreadRecord, Steps
    <3>. QED
      BY <1>0, <3>1, <3>2, <3>3 DEF ThreadRecord
  <2>. HIDE DEF r
  <2>2. /\ UNCHANGED <<handle, tid, result, resultOf, last, owner, answer, ghosts, signalled>>
        /\ k = last /\ InStart => late' = late
    BY <1>3 DEF Begin, object, WriteSuccess, Late
  <2>. QED
    BY <1>1, <1>2, <2>1, <2>2, LifeGoesOn
<1>4. CASE CallInit(k)
  <2>1. PICK ok \in BOOLEAN : thr' = [thr EXCEPT ![k].pc = "flag", ![k].ok = ok]
    BY <1>4 DEF CallInit
  <2>. DEFINE r == [thr[k] EXCEPT !.pc = "flag", !.ok = ok]
  <2>2. r \in ThreadRecord /\ r.pc = "flag" /\ thr' = [thr EXCEPT ![k] = r]
    <3>1. thr' = [thr EXCEPT ![k] = [thr[k] EXCEPT !.pc = "flag", !.ok = ok]]
      BY <1>0, <2>1
    <3>2. r \in ThreadRecord
      BY <1>0 DEF ThreadRecord, Steps
    <3>. QED
      BY <1>0, <3>1, <3>2 DEF ThreadRecord
  <2>. HIDE DEF r
  <2>3. /\ UNCHANGED <<handle, tid, result, resultOf, last, owner, answer, signalled, late>>
        /\ owner # "gone" => ghosts' = ghosts
    BY <1>4 DEF CallInit, object, frame, Touch
  <2>. QED
    BY <1>1, <1>2, <2>2, <2>3, LifeGoesOn
<1>5. CASE StoreSuccess(k)
  <2>. DEFINE r == [thr[k] EXCEPT !.pc = "set"]
  <2>1. r \in ThreadRecord /\ r.pc = "set" /\ thr' = [thr EXCEPT ![k] = r] /\ r.ok = thr[k].ok
    <3>1. thr' = [thr EXCEPT ![k].pc = "set"]
      BY <1>5 DEF StoreSuccess, To
    <3>2. thr' = [thr EXCEPT ![k] = [thr[k] EXCEPT !.pc = "set"]]
      BY <1>0, <3>1
    <3>3. r \in ThreadRecord
      BY <1>0 DEF ThreadRecord, Steps
    <3>. QED
      BY <1>0, <3>1, <3>2, <3>3 DEF ThreadRecord
  <2>. HIDE DEF r
  <2>2. /\ UNCHANGED <<handle, tid, result, resultOf, last, owner, answer, ghosts, signalled>>
        /\ k = last /\ InStart => late' = late /\ success' = thr[k].ok
    BY <1>5 DEF StoreSuccess, object, WriteSuccess, Late, Written
  <2>. QED
    BY <1>1, <1>2, <2>1, <2>2, LifeGoesOn
<1>. QED
  BY <1>3, <1>4, <1>5

LEMMA LifeSignals ==
  ASSUME LifeInv, NEW k \in Started, Signal(k)
  PROVE  LifeInv'
<1>0. thr \in [Started -> ThreadRecord]
  BY DEF LifeInv, LifeTyped, ThreadRecord
<1>1. /\ LifeTyped /\ Orderly /\ k \notin Told /\ thr[k].pc = "set"
      /\ UNCHANGED <<handle, tid, result, resultOf, last, owner, answer, ghosts, success>>
      /\ k = last /\ InStart => late' = late /\ signalled' = TRUE
  BY DEF LifeInv, Signal, Told, object, Late, Written
<1>2. GaveUp = {} /\ k = last /\ InStart => success = thr[k].ok
  BY <1>1 DEF Orderly, FrameTells
<1>3. CASE thr[k].ok
  <2>. DEFINE r == [thr[k] EXCEPT !.pc = "run", !.code = @]
  <2>1. r \in ThreadRecord /\ r.pc = "run" /\ r.ok = thr[k].ok /\ thr' = [thr EXCEPT ![k] = r]
    <3>1. thr' = [thr EXCEPT ![k].pc = "run", ![k].code = @]
      BY <1>3 DEF Signal
    <3>2. thr' = [thr EXCEPT ![k] = [thr[k] EXCEPT !.pc = "run", !.code = @]]
      BY <1>0, <3>1
    <3>3. r \in ThreadRecord
      BY <1>0 DEF ThreadRecord, Steps
    <3>. QED
      BY <1>0, <3>1, <3>2, <3>3 DEF ThreadRecord
  <2>. HIDE DEF r
  <2>. QED
    BY <1>1, <1>2, <2>1, LifeGoesOn
<1>4. CASE ~thr[k].ok
  <2>. DEFINE r == [thr[k] EXCEPT !.pc = "ended", !.code = "returned"]
  <2>1. /\ r \in ThreadRecord /\ r.pc = "ended" /\ r.code = "returned" /\ r.ok = thr[k].ok
        /\ thr' = [thr EXCEPT ![k] = r]
    <3>1. thr' = [thr EXCEPT ![k].pc = "ended", ![k].code = "returned"]
      BY <1>4 DEF Signal
    <3>2. thr' = [thr EXCEPT ![k] = [thr[k] EXCEPT !.pc = "ended", !.code = "returned"]]
      BY <1>0, <3>1
    <3>3. r \in ThreadRecord
      BY <1>0 DEF ThreadRecord, Steps
    <3>. QED
      BY <1>0, <3>1, <3>2, <3>3 DEF ThreadRecord
  <2>. HIDE DEF r
  <2>. QED
    BY <1>1, <1>2, <2>1, LifeGoesOn
<1>. QED
  BY <1>3, <1>4

LEMMA LifeRuns ==
  ASSUME LifeInv, NEW k \in Started, Run(k) \/ Exit(k)
  PROVE  LifeInv'
<1>0. thr \in [Started -> ThreadRecord]
  BY DEF LifeInv, LifeTyped, ThreadRecord
<1>1. /\ LifeTyped /\ Orderly /\ k \in Told /\ thr[k].pc \in {"run", "exit"}
      /\ UNCHANGED <<handle, result, resultOf, last, owner, answer, success, signalled, late>>
      /\ owner # "gone" => ghosts' = ghosts
  BY DEF LifeInv, Run, Exit, Told, object, frame, Touch
<1>2. GaveUp = {} /\ k = last /\ InStart => signalled /\ success = thr[k].ok
  BY <1>1 DEF Orderly, FrameTells
<1>3. CASE Run(k)
  <2>. DEFINE r == [thr[k] EXCEPT !.pc = "exit"]
  <2>1. /\ r \in ThreadRecord /\ r.pc = "exit" /\ r.ok = thr[k].ok
        /\ thr' = [thr EXCEPT ![k] = r] /\ tid' = tid
    <3>1. thr' = [thr EXCEPT ![k].pc = "exit"] /\ tid' = tid
      BY <1>3 DEF Run, To, object
    <3>2. thr' = [thr EXCEPT ![k] = [thr[k] EXCEPT !.pc = "exit"]]
      BY <1>0, <3>1
    <3>3. r \in ThreadRecord
      BY <1>0 DEF ThreadRecord, Steps
    <3>. QED
      BY <1>0, <3>1, <3>2, <3>3 DEF ThreadRecord
  <2>. HIDE DEF r
  <2>. QED
    BY <1>1, <1>2, <2>1, LifeGoesOn
<1>4. CASE Exit(k)
  <2>. DEFINE r == [thr[k] EXCEPT !.pc = "ended", !.code = "returned"]
  <2>1. /\ r \in ThreadRecord /\ r.pc = "ended" /\ r.code = "returned" /\ r.ok = thr[k].ok
        /\ thr' = [thr EXCEPT ![k] = r] /\ tid' = 0
    <3>1. thr' = [thr EXCEPT ![k].pc = "ended", ![k].code = "returned"] /\ tid' = 0
      BY <1>4 DEF Exit
    <3>2. thr' = [thr EXCEPT ![k] = [thr[k] EXCEPT !.pc = "ended", !.code = "returned"]]
      BY <1>0, <3>1
    <3>3. r \in ThreadRecord
      BY <1>0 DEF ThreadRecord, Steps
    <3>. QED
      BY <1>0, <3>1, <3>2, <3>3 DEF ThreadRecord
  <2>. HIDE DEF r
  <2>. QED
    BY <1>1, <1>2, <2>1, LifeGoesOn
<1>. QED
  BY <1>3, <1>4

(* As long as no Start gave up, the frame of Start outlives the handshake, *)
(* Start answers what Init said, the object knows who runs it and is not   *)
(* run after its end; and m_result is always the exit code of a thread     *)
(* that has ended: for any number of threads started one after the other.  *)
THEOREM ThreadAlwaysInOrder == ThreadSpec => []ThreadInOrder
<1>1. LifeInv /\ [ThreadNext]_threadVars => LifeInv'
  <2>. SUFFICES ASSUME LifeInv, [ThreadNext]_threadVars PROVE LifeInv'
    OBVIOUS
  <2>1. CASE UNCHANGED threadVars
    <3>1. /\ UNCHANGED <<handle, tid, result, resultOf, signalled, success>>
          /\ UNCHANGED <<thr, last, owner, answer, late, ghosts>>
      BY <2>1 DEF threadVars, object, frame
    <3>. QED
      BY <3>1 DEF LifeInv, LifeTyped, Orderly, OneLives, FrameTells, AnswerIsInits,
         ResultIsExitCode, GaveUp, InStart, Ended, Told
  <2>2. CASE OwnerNext
    BY <2>2, LifeStart, LifeStore, LifeReturns, LifeEnds DEF OwnerNext
  <2>. QED
    BY <2>1, <2>2, LifeBegins, LifeSignals, LifeRuns DEF ThreadNext
<1>2. LifeInv => ThreadInOrder
  <2>. SUFFICES ASSUME LifeInv PROVE ThreadInOrder
    OBVIOUS
  <2>. USE StartsAssumption DEF Started
  <2>1. LifeTyped /\ Orderly /\ AnswerIsInits /\ ResultIsExitCode
    BY DEF LifeInv
  <2>2. ThreadTypeOK
    BY <2>1 DEF LifeTyped, ThreadTypeOK
  <2>3. FrameOutlivesHandshake /\ NobodyRunsTheDead
    BY <2>1 DEF Orderly, FrameOutlivesHandshake, NobodyRunsTheDead
  <2>4. RunnerIsKnown
    BY <2>1 DEF Orderly, OneLives, RunnerIsKnown, Ended
  <2>. QED
    BY <2>1, <2>2, <2>3, <2>4 DEF ThreadInOrder
<1>. QED
  BY <1>1, <1>2, LifeInit, PTL DEF ThreadSpec

-----------------------------------------------------------------------------
(***************************************************************************)
(* Open files and their buffers.                                           *)
(***************************************************************************)
OpenFile ==
  [open : BOOLEAN, at : Place, mode : {"r", "r+", "w", "a"}, buf : {0} \cup Handle,
   size : Nat, version : Nat, foreign : BOOLEAN]

FsTyped ==
  /\ platform \in {"windows", "linux"}
  /\ searchPaths \in Seq(Dir) /\ IsInjective(searchPaths)
  /\ disk \in [Place -> [size : -1 .. MaxSize, version : 0 .. MaxVersion]]
  /\ hd \in [Handle -> OpenFile]
  /\ block \in [Block -> {"free", "map", "pool", "pages"}]

(* A file that is open is there, and only an open one has a buffer.        *)
OpenOnes ==
  \A h \in Handle :
    /\ hd[h].open => Exists(hd[h].at)
    /\ hd[h].buf # 0 => hd[h].open

FsInv ==
  FsTyped /\ OpenOnes /\ BuffersOwned /\ OwnWriteInvalidates

LEMMA FsStarts == FsInit => FsInv
<1>. SUFFICES ASSUME FsInit PROVE FsInv
  OBVIOUS
<1>. USE FsAssumption
<1>1. Closed \in OpenFile /\ Closed.open = FALSE /\ Closed.buf = 0
  BY DEF Closed, OpenFile, Place
<1>2. searchPaths = <<>> /\ searchPaths \in Seq(Dir) /\ IsInjective(searchPaths)
  BY DEF FsInit, IsInjective
<1>3. FsTyped
  BY <1>1, <1>2 DEF FsInit, FsTyped, Block, Absent
<1>4. OpenOnes /\ BuffersOwned /\ OwnWriteInvalidates
  BY <1>1 DEF FsInit, OpenOnes, BuffersOwned, OwnWriteInvalidates
<1>. QED
  BY <1>3, <1>4 DEF FsInv

(* The list of search paths, where only they change.                       *)
LEMMA FsPaths ==
  ASSUME FsInv, searchPaths' \in Seq(Dir), IsInjective(searchPaths)',
         UNCHANGED <<platform, disk, hd, buffers>>
  PROVE  FsInv'
BY DEF FsInv, FsTyped, OpenOnes, BuffersOwned, OwnWriteInvalidates,
   buffers, Exists

LEMMA FsAdds ==
  ASSUME FsInv, NEW d \in Dir, AddSearchPath(d) \/ RemoveSearchPath(d) \/ RemoveAllSearchPaths
  PROVE  FsInv'
<1>1. searchPaths \in Seq(Dir) /\ IsInjective(searchPaths)
  BY DEF FsInv, FsTyped
<1>2. UNCHANGED <<platform, disk, hd, buffers>>
  BY DEF AddSearchPath, RemoveSearchPath, RemoveAllSearchPaths
<1>3. CASE searchPaths' = searchPaths
  BY <1>1, <1>2, <1>3, FsPaths
<1>4. CASE d \notin Range(searchPaths) /\ searchPaths' = Append(searchPaths, d)
  <2>1. /\ searchPaths' \in Seq(Dir) /\ Len(searchPaths) \in Nat
        /\ DOMAIN searchPaths = 1 .. Len(searchPaths)
        /\ DOMAIN searchPaths' = 1 .. Len(searchPaths) + 1
        /\ \A i \in 1 .. Len(searchPaths) : searchPaths'[i] = searchPaths[i]
        /\ searchPaths'[Len(searchPaths) + 1] = d
    BY <1>1, <1>4
  <2>2. \A i \in 1 .. Len(searchPaths) : searchPaths[i] # d
    BY <1>4, <2>1 DEF Range
  <2>3. IsInjective(searchPaths)'
    BY <1>1, <2>1, <2>2 DEF IsInjective
  <2>. QED
    BY <1>2, <2>1, <2>3, FsPaths
<1>5. CASE searchPaths' = <<>>
  BY <1>2, <1>5, FsPaths DEF IsInjective
<1>6. ASSUME NEW i \in DOMAIN searchPaths, searchPaths' = RemoveAt(searchPaths, i)
      PROVE  FsInv'
  <2>. DEFINE n == Len(searchPaths)
              a == SubSeq(searchPaths, 1, i - 1)
              b == SubSeq(searchPaths, i + 1, n)
  <2>1. n \in Nat /\ i \in 1 .. n /\ DOMAIN searchPaths = 1 .. n
    BY <1>1, <1>6
  <2>2. a \in Seq(Dir) /\ Len(a) = i - 1 /\ \A j \in 1 .. i - 1 : a[j] = searchPaths[j]
    <3>1. i - 1 \in Nat /\ i - 1 <= n
      BY <2>1
    <3>2. \A m \in Nat : m <= n =>
            /\ SubSeq(searchPaths, 1, m) \in Seq(Dir) /\ Len(SubSeq(searchPaths, 1, m)) = m
            /\ \A j \in 1 .. m : SubSeq(searchPaths, 1, m)[j] = searchPaths[j]
      BY <1>1
    <3>. QED
      BY <3>1, <3>2
  <2>3. b \in Seq(Dir) /\ Len(b) = n - i /\ \A j \in 1 .. n - i : b[j] = searchPaths[i + j]
    <3>1. \A m \in 1 .. n :
            /\ SubSeq(searchPaths, m + 1, n) \in Seq(Dir)
            /\ Len(SubSeq(searchPaths, m + 1, n)) = n - m
            /\ \A j \in 1 .. n - m : SubSeq(searchPaths, m + 1, n)[j] = searchPaths[m + j]
      BY <1>1
    <3>. QED
      BY <2>1, <3>1
  <2>4. searchPaths' = a \o b
    BY <1>6 DEF RemoveAt
  <2>. HIDE DEF a, b
  <2>5. /\ searchPaths' \in Seq(Dir) /\ DOMAIN searchPaths' = 1 .. n - 1
        /\ \A j \in 1 .. n - 1 :
             searchPaths'[j] = IF j < i THEN searchPaths[j] ELSE searchPaths[j + 1]
    <3>1. /\ a \o b \in Seq(Dir) /\ Len(a \o b) = Len(a) + Len(b)
          /\ \A j \in 1 .. Len(a) + Len(b) :
               (a \o b)[j] = IF j <= Len(a) THEN a[j] ELSE b[j - Len(a)]
      BY <2>2, <2>3, SMTT(30)
    <3>2. /\ Len(a) = i - 1 /\ Len(a) + Len(b) = n - 1
          /\ DOMAIN (a \o b) = 1 .. Len(a \o b)
      BY <2>1, <2>2, <2>3, <3>1
    <3>3. ASSUME NEW j \in 1 .. n - 1
          PROVE  (a \o b)[j] = IF j < i THEN searchPaths[j] ELSE searchPaths[j + 1]
      <4>1. (a \o b)[j] = IF j <= i - 1 THEN a[j] ELSE b[j - (i - 1)]
        BY <3>1, <3>2, <3>3
      <4>2. CASE j < i
        <5>1. j \in 1 .. i - 1 /\ j <= i - 1
          BY <2>1, <3>3, <4>2
        <5>. QED
          BY <2>2, <4>1, <4>2, <5>1
      <4>3. CASE ~(j < i)
        <5>1. /\ j - (i - 1) \in 1 .. n - i /\ ~(j <= i - 1)
              /\ i + (j - (i - 1)) = j + 1
          BY <2>1, <3>3, <4>3
        <5>. QED
          BY <2>3, <4>1, <4>3, <5>1
      <4>. QED
        BY <4>2, <4>3
    <3>. QED
      BY <2>4, <3>1, <3>2, <3>3
  <2>6. IsInjective(searchPaths)'
    <3>. DEFINE from(j) == IF j < i THEN j ELSE j + 1
    <3>1. \A j, m \in 1 .. n - 1 : from(j) \in 1 .. n /\ (from(j) = from(m) => j = m)
      BY <2>1
    <3>2. \A j \in 1 .. n - 1 : searchPaths'[j] = searchPaths[from(j)]
      BY <2>5
    <3>. HIDE DEF from
    <3>. QED
      BY <1>1, <2>1, <2>5, <3>1, <3>2 DEF IsInjective
  <2>. QED
    BY <1>2, <2>5, <2>6, FsPaths
<1>. QED
  BY <1>3, <1>4, <1>5, <1>6 DEF AddSearchPath, RemoveSearchPath, RemoveAllSearchPaths

(* Files that nobody has open are removed.                                 *)
LEMMA FsRemoves ==
  ASSUME FsInv, RemoveFile
  PROVE  FsInv'
<1>1. /\ FsTyped /\ OpenOnes /\ BuffersOwned /\ OwnWriteInvalidates
      /\ UNCHANGED <<platform, searchPaths, hd, block>>
      /\ disk' = [p \in Place |->
                    IF p \in {Here} \cup Joined /\ Deletable(p) THEN Absent ELSE disk[p]]
  BY DEF FsInv, RemoveFile, buffers
<1>2. disk' \in [Place -> [size : -1 .. MaxSize, version : 0 .. MaxVersion]]
  <2>1. Absent \in [size : -1 .. MaxSize, version : 0 .. MaxVersion]
    BY FsAssumption DEF Absent
  <2>. QED
    BY <1>1, <2>1 DEF FsTyped
<1>3. \A h \in Handle : hd[h].open => disk'[hd[h].at] = disk[hd[h].at]
  <2>1. \A h \in Handle : hd[h].at \in Place
    BY <1>1 DEF FsTyped, OpenFile
  <2>. QED
    BY <1>1, <2>1 DEF Deletable
<1>4. \A h \in Handle : hd[h].buf # 0 => hd[h].open
  BY <1>1 DEF OpenOnes
<1>5. FsTyped'
  BY <1>1, <1>2 DEF FsTyped
<1>6. OpenOnes' /\ OwnWriteInvalidates'
  BY <1>1, <1>3, <1>4 DEF OpenOnes, OwnWriteInvalidates, Exists
<1>7. BuffersOwned'
  BY <1>1 DEF BuffersOwned
<1>. QED
  BY <1>5, <1>6, <1>7 DEF FsInv

(* Through one handle: its own part changes, and what the others have of   *)
(* the file is marked as old where the file changes.                       *)
LEMMA OthersChange ==
  ASSUME FsTyped, NEW h \in Handle, NEW p \in Place, NEW f \in OpenFile,
         hd' = ChangedBy(h, p, [hd EXCEPT ![h] = f])
  PROVE  /\ hd' \in [Handle -> OpenFile] /\ hd'[h] = f
         /\ \A g \in Handle \ {h} :
              /\ hd'[g].open = hd[g].open /\ hd'[g].at = hd[g].at /\ hd'[g].buf = hd[g].buf
              /\ hd'[g].version = hd[g].version
              /\ hd'[g].foreign = (hd[g].foreign \/ (hd[g].open /\ hd[g].at = p))
<1>1. hd \in [Handle -> OpenFile]
  BY DEF FsTyped
<1>2. \A g \in Handle : [hd[g] EXCEPT !.foreign = TRUE] \in OpenFile
  BY <1>1 DEF OpenFile
<1>. DEFINE H == [hd EXCEPT ![h] = f]
<1>3. H \in [Handle -> OpenFile] /\ H[h] = f /\ \A g \in Handle \ {h} : H[g] = hd[g]
  BY <1>1
<1>. HIDE DEF H
<1>4. hd' = [g \in Handle |->
        IF g # h /\ H[g].open /\ H[g].at = p THEN [H[g] EXCEPT !.foreign = TRUE] ELSE H[g]]
  BY DEF ChangedBy, H
<1>5. /\ hd' \in [Handle -> OpenFile] /\ hd'[h] = f
      /\ \A g \in Handle \ {h} :
           hd'[g] = IF hd[g].open /\ hd[g].at = p THEN [hd[g] EXCEPT !.foreign = TRUE] ELSE hd[g]
  BY <1>2, <1>3, <1>4, ZenonT(60)
<1>6. ASSUME NEW g \in Handle \ {h}
      PROVE  /\ hd'[g].open = hd[g].open /\ hd'[g].at = hd[g].at /\ hd'[g].buf = hd[g].buf
             /\ hd'[g].version = hd[g].version
             /\ hd'[g].foreign = (hd[g].foreign \/ (hd[g].open /\ hd[g].at = p))
  <2>1. CASE hd[g].open /\ hd[g].at = p
    <3>1. hd'[g] = [hd[g] EXCEPT !.foreign = TRUE] /\ hd[g] \in OpenFile
      BY <1>1, <1>5, <2>1
    <3>. QED
      BY <2>1, <3>1 DEF OpenFile
  <2>2. CASE ~(hd[g].open /\ hd[g].at = p)
    <3>1. hd'[g] = hd[g] /\ hd[g] \in OpenFile
      BY <1>1, <1>5, <2>2
    <3>. QED
      BY <2>2, <3>1 DEF OpenFile
  <2>. QED
    BY <2>1, <2>2
<1>. QED
  BY <1>5, <1>6

(* One handle changes to f, which has the buffer b or none, and the file p *)
(* with it; buffers it had are freed.                                      *)
LEMMA OneHandle ==
  ASSUME FsInv, NEW h \in Handle, NEW f \in OpenFile, hd' \in [Handle -> OpenFile], hd'[h] = f,
         \A g \in Handle \ {h} :
           /\ hd'[g].open = hd[g].open /\ hd'[g].at = hd[g].at /\ hd'[g].buf = hd[g].buf
           /\ hd'[g].version = hd[g].version
           /\ hd[g].buf # 0 /\ ~hd'[g].foreign => hd'[g].version = disk'[hd[g].at].version,
         disk' \in [Place -> [size : -1 .. MaxSize, version : 0 .. MaxVersion]],
         f.open => disk'[f.at] # Absent,
         \A q \in Place : disk[q] # Absent => disk'[q] # Absent,
         f.buf # 0 => f.open,
         f.buf # 0 /\ ~f.foreign => f.version = disk'[f.at].version,
         block' \in [Block -> {"free", "map", "pool", "pages"}],
         f.buf # 0 => block'[f.buf] # "free" /\ \A g \in Handle \ {h} : hd[g].buf # f.buf,
         \A b \in Block : block'[b] # "free" => b = f.buf \/ (block[b] # "free" /\ hd[h].buf # b),
         \A g \in Handle \ {h} : hd[g].buf # 0 => block'[hd[g].buf] = block[hd[g].buf],
         UNCHANGED <<platform, searchPaths>>
  PROVE  FsInv'
<1>1. /\ FsTyped /\ OpenOnes /\ BuffersOwned /\ OwnWriteInvalidates
      /\ \A g \in Handle : hd[g].at \in Place
  BY DEF FsInv, FsTyped, OpenFile
<1>2. FsTyped'
  BY <1>1 DEF FsTyped
<1>3. OpenOnes'
  <2>1. \A g \in Handle : (hd[g].open => disk[hd[g].at] # Absent) /\ (hd[g].buf # 0 => hd[g].open)
    BY <1>1 DEF OpenOnes, Exists
  <2>2. ASSUME NEW g \in Handle
        PROVE  (hd'[g].open => disk'[hd'[g].at] # Absent) /\ (hd'[g].buf # 0 => hd'[g].open)
    <3>1. CASE g = h
      BY <3>1
    <3>2. CASE g # h
      BY <1>1, <2>1, <3>2
    <3>. QED
      BY <3>1, <3>2
  <2>3. Absent' = Absent
    BY DEF Absent
  <2>. QED
    BY <2>2, <2>3 DEF OpenOnes, Exists
<1>4. BuffersOwned'
  <2>1. ASSUME NEW b \in Block, block'[b] # "free"
        PROVE  \E g \in Handle : hd'[g].open /\ hd'[g].buf = b
    <3>1. CASE b = f.buf
      <4>1. b # 0
        BY FsAssumption DEF Block
      <4>. QED
        BY <3>1, <4>1
    <3>2. CASE block[b] # "free" /\ hd[h].buf # b
      <4>1. PICK g \in Handle : hd[g].open /\ hd[g].buf = b
        BY <1>1, <3>2 DEF BuffersOwned
      <4>. QED
        BY <3>2, <4>1
    <3>. QED
      BY <2>1, <3>1, <3>2
  <2>2. ASSUME NEW g \in Handle, hd'[g].buf # 0
        PROVE  /\ block'[hd'[g].buf] # "free"
               /\ \A i \in Handle \ {g} : hd'[i].buf # hd'[g].buf
    <3>1. CASE g = h
      BY <2>2, <3>1
    <3>2. CASE g # h
      BY <1>1, <2>2, <3>2 DEF BuffersOwned
    <3>. QED
      BY <3>1, <3>2
  <2>. QED
    BY <2>1, <2>2 DEF BuffersOwned
<1>5. OwnWriteInvalidates'
  BY DEF OwnWriteInvalidates
<1>. QED
  BY <1>2, <1>3, <1>4, <1>5 DEF FsInv

(* The buffer a handle had is free, and no other.                          *)
LEMMA BufferFreed ==
  ASSUME FsInv, NEW h \in Handle, FreeBuffer(h)
  PROVE  /\ block' \in [Block -> {"free", "map", "pool", "pages"}]
         /\ \A b \in Block : block'[b] # "free" => block[b] # "free" /\ hd[h].buf # b
         /\ \A g \in Handle \ {h} : hd[g].buf # 0 => block'[hd[g].buf] = block[hd[g].buf]
<1>1. /\ block \in [Block -> {"free", "map", "pool", "pages"}]
      /\ \A g \in Handle : hd[g].buf \in {0} \cup Block
      /\ \A g \in Handle \ {h} : hd[g].buf # 0 => hd[g].buf # hd[h].buf
      /\ 0 \notin Block
  BY FsAssumption DEF FsInv, FsTyped, OpenFile, BuffersOwned, Block
<1>2. CASE hd[h].buf = 0
  BY <1>1, <1>2 DEF FreeBuffer, buffers
<1>3. CASE hd[h].buf # 0
  <2>1. block' = [block EXCEPT ![hd[h].buf] = "free"] /\ hd[h].buf \in Block
    BY <1>1, <1>3 DEF FreeBuffer
  <2>. QED
    BY <1>1, <2>1
<1>. QED
  BY <1>2, <1>3

LEMMA FsCloses ==
  ASSUME FsInv, NEW h \in Handle, Close(h) \/ ReleaseReadBuffer(h)
  PROVE  FsInv'
<1>1. /\ FsTyped /\ OpenOnes /\ OwnWriteInvalidates /\ hd[h].open /\ FreeBuffer(h)
      /\ UNCHANGED <<platform, searchPaths, disk>>
  BY DEF FsInv, Close, ReleaseReadBuffer
<1>2. /\ hd \in [Handle -> OpenFile] /\ Exists(hd[h].at) /\ hd[h] \in OpenFile
      /\ disk \in [Place -> [size : -1 .. MaxSize, version : 0 .. MaxVersion]]
  BY <1>1 DEF FsTyped, OpenOnes
<1>3. PICK f \in OpenFile : hd' = [hd EXCEPT ![h] = f] /\ f.buf = 0 /\ (f.open => f.at = hd[h].at)
  <2>1. CASE Close(h)
    <3>1. Closed \in OpenFile /\ Closed.buf = 0 /\ ~Closed.open
      BY DEF Closed, OpenFile, Place
    <3>. QED
      BY <2>1, <3>1 DEF Close
  <2>2. CASE ReleaseReadBuffer(h)
    <3>. DEFINE f == NoBuffer(hd[h])
    <3>1. f \in OpenFile /\ f.buf = 0 /\ f.at = hd[h].at
      BY <1>2 DEF NoBuffer, OpenFile
    <3>. QED
      BY <2>2, <3>1 DEF ReleaseReadBuffer
  <2>. QED
    BY <2>1, <2>2
<1>4. hd' \in [Handle -> OpenFile] /\ hd'[h] = f /\ \A g \in Handle \ {h} : hd'[g] = hd[g]
  BY <1>2, <1>3
<1>5. f.open => disk'[f.at] # Absent
  BY <1>1, <1>2, <1>3 DEF Exists
<1>6. \A q \in Place : disk[q] # Absent => disk'[q] # Absent
  BY <1>1
<1>7. \A g \in Handle \ {h} : hd[g].buf # 0 /\ ~hd'[g].foreign => hd'[g].version = disk'[hd[g].at].version
  BY <1>1, <1>4 DEF OwnWriteInvalidates
<1>. QED
  BY <1>1, <1>2, <1>3, <1>4, <1>5, <1>6, <1>7, BufferFreed, OneHandle

LEMMA FsReads ==
  ASSUME FsInv, NEW h \in Handle, GetReadBuffer(h)
  PROVE  FsInv'
<1>1. /\ FsTyped /\ OpenOnes /\ BuffersOwned /\ OwnWriteInvalidates
      /\ hd[h].open /\ hd[h].buf = 0
      /\ UNCHANGED <<platform, searchPaths, disk, misfreed>>
  BY DEF FsInv, GetReadBuffer
<1>2. /\ hd \in [Handle -> OpenFile] /\ Exists(hd[h].at) /\ hd[h] \in OpenFile /\ hd[h].at \in Place
      /\ disk \in [Place -> [size : -1 .. MaxSize, version : 0 .. MaxVersion]]
      /\ block \in [Block -> {"free", "map", "pool", "pages"}]
      /\ disk[hd[h].at].version \in Nat
  BY <1>1, FsAssumption DEF FsTyped, OpenOnes, OpenFile
<1>3. PICK b \in Block, kind \in {"map", "pool", "pages"}, n \in Nat :
        block[b] = "free" /\ Cache(h, b, kind, n)
  <2>1. disk[hd[h].at].size \in Nat
    BY <1>2, FsAssumption DEF GetReadBuffer
  <2>. QED
    BY <2>1 DEF GetReadBuffer, AllocKinds
<1>. DEFINE f == [hd[h] EXCEPT !.buf = b, !.size = n, !.version = disk[hd[h].at].version,
                               !.foreign = FALSE]
<1>4. /\ f \in OpenFile /\ f.open /\ f.at = hd[h].at /\ f.buf = b
      /\ f.version = disk[hd[h].at].version
  BY <1>1, <1>2, <1>3 DEF OpenFile, Block
<1>5. hd' = [hd EXCEPT ![h] = f] /\ block' = [block EXCEPT ![b] = kind]
  BY <1>2, <1>3 DEF Cache
<1>. HIDE DEF f
<1>6. /\ hd' \in [Handle -> OpenFile] /\ hd'[h] = f /\ \A g \in Handle \ {h} : hd'[g] = hd[g]
      /\ block' \in [Block -> {"free", "map", "pool", "pages"}] /\ block'[b] # "free"
      /\ \A c \in Block : c # b => block'[c] = block[c]
  BY <1>2, <1>4, <1>5
<1>7. disk'[f.at] # Absent /\ \A q \in Place : disk[q] # Absent => disk'[q] # Absent
  BY <1>1, <1>2, <1>4 DEF Exists
<1>8. \A g \in Handle \ {h} : hd[g].buf # 0 /\ ~hd'[g].foreign => hd'[g].version = disk'[hd[g].at].version
  BY <1>1, <1>6 DEF OwnWriteInvalidates
<1>9. \A g \in Handle : hd[g].buf # 0 => hd[g].buf \in Block /\ hd[g].buf # b
  BY <1>1, <1>2, <1>3 DEF BuffersOwned, OpenFile, Block
<1>10. b # 0
  BY FsAssumption DEF Block
<1>11. \A g \in Handle \ {h} : hd[g].buf # f.buf
  BY <1>4, <1>9, <1>10
<1>12. \A c \in Block : block'[c] # "free" => c = f.buf \/ (block[c] # "free" /\ hd[h].buf # c)
  BY <1>1, <1>4, <1>6, FsAssumption DEF Block
<1>. QED
  BY <1>1, <1>2, <1>4, <1>6, <1>7, <1>8, <1>9, <1>10, <1>11, <1>12, OneHandle

LEMMA FsWrites ==
  ASSUME FsInv, NEW h \in Handle, Write(h)
  PROVE  FsInv'
<1>1. /\ FsTyped /\ OpenOnes /\ OwnWriteInvalidates /\ hd[h].open /\ FreeBuffer(h)
      /\ UNCHANGED <<platform, searchPaths>>
  BY DEF FsInv, FsTyped, Write
<1>2. /\ hd \in [Handle -> OpenFile] /\ hd[h] \in OpenFile
      /\ disk \in [Place -> [size : -1 .. MaxSize, version : 0 .. MaxVersion]]
  BY <1>1 DEF FsTyped
<1>3. PICK p \in Place : p = hd[h].at
  BY <1>2 DEF OpenFile
<1>4. PICK f \in OpenFile : f = NoBuffer(hd[h])
  BY <1>2, FsAssumption DEF NoBuffer, OpenFile
<1>5. f.open /\ f.at = p /\ f.buf = 0
  BY <1>1, <1>2, <1>3, <1>4 DEF NoBuffer, OpenFile
<1>6. hd' = ChangedBy(h, p, [hd EXCEPT ![h] = f]) /\ disk[p].version < MaxVersion
  BY <1>3, <1>4 DEF Write
<1>7. PICK size \in 1 .. MaxSize :
        disk' = [disk EXCEPT ![p] = [size |-> size, version |-> disk[p].version + 1]]
  BY <1>3 DEF Write
<1>8. [size |-> size, version |-> disk[p].version + 1] \in [size : -1 .. MaxSize, version : 0 .. MaxVersion]
  BY <1>2, <1>6, FsAssumption
<1>9. /\ disk' \in [Place -> [size : -1 .. MaxSize, version : 0 .. MaxVersion]]
      /\ disk'[p].size = size /\ \A q \in Place : q # p => disk'[q] = disk[q]
  BY <1>2, <1>7, <1>8
<1>10. /\ hd' \in [Handle -> OpenFile] /\ hd'[h] = f
       /\ \A g \in Handle \ {h} :
            /\ hd'[g].open = hd[g].open /\ hd'[g].at = hd[g].at /\ hd'[g].buf = hd[g].buf
            /\ hd'[g].version = hd[g].version
            /\ hd'[g].foreign = (hd[g].foreign \/ (hd[g].open /\ hd[g].at = p))
  BY <1>1, <1>6, OthersChange
<1>11. disk'[p] # Absent /\ \A q \in Place : disk[q] # Absent => disk'[q] # Absent
  <2>1. disk'[p] # Absent
    BY <1>9 DEF Absent
  <2>. QED
    BY <1>9, <2>1
<1>12. disk'[f.at] # Absent
  BY <1>5, <1>11
<1>13. \A g \in Handle \ {h} : hd[g].buf # 0 /\ ~hd'[g].foreign => hd'[g].version = disk'[hd[g].at].version
  <2>1. \A g \in Handle : hd[g].buf # 0 => hd[g].open /\ hd[g].at \in Place
    BY <1>1, <1>2 DEF OpenOnes, OpenFile
  <2>. QED
    BY <1>1, <1>9, <1>10, <2>1, ZenonT(60) DEF OwnWriteInvalidates
<1>. QED
  BY <1>1, <1>5, <1>9, <1>10, <1>11, <1>12, <1>13, BufferFreed, OneHandle

LEMMA FsOpens ==
  ASSUME FsInv, NEW mode \in {"r", "r+", "w", "a"}, Open(mode)
  PROVE  FsInv'
<1>1. /\ FsTyped /\ OpenOnes /\ BuffersOwned /\ OwnWriteInvalidates
      /\ UNCHANGED <<platform, searchPaths, block>>
  BY DEF FsInv, Open, buffers
<1>2. PICK h \in Handle, p \in Place :
        /\ ~hd[h].open
        /\ LET f == [Closed EXCEPT !.open = TRUE, !.at = p, !.mode = mode] IN
           \/ /\ Creates(mode) \/ Exists(p)
              /\ disk' = IF Exists(p) THEN disk ELSE [disk EXCEPT ![p] = NewFile]
              /\ hd' = [hd EXCEPT ![h] = f]
           \/ /\ disk[p].version < MaxVersion
              /\ disk' = [disk EXCEPT ![p] = [size |-> 0, version |-> disk[p].version + 1]]
              /\ hd' = ChangedBy(h, p, [hd EXCEPT ![h] = f])
  BY DEF Open
<1>3. PICK f \in OpenFile :
        /\ f.open /\ f.at = p /\ f.buf = 0
        /\ f = [Closed EXCEPT !.open = TRUE, !.at = p, !.mode = mode]
  BY DEF Closed, OpenFile, Place
<1>4. /\ hd \in [Handle -> OpenFile] /\ hd[h].buf = 0
      /\ disk \in [Place -> [size : -1 .. MaxSize, version : 0 .. MaxVersion]]
      /\ block \in [Block -> {"free", "map", "pool", "pages"}]
      /\ \A g \in Handle : hd[g].at \in Place /\ (hd[g].buf # 0 => hd[g].open)
      /\ \A g \in Handle : hd[g].open => disk[hd[g].at] # Absent
  BY <1>1, <1>2 DEF FsTyped, OpenOnes, OpenFile, Exists
<1>5. /\ disk' \in [Place -> [size : -1 .. MaxSize, version : 0 .. MaxVersion]]
      /\ disk'[p] # Absent /\ \A q \in Place : q # p => disk'[q] = disk[q]
      /\ hd' \in [Handle -> OpenFile] /\ hd'[h] = f
      /\ \A g \in Handle \ {h} :
           /\ hd'[g].open = hd[g].open /\ hd'[g].at = hd[g].at /\ hd'[g].buf = hd[g].buf
           /\ hd'[g].version = hd[g].version
           /\ hd[g].buf # 0 /\ ~hd'[g].foreign =>
                ~hd[g].foreign /\ disk'[hd[g].at].version = disk[hd[g].at].version
  <2>1. CASE /\ disk' = (IF Exists(p) THEN disk ELSE [disk EXCEPT ![p] = NewFile])
             /\ hd' = [hd EXCEPT ![h] = f]
    <3>1. /\ NewFile \in [size : -1 .. MaxSize, version : 0 .. MaxVersion] /\ NewFile # Absent
      <4>1. NewFile.size # Absent.size
        BY DEF NewFile, Absent
      <4>. QED
        BY <4>1, FsAssumption DEF NewFile
    <3>2. /\ disk' \in [Place -> [size : -1 .. MaxSize, version : 0 .. MaxVersion]]
          /\ disk'[p] # Absent /\ \A q \in Place : q # p => disk'[q] = disk[q]
          /\ \A q \in Place : disk[q] # Absent => disk'[q] = disk[q]
      BY <1>4, <2>1, <3>1 DEF Exists
    <3>3. hd' \in [Handle -> OpenFile] /\ hd'[h] = f /\ \A g \in Handle \ {h} : hd'[g] = hd[g]
      BY <1>3, <1>4, <2>1
    <3>. QED
      BY <1>4, <3>2, <3>3
  <2>2. CASE /\ disk[p].version < MaxVersion
             /\ disk' = [disk EXCEPT ![p] = [size |-> 0, version |-> disk[p].version + 1]]
             /\ hd' = ChangedBy(h, p, [hd EXCEPT ![h] = f])
    <3>. DEFINE e == [size |-> 0, version |-> disk[p].version + 1]
    <3>1. e \in [size : -1 .. MaxSize, version : 0 .. MaxVersion] /\ e # Absent
      <4>1. e.size # Absent.size
        BY DEF Absent
      <4>. QED
        BY <1>4, <2>2, <4>1, FsAssumption
    <3>. HIDE DEF e
    <3>2. /\ disk' \in [Place -> [size : -1 .. MaxSize, version : 0 .. MaxVersion]]
          /\ disk'[p] # Absent /\ \A q \in Place : q # p => disk'[q] = disk[q]
      BY <1>4, <2>2, <3>1 DEF e
    <3>3. /\ hd' \in [Handle -> OpenFile] /\ hd'[h] = f
          /\ \A g \in Handle \ {h} :
               /\ hd'[g].open = hd[g].open /\ hd'[g].at = hd[g].at /\ hd'[g].buf = hd[g].buf
               /\ hd'[g].version = hd[g].version
               /\ hd'[g].foreign = (hd[g].foreign \/ (hd[g].open /\ hd[g].at = p))
      BY <1>1, <1>3, <2>2, OthersChange
    <3>. QED
      BY <1>4, <3>2, <3>3
  <2>. QED
    BY <1>2, <1>3, <2>1, <2>2
<1>6. disk'[f.at] # Absent /\ \A q \in Place : disk[q] # Absent => disk'[q] # Absent
  BY <1>3, <1>5
<1>7. \A g \in Handle \ {h} : hd[g].buf # 0 /\ ~hd'[g].foreign => hd'[g].version = disk'[hd[g].at].version
  BY <1>1, <1>5 DEF OwnWriteInvalidates
<1>8. /\ block' \in [Block -> {"free", "map", "pool", "pages"}]
      /\ \A b \in Block : block'[b] # "free" => b = f.buf \/ (block[b] # "free" /\ hd[h].buf # b)
      /\ \A g \in Handle \ {h} : hd[g].buf # 0 => block'[hd[g].buf] = block[hd[g].buf]
  BY <1>1, <1>4, FsAssumption DEF Block
<1>. QED
  BY <1>1, <1>3, <1>5, <1>6, <1>7, <1>8, OneHandle, ZenonT(60)

(* Every read buffer belongs to one open file and goes with it; a handle's *)
(* own writes drop what it has cached, so that it never shows an older     *)
(* file: for any number of handles, search paths, versions and sizes.      *)
THEOREM BuffersAlwaysInOrder == FsSpec => []BuffersInOrder
<1>1. FsInv /\ [FsNext]_fsVars => FsInv'
  <2>. SUFFICES ASSUME FsInv, [FsNext]_fsVars PROVE FsInv'
    OBVIOUS
  <2>1. CASE UNCHANGED fsVars
    <3>1. UNCHANGED <<platform, searchPaths, disk, hd, block>>
      BY <2>1 DEF fsVars, buffers
    <3>. QED
      BY <3>1 DEF FsInv, FsTyped, OpenOnes, BuffersOwned, OwnWriteInvalidates,
         Exists, Absent
  <2>2. CASE RemoveAllSearchPaths
    <3>1. searchPaths' = <<>> /\ UNCHANGED <<platform, disk, hd, buffers>>
      BY <2>2 DEF RemoveAllSearchPaths
    <3>2. searchPaths' \in Seq(Dir) /\ IsInjective(searchPaths)'
      BY <3>1 DEF IsInjective
    <3>. QED
      BY <3>1, <3>2, FsPaths
  <2>. QED
    BY <2>1, <2>2, FsAdds, FsRemoves, FsCloses, FsReads, FsWrites, FsOpens DEF FsNext
<1>2. FsInv => BuffersInOrder
  <2>. SUFFICES ASSUME FsInv PROVE BuffersInOrder
    OBVIOUS
  <2>1. /\ FsTyped /\ OpenOnes /\ BuffersOwned /\ OwnWriteInvalidates
    BY DEF FsInv
  <2>2. Range(searchPaths) \subseteq Dir
    BY <2>1 DEF FsTyped, Range
  <2>3. FsTypeOK
    BY <2>1, <2>2 DEF FsTyped, OpenOnes, FsTypeOK
  <2>. QED
    BY <2>1, <2>3 DEF BuffersInOrder
<1>. QED
  BY <1>1, <1>2, FsStarts, PTL DEF FsSpec

-----------------------------------------------------------------------------
(***************************************************************************)
(* Spew groups.  The search halves its range until it finds the name or    *)
(* the range is empty: what it answers is shown by induction over the      *)
(* range's length, for any array that is sorted.                           *)
(***************************************************************************)
SpewGroup == [name : Nat, to : Levels]

SortedNames(s) == \A i, j \in 1 .. Len(s) : i <= j => s[i].name <= s[j].name

(* What a step of the search does with the answers f of shorter ones.      *)
SearchStep(name, f, range) ==
  LET lo == range[1]
      hi == range[2]
      mid == Middle(lo, hi)
  IN IF hi < lo THEN Outcome(FALSE, lo)
     ELSE IF stored[mid].name = name THEN Outcome(TRUE, mid)
     ELSE IF name > stored[mid].name THEN f[<<mid + 1, hi>>]
     ELSE f[<<lo, mid - 1>>]

SearchRanges == (1 .. Len(stored) + 1) \X (0 .. Len(stored))

(* Names can be compared.                                                  *)
LEMMA StoredNames ==
  ASSUME stored \in Seq(SpewGroup)
  PROVE  /\ Len(stored) \in Nat
         /\ \A i \in 1 .. Len(stored) : stored[i] \in SpewGroup /\ stored[i].name \in Nat
<1>1. Len(stored) \in Nat /\ \A i \in 1 .. Len(stored) : stored[i] \in SpewGroup
  OBVIOUS
<1>2. \A g \in SpewGroup : g.name \in Nat
  BY DEF SpewGroup
<1>. QED
  BY <1>1, <1>2

(* A half of a range that is not empty is a shorter range.                 *)
LEMMA Halves ==
  ASSUME stored \in Seq(SpewGroup), NEW r \in SearchRanges, ~ r[2] < r[1]
  PROVE  LET mid == Middle(r[1], r[2]) IN
         /\ mid \in r[1] .. r[2] /\ mid \in 1 .. Len(stored)
         /\ <<mid + 1, r[2]>> \in SearchRanges /\ <<r[1], mid - 1>> \in SearchRanges
<1>1. Len(stored) \in Nat /\ r[1] \in 1 .. Len(stored) + 1 /\ r[2] \in 0 .. Len(stored)
  BY DEF SearchRanges
<1>2. Middle(r[1], r[2]) \in r[1] .. r[2]
  BY <1>1 DEF Middle
<1>. HIDE DEF Middle
<1>. QED
  BY <1>1, <1>2 DEF SearchRanges

(* The recursion defines a function.                                       *)
LEMMA SearchExists ==
  ASSUME stored \in Seq(SpewGroup), NEW name \in Nat
  PROVE  \E f : f = [r \in SearchRanges |-> SearchStep(name, f, r)]
<1>. DEFINE Size(r) == r[2] - r[1] + 1
            T == {k \in Nat : \E f : /\ f = [r \in SearchRanges |-> f[r]]
                                     /\ \A r \in SearchRanges : Size(r) < k => f[r] = SearchStep(name, f, r)}
<1>0. Len(stored) \in Nat
      /\ \A r \in SearchRanges : r = <<r[1], r[2]>> /\ r[1] \in 1 .. Len(stored) + 1 /\ r[2] \in 0 .. Len(stored)
  BY DEF SearchRanges
<1>1. 0 \in T
  <2>. DEFINE f == [r \in SearchRanges |-> Outcome(FALSE, r[1])]
  <2>1. ASSUME NEW r \in SearchRanges, Size(r) < 0 PROVE f[r] = SearchStep(name, f, r)
    <3>1. r[2] < r[1]
      BY <1>0, <2>1
    <3>. QED
      BY <3>1 DEF SearchStep
  <2>. QED
    BY <2>1
<1>2. ASSUME NEW k \in T PROVE k + 1 \in T
  <2>1. PICK f : /\ f = [r \in SearchRanges |-> f[r]]
                 /\ \A r \in SearchRanges : Size(r) < k => f[r] = SearchStep(name, f, r)
    OBVIOUS
  <2>. DEFINE g == [r \in SearchRanges |-> SearchStep(name, f, r)]
  <2>2. ASSUME NEW r \in SearchRanges, Size(r) < k + 1 PROVE g[r] = SearchStep(name, g, r)
    <3>. DEFINE mid == Middle(r[1], r[2])
    <3>1. CASE r[2] < r[1]
      BY <3>1 DEF SearchStep
    <3>2. CASE ~ r[2] < r[1]
      <4>1. /\ mid \in r[1] .. r[2] /\ mid \in 1 .. Len(stored)
            /\ <<mid + 1, r[2]>> \in SearchRanges /\ <<r[1], mid - 1>> \in SearchRanges
        BY <3>2, Halves
      <4>2. Size(<<mid + 1, r[2]>>) < k /\ Size(<<r[1], mid - 1>>) < k
        BY <1>0, <2>2, <4>1, SMTT(30)
      <4>3. g[<<mid + 1, r[2]>>] = f[<<mid + 1, r[2]>>] /\ g[<<r[1], mid - 1>>] = f[<<r[1], mid - 1>>]
        BY <2>1, <4>1, <4>2
      <4>4. g[r] = SearchStep(name, f, r)
        OBVIOUS
      <4>. HIDE DEF g
      <4>. QED
        BY <4>3, <4>4 DEF SearchStep
    <3>. QED
      BY <3>1, <3>2
  <2>3. g = [r \in SearchRanges |-> g[r]]
    OBVIOUS
  <2>. HIDE DEF g
  <2>. QED
    BY <2>2, <2>3
<1>3. T = Nat
  <2>. HIDE DEF T
  <2>1. T \in SUBSET Nat
    BY DEF T
  <2>. QED
    BY <1>1, <1>2, <2>1, Induct
<1>4. Len(stored) + 1 \in T
  <2>. HIDE DEF T
  <2>. QED
    BY <1>0, <1>3
<1>5. PICK f : /\ f = [r \in SearchRanges |-> f[r]]
               /\ \A r \in SearchRanges : Size(r) < Len(stored) + 1 => f[r] = SearchStep(name, f, r)
  BY <1>4
<1>6. \A r \in SearchRanges : Size(r) < Len(stored) + 1 
  BY <1>0
<1>7. \A r \in SearchRanges : f[r] = SearchStep(name, f, r)
  BY <1>5, <1>6
<1>8. f = [r \in SearchRanges |-> SearchStep(name, f, r)]
  BY <1>5, <1>7
<1>. QED
  BY <1>8

(* The search finds the name if there is one.                              *)
LEMMA SearchIs ==
  ASSUME stored \in Seq(SpewGroup), SortedNames(stored), NEW name \in Nat
  PROVE  LET hit == FindSpewGroup(name) IN
         /\ hit.found \in BOOLEAN
         /\ hit.found => hit.index \in 1 .. Len(stored) /\ stored[hit.index].name = name
         /\ ~hit.found => \A i \in 1 .. Len(stored) : stored[i].name # name
<1>. DEFINE F == CHOOSE f : f = [r \in SearchRanges |-> SearchStep(name, f, r)]
<1>1. F = [r \in SearchRanges |-> SearchStep(name, F, r)]
  BY SearchExists
<1>2. FindSpewGroup(name) = F[<<1, Len(stored)>>]
  BY DEF FindSpewGroup, SearchStep, SearchRanges
<1>. HIDE DEF F
<1>. DEFINE Right(r) ==
       /\ F[r].found \in BOOLEAN
       /\ F[r].found => F[r].index \in 1 .. Len(stored) /\ stored[F[r].index].name = name
       /\ ~F[r].found => \A i \in r[1] .. r[2] : stored[i].name # name
     Size(r) == r[2] - r[1] + 1
     T == {k \in Nat : \A r \in SearchRanges : Size(r) < k => Right(r)}
<1>0. Len(stored) \in Nat
      /\ \A r \in SearchRanges : r = <<r[1], r[2]>> /\ r[1] \in 1 .. Len(stored) + 1 /\ r[2] \in 0 .. Len(stored)
  BY DEF SearchRanges
<1>3. ASSUME NEW r \in SearchRanges, r[2] < r[1] PROVE Right(r)
  <2>1. F[r] = Outcome(FALSE, r[1])
    BY <1>1, <1>3 DEF SearchStep
  <2>2. r[1] .. r[2] = {}
    BY <1>0, <1>3
  <2>. QED
    BY <2>1, <2>2 DEF Outcome
<1>4. 0 \in T
  <2>1. \A r \in SearchRanges : Size(r) < 0 => r[2] < r[1]
    BY <1>0
  <2>. HIDE DEF Right
  <2>. QED
    BY <1>3, <2>1
<1>5. ASSUME NEW k \in T PROVE k + 1 \in T
  <2>. SUFFICES ASSUME NEW r \in SearchRanges, Size(r) < k + 1, ~ r[2] < r[1] PROVE Right(r)
    <3>. HIDE DEF Right
    <3>. QED
      BY <1>3
  <2>. DEFINE mid == Middle(r[1], r[2])
  <2>1. /\ mid \in r[1] .. r[2] /\ mid \in 1 .. Len(stored)
        /\ <<mid + 1, r[2]>> \in SearchRanges /\ <<r[1], mid - 1>> \in SearchRanges
    BY Halves
  <2>2. Size(<<mid + 1, r[2]>>) < k /\ Size(<<r[1], mid - 1>>) < k
    BY <1>0, <2>1, SMTT(30)
  <2>3. Right(<<mid + 1, r[2]>>) /\ Right(<<r[1], mid - 1>>)
    <3>. HIDE DEF Right
    <3>. QED
      BY <2>1, <2>2
  <2>4. F[r] = IF stored[mid].name = name THEN Outcome(TRUE, mid)
               ELSE IF name > stored[mid].name THEN F[<<mid + 1, r[2]>>]
               ELSE F[<<r[1], mid - 1>>]
    BY <1>1 DEF SearchStep
  <2>. HIDE DEF mid
  <2>5. r[1] \in 1 .. Len(stored) + 1 /\ r[2] \in 0 .. Len(stored)
        /\ \A i \in 1 .. Len(stored) : stored[i].name \in Nat
    BY <1>0, StoredNames
  <2>9. stored[mid].name \in Nat /\ mid \in Nat
    BY <2>1, <2>5
  <2>6. CASE stored[mid].name = name
    BY <2>1, <2>4, <2>6 DEF Outcome
  <2>7. CASE name > stored[mid].name
    <3>1. F[r] = F[<<mid + 1, r[2]>>]
      <4>1. stored[mid].name # name /\ (name > stored[mid].name <=> TRUE)
        BY <2>9, <2>7
      <4>. QED
        BY <2>4, <4>1
    <3>2. \A i \in r[1] .. mid : stored[i].name # name
      <4>1. ASSUME NEW i \in r[1] .. mid PROVE stored[i].name <= stored[mid].name
        <5>1. i \in 1 .. Len(stored) /\ i <= mid
          BY <1>0, <2>1, <2>5
        <5>. QED
          BY <2>1, <5>1 DEF SortedNames
      <4>2. \A i \in r[1] .. mid : i \in 1 .. Len(stored)
        BY <1>0, <2>1, <2>5
      <4>. QED
        BY <2>5, <2>7, <2>9, <4>1, <4>2
    <3>. QED
      BY <2>1, <2>3, <2>5, <3>1, <3>2
  <2>8. CASE name < stored[mid].name
    <3>1. F[r] = F[<<r[1], mid - 1>>]
      <4>1. stored[mid].name # name /\ (name > stored[mid].name <=> FALSE)
        BY <2>9, <2>8
      <4>. QED
        BY <2>4, <4>1
    <3>2. \A i \in mid .. r[2] : stored[i].name # name
      <4>1. ASSUME NEW i \in mid .. r[2] PROVE stored[mid].name <= stored[i].name
        <5>1. i \in 1 .. Len(stored) /\ mid <= i
          BY <1>0, <2>1, <2>5
        <5>. QED
          BY <2>1, <5>1 DEF SortedNames
      <4>2. \A i \in mid .. r[2] : i \in 1 .. Len(stored)
        BY <1>0, <2>1, <2>5
      <4>. QED
        BY <2>5, <2>8, <2>9, <4>1, <4>2
    <3>. QED
      BY <2>1, <2>3, <2>5, <3>1, <3>2
  <2>. QED
    BY <2>1, <2>5, <2>6, <2>7, <2>8
<1>6. T = Nat
  <2>. HIDE DEF T
  <2>1. T \in SUBSET Nat
    BY DEF T
  <2>. QED
    BY <1>4, <1>5, <2>1, Induct
<1>7. <<1, Len(stored)>> \in SearchRanges /\ Size(<<1, Len(stored)>>) < Len(stored) + 1 /\ Len(stored) + 1 \in T
  <2>. HIDE DEF T
  <2>. QED
    BY <1>0, <1>6 DEF SearchRanges
<1>8. Right(<<1, Len(stored)>>)
  <2>. HIDE DEF Right
  <2>. QED
    BY <1>7
<1>. QED
  BY <1>2, <1>8

(* There is a first group that does not sort before the name, or the end.  *)
LEMMA PlaceIs ==
  ASSUME stored \in Seq(SpewGroup), NEW name \in Nat
  PROVE  /\ PlaceFor(name) \in 1 .. Len(stored) + 1
         /\ \A j \in 1 .. PlaceFor(name) - 1 : stored[j].name < name
         /\ PlaceFor(name) <= Len(stored) => stored[PlaceFor(name)].name >= name
<1>. DEFINE T == {i \in 1 .. Len(stored) + 1 : i <= Len(stored) => stored[i].name >= name}
<1>1. Len(stored) + 1 \in T /\ T \in SUBSET Nat /\ T # {}
  <2>1. Len(stored) \in Nat
    OBVIOUS
  <2>. QED
    BY <2>1
<1>2. PICK i \in T : \A y \in T : i <= y
  <2>. HIDE DEF T
  <2>. QED
    BY <1>1, Least
<1>3. \A j \in 1 .. Len(stored) : stored[j].name \in Nat
  BY StoredNames
<1>4. \A j \in 1 .. i - 1 : stored[j].name < name
  BY <1>2, <1>3
<1>. QED
  BY <1>2, <1>4 DEF PlaceFor

(* What InsertAt makes of a sequence.                                      *)
LEMMA Inserted ==
  ASSUME NEW S, NEW s \in Seq(S), NEW i \in 1 .. Len(s) + 1, NEW e \in S
  PROVE  /\ InsertAt(s, i, e) \in Seq(S) /\ Len(InsertAt(s, i, e)) = Len(s) + 1
         /\ InsertAt(s, i, e)[i] = e
         /\ \A j \in 1 .. i - 1 : InsertAt(s, i, e)[j] = s[j]
         /\ \A j \in i + 1 .. Len(s) + 1 : InsertAt(s, i, e)[j] = s[j - 1]
<1>. DEFINE a == SubSeq(s, 1, i - 1)
            b == SubSeq(s, i, Len(s))
<1>1. /\ a \in Seq(S) /\ Len(a) = i - 1 /\ \A j \in 1 .. i - 1 : a[j] = s[j]
  OBVIOUS
<1>2. /\ b \in Seq(S) /\ Len(b) = Len(s) - i + 1 /\ \A j \in 1 .. Len(s) - i + 1 : b[j] = s[i + j - 1]
  OBVIOUS
<1>3. InsertAt(s, i, e) = (a \o <<e>>) \o b
  BY DEF InsertAt
<1>. HIDE DEF a, b
<1>. DEFINE c == a \o <<e>>
<1>4. c \in Seq(S) /\ Len(c) = i /\ c[i] = e /\ \A j \in 1 .. i - 1 : c[j] = s[j]
  BY <1>1
<1>8. InsertAt(s, i, e) = c \o b
  BY <1>3
<1>. HIDE DEF c
<1>5. c \o b \in Seq(S) /\ Len(c \o b) = Len(s) + 1
  <2>1. c \o b \in Seq(S) /\ Len(c \o b) = Len(c) + Len(b)
    <3>1. c \in Seq(S) /\ b \in Seq(S)
      BY <1>2, <1>4
    <3>2. \A x, y \in Seq(S) : x \o y \in Seq(S) /\ Len(x \o y) = Len(x) + Len(y)
      OBVIOUS
    <3>. HIDE DEF c
    <3>. QED
      BY <3>1, <3>2
  <2>2. Len(s) \in Nat /\ Len(c) + Len(b) = i + (Len(s) - i + 1)
    BY <1>2, <1>4
  <2>. QED
    BY <2>1, <2>2
<1>6. \A j \in 1 .. i : (c \o b)[j] = c[j]
  BY <1>2, <1>4
<1>7. ASSUME NEW j \in i + 1 .. Len(s) + 1 PROVE (c \o b)[j] = s[j - 1]
  <2>1. (c \o b)[j] = b[j - i] /\ j - i \in 1 .. Len(s) - i + 1
    BY <1>2, <1>4
  <2>2. i + (j - i) - 1 = j - 1
    OBVIOUS
  <2>. QED
    BY <1>2, <2>1, <2>2
<1>9. (c \o b)[i] = e /\ \A j \in 1 .. i - 1 : (c \o b)[j] = s[j]
  BY <1>4, <1>6
<1>. QED
  BY <1>5, <1>7, <1>8, <1>9

-----------------------------------------------------------------------------
SpewTyped ==
  /\ stored \in Seq(SpewGroup)
  /\ changing \in [Spewer -> [name : GroupName \cup {0}, to : Levels \cup {None}]]
  /\ wanted \in [GroupName -> Levels \cup {None}]

(* A change that is due has levels.                                        *)
ChangesDue == \A t \in Spewer : changing[t].name # 0 => changing[t].to \in Levels

(* The array is sorted by names that were cut.                             *)
CutSorted ==
  /\ SortedNames(stored)
  /\ \A i \in 1 .. Len(stored) : \E m \in GroupName : stored[i].name = Cut[m]

(* Nobody has used a name that is too long.                                *)
OnlyShort == \A n \in GroupName : ~Short(n) => wanted[n] = None

(* One group for each name that was given levels, with these.              *)
StoredAsWanted ==
  /\ \A i, j \in 1 .. Len(stored) : stored[i].name = stored[j].name => i = j
  /\ \A i \in 1 .. Len(stored) : \E n \in GroupName :
       wanted[n] # None /\ stored[i] = [name |-> n, to |-> wanted[n]]
  /\ \A n \in GroupName : wanted[n] # None => \E i \in 1 .. Len(stored) : stored[i].name = n

SpewInv == SpewTyped /\ ChangesDue /\ CutSorted /\ (OnlyShort => StoredAsWanted)

(* None stands beside the levels.                                          *)
LEMMA LevelsAreGiven == None \notin Levels
BY SpewAssumption DEF None, Levels

(* Levels of a group that is there change in place.                        *)
LEMMA GiveFound ==
  ASSUME SpewInv, NEW name \in GroupName, NEW to \in Levels,
         FindSpewGroup(name).found, Give(name, to)
  PROVE  stored' \in Seq(SpewGroup) /\ CutSorted' /\ (OnlyShort => StoredAsWanted)'
<1>. DEFINE k == FindSpewGroup(name).index
<1>0. stored \in Seq(SpewGroup) /\ name \in Nat /\ SortedNames(stored)
      /\ wanted \in [GroupName -> Levels \cup {None}]
  BY SpewAssumption DEF SpewInv, SpewTyped, CutSorted
<1>1. k \in 1 .. Len(stored) /\ stored[k].name = name
  BY <1>0, SearchIs
<1>2. stored' = [stored EXCEPT ![k].to = to] /\ wanted' = [wanted EXCEPT ![name] = to]
  BY DEF Give
<1>. HIDE DEF k
<1>3. Len(stored) \in Nat /\ \A i \in 1 .. Len(stored) : stored[i] \in SpewGroup
  BY <1>0
<1>4. stored[k] = [name |-> name, to |-> stored[k].to]
  BY <1>1, <1>3 DEF SpewGroup
<1>5. stored' = [stored EXCEPT ![k] = [name |-> name, to |-> to]]
  <2>1. stored' = [stored EXCEPT ![k] = [stored[k] EXCEPT !.to = to]]
    BY <1>2
  <2>2. PICK x : stored[k] = [name |-> name, to |-> x]
    BY <1>4
  <2>3. [stored[k] EXCEPT !.to = to] = [name |-> name, to |-> to]
    BY <2>2
  <2>. QED
    BY <2>1, <2>3
<1>6. [name |-> name, to |-> to] \in SpewGroup
  BY <1>0 DEF SpewGroup
<1>7. /\ stored' \in Seq(SpewGroup) /\ Len(stored') = Len(stored)
      /\ \A i \in 1 .. Len(stored) :
           stored'[i] = IF i = k THEN [name |-> name, to |-> to] ELSE stored[i]
  BY <1>0, <1>1, <1>5, <1>6
<1>8. \A i \in 1 .. Len(stored) : stored'[i].name = stored[i].name
  BY <1>1, <1>7
<1>9. CutSorted'
  BY <1>7, <1>8 DEF SpewInv, CutSorted, SortedNames
<1>10. ASSUME OnlyShort' PROVE StoredAsWanted'
  <2>1. OnlyShort
    BY <1>0, <1>2, <1>10, LevelsAreGiven DEF OnlyShort, Short
  <2>2. StoredAsWanted
    BY <2>1 DEF SpewInv
  <2>3. /\ wanted'[name] = to /\ to # None
        /\ \A n \in GroupName : n # name => wanted'[n] = wanted[n]
    BY <1>0, <1>2, LevelsAreGiven
  <2>4. \A i, j \in 1 .. Len(stored) : stored'[i].name = stored'[j].name => i = j
    BY <1>8, <2>2 DEF StoredAsWanted
  <2>5. ASSUME NEW i \in 1 .. Len(stored)
        PROVE  \E n \in GroupName :
                 wanted'[n] # None /\ stored'[i] = [name |-> n, to |-> wanted'[n]]
    <3>1. CASE i = k
      BY <1>7, <2>3, <3>1
    <3>2. CASE i # k
      <4>1. PICK n \in GroupName : wanted[n] # None /\ stored[i] = [name |-> n, to |-> wanted[n]]
        BY <2>2 DEF StoredAsWanted
      <4>2. n # name
        BY <1>1, <2>2, <3>2, <4>1 DEF StoredAsWanted
      <4>. QED
        BY <1>7, <2>3, <3>2, <4>1, <4>2
    <3>. QED
      BY <3>1, <3>2
  <2>6. \A n \in GroupName : wanted'[n] # None => \E i \in 1 .. Len(stored) : stored'[i].name = n
    BY <1>1, <1>8, <2>2, <2>3 DEF StoredAsWanted
  <2>. QED
    BY <1>7, <2>4, <2>5, <2>6 DEF StoredAsWanted
<1>. QED
  BY <1>7, <1>9, <1>10

(* A new group goes where the array stays sorted.                          *)
LEMMA GiveNew ==
  ASSUME SpewInv, NEW name \in GroupName, NEW to \in Levels,
         ~FindSpewGroup(name).found, Give(name, to)
  PROVE  stored' \in Seq(SpewGroup) /\ CutSorted' /\ (OnlyShort => StoredAsWanted)'
<1>. DEFINE k == PlaceFor(name)
            e == [name |-> Cut[name], to |-> to]
<1>0. stored \in Seq(SpewGroup) /\ name \in Nat /\ SortedNames(stored)
      /\ wanted \in [GroupName -> Levels \cup {None}]
  BY SpewAssumption DEF SpewInv, SpewTyped, CutSorted
<1>1. \A i \in 1 .. Len(stored) : stored[i].name # name
  BY <1>0, SearchIs
<1>2. /\ k \in 1 .. Len(stored) + 1
      /\ \A j \in 1 .. k - 1 : stored[j].name < name
      /\ k <= Len(stored) => stored[k].name >= name
  BY <1>0, PlaceIs
<1>3. stored' = InsertAt(stored, k, e) /\ wanted' = [wanted EXCEPT ![name] = to]
  BY DEF Give
<1>. HIDE DEF k
<1>4. e \in SpewGroup
  BY SpewAssumption DEF SpewGroup
<1>. DEFINE old(i) == IF i < k THEN i ELSE i - 1
<1>5. /\ stored' \in Seq(SpewGroup) /\ Len(stored') = Len(stored) + 1
      /\ stored'[k] = e
      /\ \A i \in 1 .. Len(stored) + 1 : i # k => stored'[i] = stored[old(i)]
  <2>1. /\ stored' \in Seq(SpewGroup) /\ Len(stored') = Len(stored) + 1
        /\ stored'[k] = e
        /\ \A j \in 1 .. k - 1 : stored'[j] = stored[j]
        /\ \A j \in k + 1 .. Len(stored) + 1 : stored'[j] = stored[j - 1]
    <3>. HIDE DEF e
    <3>. QED
      BY <1>0, <1>2, <1>3, <1>4, Inserted
  <2>. QED
    BY <1>0, <1>2, <2>1
<1>6. Len(stored) \in Nat /\ \A i \in 1 .. Len(stored) : stored[i] \in SpewGroup /\ stored[i].name \in Nat
  BY <1>0, StoredNames
<1>7. /\ \A i \in 1 .. Len(stored) + 1 : i # k => old(i) \in 1 .. Len(stored)
      /\ \A i, j \in 1 .. Len(stored) + 1 : i # k /\ j # k /\ i <= j => old(i) <= old(j)
      /\ \A i, j \in 1 .. Len(stored) + 1 : i # k /\ j # k /\ old(i) = old(j) => i = j
  BY <1>2, <1>6
<1>8. \A i \in 1 .. Len(stored) : \E j \in 1 .. Len(stored) + 1 : j # k /\ stored'[j] = stored[i]
  <2>. TAKE i \in 1 .. Len(stored)
  <2>. DEFINE j == IF i < k THEN i ELSE i + 1
  <2>1. j \in 1 .. Len(stored) + 1 /\ j # k /\ old(j) = i
    BY <1>2, <1>6
  <2>. HIDE DEF j, old
  <2>. QED
    BY <1>5, <2>1
<1>. HIDE DEF old
<1>9. Cut[name] \in Nat /\ Cut[name] <= name
  BY SpewAssumption
<1>10. CutSorted'
  <2>1. ASSUME NEW i \in 1 .. Len(stored) PROVE (i < k => stored[i].name <= Cut[name])
    <3>1. PICK m \in GroupName : stored[i].name = Cut[m]
      BY DEF SpewInv, CutSorted
    <3>2. i < k => Cut[m] <= name
      BY <1>0, <1>2, <1>6, <3>1
    <3>. QED
      BY <3>1, <3>2, SpewAssumption
  <2>2. ASSUME NEW i \in 1 .. Len(stored), i >= k PROVE Cut[name] <= stored[i].name
    <3>1. k \in 1 .. Len(stored) /\ k <= i
      BY <1>2, <1>6, <2>2
    <3>2. stored[k].name <= stored[i].name /\ name <= stored[k].name
      BY <1>0, <1>2, <1>6, <3>1 DEF SortedNames
    <3>. QED
      BY <1>0, <1>6, <1>9, <3>1, <3>2
  <2>3. ASSUME NEW i \in 1 .. Len(stored) + 1, NEW j \in 1 .. Len(stored) + 1, i <= j
        PROVE  stored'[i].name <= stored'[j].name
    <3>1. CASE i # k /\ j # k
      BY <1>0, <1>5, <1>7, <2>3, <3>1 DEF SortedNames
    <3>2. CASE i = k /\ j = k
      BY <1>5, <1>9, <3>2
    <3>3. CASE i = k /\ j # k
      <4>1. old(j) \in 1 .. Len(stored) /\ old(j) >= k
        BY <1>2, <1>6, <2>3, <3>3 DEF old
      <4>. QED
        BY <1>5, <2>2, <3>3, <4>1
    <3>4. CASE i # k /\ j = k
      <4>1. old(i) \in 1 .. Len(stored) /\ old(i) < k
        BY <1>2, <1>6, <2>3, <3>4 DEF old
      <4>. QED
        BY <1>5, <2>1, <3>4, <4>1
    <3>. QED
      BY <3>1, <3>2, <3>3, <3>4
  <2>4. ASSUME NEW i \in 1 .. Len(stored) + 1 PROVE \E m \in GroupName : stored'[i].name = Cut[m]
    <3>1. CASE i = k
      BY <1>5, <3>1
    <3>2. CASE i # k
      BY <1>5, <1>7, <3>2 DEF SpewInv, CutSorted
    <3>. QED
      BY <3>1, <3>2
  <2>5. SortedNames(stored')
    <3>. HIDE DEF e
    <3>. QED
      BY <1>5, <2>3 DEF SortedNames
  <2>. QED
    BY <1>5, <2>4, <2>5 DEF CutSorted
<1>11. ASSUME OnlyShort' PROVE StoredAsWanted'
  <2>1. OnlyShort /\ Short(name)
    BY <1>0, <1>3, <1>11, LevelsAreGiven DEF OnlyShort, Short
  <2>2. StoredAsWanted /\ e = [name |-> name, to |-> to]
    BY <2>1 DEF SpewInv, Short
  <2>3. /\ wanted'[name] = to /\ to # None
        /\ \A n \in GroupName : n # name => wanted'[n] = wanted[n]
    BY <1>0, <1>3, LevelsAreGiven
  <2>4. ASSUME NEW i \in 1 .. Len(stored) + 1, NEW j \in 1 .. Len(stored) + 1,
               stored'[i].name = stored'[j].name
        PROVE  i = j
    <3>1. CASE i # k /\ j # k
      BY <1>5, <1>7, <2>2, <2>4, <3>1 DEF StoredAsWanted
    <3>2. CASE i = k /\ j # k
      BY <1>1, <1>5, <1>7, <2>2, <2>4, <3>2
    <3>3. CASE i # k /\ j = k
      BY <1>1, <1>5, <1>7, <2>2, <2>4, <3>3
    <3>. QED
      BY <3>1, <3>2, <3>3
  <2>5. ASSUME NEW i \in 1 .. Len(stored) + 1
        PROVE  \E n \in GroupName :
                 wanted'[n] # None /\ stored'[i] = [name |-> n, to |-> wanted'[n]]
    <3>1. CASE i = k
      BY <1>5, <2>2, <2>3, <3>1
    <3>2. CASE i # k
      <4>1. PICK n \in GroupName : wanted[n] # None /\ stored[old(i)] = [name |-> n, to |-> wanted[n]]
        BY <1>7, <2>2, <3>2 DEF StoredAsWanted
      <4>2. n # name
        BY <1>1, <1>7, <3>2, <4>1
      <4>. QED
        BY <1>5, <2>3, <3>2, <4>1, <4>2
    <3>. QED
      BY <3>1, <3>2
  <2>6. ASSUME NEW n \in GroupName, wanted'[n] # None
        PROVE  \E i \in 1 .. Len(stored) + 1 : stored'[i].name = n
    <3>1. CASE n = name
      BY <1>2, <1>5, <2>2, <3>1
    <3>2. CASE n # name
      <4>1. PICK i \in 1 .. Len(stored) : stored[i].name = n
        BY <2>2, <2>3, <2>6, <3>2 DEF StoredAsWanted
      <4>2. PICK j \in 1 .. Len(stored) + 1 : stored'[j] = stored[i]
        BY <1>8
      <4>. QED
        BY <4>1, <4>2
    <3>. QED
      BY <3>1, <3>2
  <2>. HIDE DEF e
  <2>. QED
    BY <1>5, <2>4, <2>5, <2>6 DEF StoredAsWanted
<1>. QED
  BY <1>5, <1>10, <1>11

(* Activation, of a group that is there or of a new one.                   *)
LEMMA GiveKeeps ==
  ASSUME SpewInv, NEW name \in GroupName, NEW to \in Levels, Give(name, to)
  PROVE  /\ stored' \in Seq(SpewGroup) /\ CutSorted' /\ (OnlyShort => StoredAsWanted)'
         /\ wanted' \in [GroupName -> Levels \cup {None}]
<1>1. wanted' \in [GroupName -> Levels \cup {None}]
  BY DEF SpewInv, SpewTyped, Give
<1>. QED
  BY <1>1, GiveFound, GiveNew

(* However many groups there are, the search finds every one of them, and  *)
(* a group has the levels it was given last, whoever gave them.            *)
THEOREM GroupsAlwaysInOrder == SpewSpec => []GroupsInOrder
<1>1. SpewInit => SpewInv
  <2>. SUFFICES ASSUME SpewInit PROVE SpewInv
    OBVIOUS
  <2>1. stored = <<>> /\ Len(stored) = 0 /\ 1 .. Len(stored) = {} /\ stored \in Seq(SpewGroup)
    BY DEF SpewInit
  <2>2. SpewTyped /\ ChangesDue
    BY <2>1 DEF SpewInit, SpewTyped, ChangesDue
  <2>3. \A n \in GroupName : wanted[n] = None
    BY DEF SpewInit
  <2>. QED
    BY <2>1, <2>2, <2>3 DEF SpewInv, CutSorted, SortedNames, StoredAsWanted
<1>2. SpewInv /\ [SpewNext]_spewVars => SpewInv'
  <2>. SUFFICES ASSUME SpewInv, [SpewNext]_spewVars PROVE SpewInv'
    OBVIOUS
  <2>0. SpewTyped /\ ChangesDue
    BY DEF SpewInv
  <2>1. ASSUME NEW name \in GroupName, NEW to \in Levels, SpewAndLogActivate(name, to)
        PROVE  SpewInv'
    <3>1. Give(name, to) /\ UNCHANGED changing
      BY <2>1 DEF SpewAndLogActivate
    <3>. QED
      BY <2>0, <3>1, GiveKeeps DEF SpewInv, SpewTyped, ChangesDue
  <2>2. ASSUME UNCHANGED <<stored, changing, wanted>> PROVE SpewInv'
    BY <2>2 DEF SpewInv, SpewTyped, ChangesDue, CutSorted, SortedNames, OnlyShort, StoredAsWanted
  <2>3. ASSUME NEW t \in Spewer, NEW name \in GroupName, NEW to \in Levels,
               changing' = [changing EXCEPT ![t] = [name |-> name, to |-> to]],
               UNCHANGED <<stored, fallback, wanted>>
        PROVE  SpewInv'
    <3>1. SpewTyped'
      BY <2>0, <2>3 DEF SpewTyped
    <3>2. ChangesDue'
      BY <2>0, <2>3 DEF SpewTyped, ChangesDue
    <3>. QED
      BY <2>3, <3>1, <3>2 DEF SpewInv, CutSorted, SortedNames, OnlyShort, StoredAsWanted
  <2>4. ASSUME NEW t \in Spewer, MakeChange(t) PROVE SpewInv'
    <3>1. changing[t].name \in GroupName /\ changing[t].to \in Levels
      BY <2>0, <2>4 DEF MakeChange, SpewTyped, ChangesDue
    <3>2. Give(changing[t].name, changing[t].to)
          /\ changing' = [changing EXCEPT ![t] = [name |-> 0, to |-> None]]
      BY <2>4 DEF MakeChange
    <3>3. /\ stored' \in Seq(SpewGroup) /\ CutSorted' /\ (OnlyShort => StoredAsWanted)'
          /\ wanted' \in [GroupName -> Levels \cup {None}]
      BY <3>1, <3>2, GiveKeeps
    <3>4. changing' \in [Spewer -> [name : GroupName \cup {0}, to : Levels \cup {None}]]
          /\ ChangesDue'
      BY <2>0, <3>2 DEF SpewTyped, ChangesDue
    <3>. QED
      BY <3>3, <3>4 DEF SpewInv, SpewTyped
  <2>5. CASE SpewNext
    <3>1. ASSUME NEW to, ActivateAll(to) PROVE SpewInv'
      BY <2>2, <3>1 DEF ActivateAll
    <3>2. ASSUME NEW t \in Spewer, NEW name \in GroupName, NEW to \in Levels, NEW from, FindDue(t, name, to, from)
          PROVE  SpewInv'
      BY <2>3, <3>2 DEF FindDue
    <3>. QED
      BY <2>1, <2>4, <2>5, <3>1, <3>2 DEF SpewNext
  <2>. QED
    BY <2>2, <2>5 DEF spewVars
<1>3. SpewInv => GroupsInOrder
  <2>. SUFFICES ASSUME SpewInv PROVE GroupsInOrder
    OBVIOUS
  <2>1. stored \in Seq(SpewGroup) /\ SortedNames(stored) /\ GroupName \subseteq Nat
    BY SpewAssumption DEF SpewInv, SpewTyped, CutSorted
  <2>2. DOMAIN stored = 1 .. Len(stored)
    BY <2>1
  <2>3. SearchFindsAll
    BY <2>1, <2>2, SearchIs DEF SearchFindsAll
  <2>4. ASSUME OnlyShort, NEW name \in GroupName, wanted[name] # None
        PROVE  stored[FindSpewGroup(name).index] = [name |-> name, to |-> wanted[name]]
    <3>. DEFINE hit == FindSpewGroup(name)
    <3>1. StoredAsWanted
      BY <2>4 DEF SpewInv
    <3>2. hit.found /\ hit.index \in 1 .. Len(stored) /\ stored[hit.index].name = name
      BY <2>1, <2>4, <3>1, SearchIs DEF StoredAsWanted
    <3>3. PICK n \in GroupName : stored[hit.index] = [name |-> n, to |-> wanted[n]]
      BY <3>1, <3>2 DEF StoredAsWanted
    <3>. QED
      BY <3>2, <3>3
  <2>. QED
    BY <2>3, <2>4 DEF GroupsInOrder, LevelsAreTheLastGiven, OnlyShort
<1>. QED
  BY <1>1, <1>2, <1>3, PTL DEF SpewSpec

-----------------------------------------------------------------------------
(***************************************************************************)
(* The profiler: the tree, the cursor, the stack of groups and the times.  *)
(* First, what Append, Front and SubSeq make of the paths.                 *)
(***************************************************************************)
LEMMA SameSeq ==
  ASSUME NEW S, NEW a \in Seq(S), NEW b \in Seq(S), Len(a) = Len(b),
         \A i \in 1 .. Len(a) : a[i] = b[i]
  PROVE  a = b
OBVIOUS

LEMMA SubIs ==
  ASSUME NEW S, NEW c \in Seq(S), NEW n \in 0 .. Len(c)
  PROVE  /\ SubSeq(c, 1, n) \in Seq(S) /\ Len(SubSeq(c, 1, n)) = n
         /\ \A i \in 1 .. n : SubSeq(c, 1, n)[i] = c[i]
OBVIOUS

LEMMA PrefixIs ==
  ASSUME NEW S, NEW p \in Seq(S), NEW c \in Seq(S)
  PROVE  IsPrefix(p, c) <=> Len(p) <= Len(c) /\ \A i \in 1 .. Len(p) : p[i] = c[i]
<1>1. CASE Len(p) <= Len(c)
  <2>1. Len(p) \in 0 .. Len(p) /\ Len(p) \in 0 .. Len(c)
    BY <1>1
  <2>2. IsPrefix(p, c) <=> SubSeq(p, 1, Len(p)) = SubSeq(c, 1, Len(p))
    BY <1>1 DEF IsPrefix
  <2>3. SubSeq(p, 1, Len(p)) = SubSeq(c, 1, Len(p)) <=> \A i \in 1 .. Len(p) : p[i] = c[i]
    BY <2>1, SubIs, SameSeq
  <2>. QED
    BY <1>1, <2>2, <2>3
<1>. QED
  BY <1>1 DEF IsPrefix

LEMMA Appended ==
  ASSUME NEW S, NEW c \in Seq(S), NEW n \in S
  PROVE  /\ Append(c, n) \in Seq(S) /\ Len(Append(c, n)) = Len(c) + 1
         /\ Append(c, n)[Len(c) + 1] = n
         /\ \A i \in 1 .. Len(c) : Append(c, n)[i] = c[i]
         /\ \A i \in 0 .. Len(c) : SubSeq(Append(c, n), 1, i) = SubSeq(c, 1, i)
         /\ SubSeq(Append(c, n), 1, Len(c) + 1) = Append(c, n)
         /\ \A p \in Seq(S) : IsPrefix(p, Append(c, n)) <=> IsPrefix(p, c) \/ p = Append(c, n)
<1>. DEFINE a == Append(c, n)
<1>1. /\ a \in Seq(S) /\ Len(a) = Len(c) + 1 /\ a[Len(c) + 1] = n
      /\ \A i \in 1 .. Len(c) : a[i] = c[i]
  OBVIOUS
<1>. HIDE DEF a
<1>2. ASSUME NEW i \in 0 .. Len(c) PROVE SubSeq(a, 1, i) = SubSeq(c, 1, i)
  <2>1. i \in 0 .. Len(a) /\ i \in 0 .. Len(c) /\ 1 .. i \subseteq 1 .. Len(c)
    BY <1>1
  <2>. QED
    BY <1>1, <2>1, SubIs, SameSeq
<1>3. SubSeq(a, 1, Len(c) + 1) = a
  <2>1. Len(c) + 1 \in 0 .. Len(a)
    BY <1>1
  <2>. QED
    BY <1>1, <2>1, SubIs, SameSeq
<1>4. ASSUME NEW p \in Seq(S) PROVE IsPrefix(p, a) <=> IsPrefix(p, c) \/ p = a
  <2>1. CASE Len(p) <= Len(c)
    <3>1. p # a /\ Len(p) <= Len(a)
      BY <1>1, <2>1
    <3>. QED
      BY <1>1, <2>1, <3>1, PrefixIs
  <2>2. CASE Len(p) = Len(a)
    <3>1. ~IsPrefix(p, c)
      BY <1>1, <2>2, PrefixIs
    <3>. QED
      BY <1>1, <2>2, <3>1, PrefixIs, SameSeq
  <2>3. CASE Len(p) > Len(a)
    BY <1>1, <2>3, PrefixIs
  <2>. QED
    BY <1>1, <2>1, <2>2, <2>3
<1>. QED
  BY <1>1, <1>2, <1>3, <1>4 DEF a

LEMMA Fronted ==
  ASSUME NEW S, NEW c \in Seq(S), c # <<>>
  PROVE  /\ Front(c) \in Seq(S) /\ Len(Front(c)) = Len(c) - 1 /\ Len(c) \in Nat \ {0}
         /\ \A i \in 1 .. Len(c) - 1 : Front(c)[i] = c[i]
         /\ \A i \in 0 .. Len(c) - 1 : SubSeq(Front(c), 1, i) = SubSeq(c, 1, i)
         /\ \A p \in Seq(S) : IsPrefix(p, Front(c)) <=> IsPrefix(p, c) /\ p # c
<1>. DEFINE a == Front(c)
<1>0. Len(c) \in Nat \ {0} /\ Len(c) - 1 \in 0 .. Len(c)
  OBVIOUS
<1>1. /\ a \in Seq(S) /\ Len(a) = Len(c) - 1
      /\ \A i \in 1 .. Len(c) - 1 : a[i] = c[i]
  BY <1>0, SubIs DEF Front
<1>. HIDE DEF a
<1>2. ASSUME NEW i \in 0 .. Len(c) - 1 PROVE SubSeq(a, 1, i) = SubSeq(c, 1, i)
  <2>1. i \in 0 .. Len(a) /\ i \in 0 .. Len(c) /\ 1 .. i \subseteq 1 .. Len(a)
    BY <1>0, <1>1
  <2>. QED
    BY <1>1, <2>1, SubIs, SameSeq
<1>4. ASSUME NEW p \in Seq(S) PROVE IsPrefix(p, a) <=> IsPrefix(p, c) /\ p # c
  <2>1. CASE Len(p) <= Len(a)
    <3>1. p # c /\ Len(p) <= Len(c) /\ Len(p) \in Nat
      BY <1>0, <1>1, <2>1
    <3>2. \A i \in 1 .. Len(p) : a[i] = c[i]
      BY <1>0, <1>1, <2>1
    <3>. QED
      BY <1>1, <2>1, <3>1, <3>2, PrefixIs
  <2>2. CASE Len(p) = Len(c)
    <3>1. ~IsPrefix(p, a)
      BY <1>0, <1>1, <2>2, PrefixIs
    <3>. QED
      BY <1>0, <1>1, <2>2, <3>1, PrefixIs, SameSeq
  <2>3. CASE Len(p) > Len(c)
    BY <1>0, <1>1, <2>3, PrefixIs
  <2>. QED
    BY <1>0, <1>1, <2>1, <2>2, <2>3
<1>. QED
  BY <1>0, <1>1, <1>2, <1>4 DEF a

-----------------------------------------------------------------------------
ProfNode ==
  [rec : Int, group : Nat, start : Int, cur : Int, total : Int, ran : Int]

ProfTyped ==
  /\ tree \in [DOMAIN tree -> ProfNode]
  /\ DOMAIN tree \subseteq Seq(ScopeName) /\ Root \in DOMAIN tree
  /\ age \in Seq(Seq(ScopeName))
  /\ groups \in Seq({GroupOf[n] : n \in ScopeName})
  /\ groupStack \in Seq(Nat)
  /\ {atRoot, paused, overflowed} \subseteq BOOLEAN
  /\ regime \in {"plain", "pausing", "straddling"}
  /\ paused => regime = "pausing"

(* What lies above a node is there too.                                    *)
AboveThere ==
  \A p \in DOMAIN tree : \A i \in 0 .. Len(p) : SubSeq(p, 1, i) \in DOMAIN tree

(* Where scopes nest inside one Start and Stop, the open ones are those    *)
(* the cursor went through.                                                *)
Nested ==
  regime # "straddling" => IF enabled > 0 THEN Len(cursor) = open ELSE cursor = Root

(* GroupsFollowCursor, entry by entry.                                     *)
BelowScopes == IF enabled > 0 THEN 2 ELSE 1

Stacked ==
  regime # "straddling" /\ ~overflowed =>
    /\ Len(groupStack) = BelowScopes + Len(cursor)
    /\ groupStack[1] = 0
    /\ enabled > 0 => groupStack[2] = tree[Root].group
    /\ \A i \in 1 .. Len(cursor) :
         groupStack[BelowScopes + i] = tree[SubSeq(cursor, 1, i)].group

(* The time a node ran is what was added up, and what passed since it was  *)
(* entered.                                                                *)
Since(p) == IF tree[p].rec > 0 /\ ~paused THEN now - tree[p].start ELSE 0

Timed ==
  \A p \in DOMAIN tree : regime = "plain" \/ (regime = "pausing" /\ p = Root) =>
    tree[p].cur + tree[p].total + Since(p) = tree[p].ran

ProfInv ==
  /\ ProfTyped /\ ProfTypeOK /\ AboveThere /\ EnteredIsPath /\ DepthIsCursor
  /\ RootEnteredOnce /\ Nested /\ Stacked /\ Timed

-----------------------------------------------------------------------------
LEMMA NodeFields ==
  ASSUME NEW r \in ProfNode
  PROVE  /\ r.rec \in Int /\ r.group \in Nat /\ r.start \in Int
         /\ r.cur \in Int /\ r.total \in Int /\ r.ran \in Int
BY DEF ProfNode

LEMMA NodeStarts ==
  ASSUME NEW r \in ProfNode, NEW a \in Int, NEW b \in Int
  PROVE  \E e \in ProfNode :
           /\ e = [r EXCEPT !.rec = a, !.start = b] /\ e.rec = a /\ e.start = b
           /\ e.group = r.group /\ e.cur = r.cur /\ e.total = r.total /\ e.ran = r.ran
<1>. DEFINE d == [r EXCEPT !.rec = a]
            e == [d EXCEPT !.start = b]
<1>1. d \in ProfNode
  BY DEF ProfNode
<1>2. d.rec = a /\ d.group = r.group /\ d.start = r.start
      /\ d.cur = r.cur /\ d.total = r.total /\ d.ran = r.ran
  BY DEF ProfNode
<1>3. [r EXCEPT !.rec = a, !.start = b] = e
  OBVIOUS
<1>. HIDE DEF d
<1>4. e \in ProfNode
  BY <1>1 DEF ProfNode
<1>5. e.rec = d.rec /\ e.start = b /\ e.group = d.group
      /\ e.cur = d.cur /\ e.total = d.total /\ e.ran = d.ran
  BY <1>1 DEF ProfNode
<1>. HIDE DEF e
<1>. QED
  BY <1>2, <1>3, <1>4, <1>5

LEMMA NodeEnds ==
  ASSUME NEW r \in ProfNode, NEW a \in Int, NEW b \in Int
  PROVE  \E e \in ProfNode :
           /\ e = [r EXCEPT !.rec = a, !.cur = b] /\ e.rec = a /\ e.cur = b
           /\ e.group = r.group /\ e.start = r.start /\ e.total = r.total /\ e.ran = r.ran
<1>. DEFINE d == [r EXCEPT !.rec = a]
            e == [d EXCEPT !.cur = b]
<1>1. d \in ProfNode
  BY DEF ProfNode
<1>2. d.rec = a /\ d.group = r.group /\ d.start = r.start
      /\ d.cur = r.cur /\ d.total = r.total /\ d.ran = r.ran
  BY DEF ProfNode
<1>3. [r EXCEPT !.rec = a, !.cur = b] = e
  OBVIOUS
<1>. HIDE DEF d
<1>4. e \in ProfNode
  BY <1>1 DEF ProfNode
<1>5. e.rec = d.rec /\ e.cur = b /\ e.group = d.group
      /\ e.start = d.start /\ e.total = d.total /\ e.ran = d.ran
  BY <1>1 DEF ProfNode
<1>. HIDE DEF e
<1>. QED
  BY <1>2, <1>3, <1>4, <1>5

(* What EnterNode and ExitNode make of the nodes.                          *)
LEMMA Enters ==
  ASSUME NEW D, NEW t \in [D -> ProfNode], NEW p \in D,
         now \in Int, EnterNode(t, p)
  PROVE  /\ tree' \in [D -> ProfNode] /\ DOMAIN tree' = D
         /\ \A q \in D : q # p => tree'[q] = t[q]
         /\ tree'[p].rec = t[p].rec + 1 /\ tree'[p].group = t[p].group
         /\ tree'[p].start = IF t[p].rec = 0 THEN now ELSE t[p].start
         /\ tree'[p].cur = t[p].cur /\ tree'[p].total = t[p].total /\ tree'[p].ran = t[p].ran
<1>. DEFINE s == IF t[p].rec = 0 THEN now ELSE t[p].start
<1>0. t[p] \in ProfNode /\ s \in Int /\ t[p].rec + 1 \in Int
  <2>1. t[p] \in ProfNode
    OBVIOUS
  <2>2. t[p].rec \in Int /\ t[p].start \in Int
    BY <2>1, NodeFields
  <2>. QED
    BY <2>1, <2>2
<1>1. tree' = [t EXCEPT ![p] = [t[p] EXCEPT !.rec = t[p].rec + 1, !.start = s]]
  BY DEF EnterNode
<1>. HIDE DEF s
<1>2. PICK e \in ProfNode :
        /\ e = [t[p] EXCEPT !.rec = t[p].rec + 1, !.start = s]
        /\ e.rec = t[p].rec + 1 /\ e.group = t[p].group /\ e.start = s
        /\ e.cur = t[p].cur /\ e.total = t[p].total /\ e.ran = t[p].ran
  <2>1. PICK r \in ProfNode, a \in Int, b \in Int : r = t[p] /\ a = t[p].rec + 1 /\ b = s
    BY <1>0
  <2>2. PICK e \in ProfNode :
          /\ e = [r EXCEPT !.rec = a, !.start = b] /\ e.rec = a /\ e.start = b
          /\ e.group = r.group /\ e.cur = r.cur /\ e.total = r.total /\ e.ran = r.ran
    BY NodeStarts
  <2>3. e = [t[p] EXCEPT !.rec = t[p].rec + 1, !.start = s]
    BY <2>1, <2>2
  <2>. QED
    BY <2>1, <2>2, <2>3
<1>3. tree' = [t EXCEPT ![p] = e]
  BY <1>1, <1>2
<1>. QED
  BY <1>2, <1>3 DEF s

LEMMA Exits ==
  ASSUME NEW D, tree \in [D -> ProfNode], NEW p \in D, now \in Int, ExitNode(p)
  PROVE  /\ tree' \in [D -> ProfNode] /\ DOMAIN tree' = D
         /\ \A q \in D : q # p => tree'[q] = tree[q]
         /\ tree'[p].rec = tree[p].rec - 1 /\ tree'[p].group = tree[p].group
         /\ tree'[p].start = tree[p].start
         /\ tree'[p].cur = IF tree[p].rec <= 1 THEN tree[p].cur + now - tree[p].start ELSE tree[p].cur
         /\ tree'[p].total = tree[p].total /\ tree'[p].ran = tree[p].ran
         /\ groupStack' = IF tree[p].rec <= 1 THEN Popped(groupStack) ELSE groupStack
<1>. DEFINE c == IF tree[p].rec <= 1 THEN tree[p].cur + now - tree[p].start ELSE tree[p].cur
<1>0. tree[p] \in ProfNode /\ c \in Int /\ tree[p].rec - 1 \in Int /\ tree[p].rec \in Int
  <2>1. tree[p] \in ProfNode
    OBVIOUS
  <2>2. tree[p].rec \in Int /\ tree[p].start \in Int /\ tree[p].cur \in Int
    BY <2>1, NodeFields
  <2>. QED
    BY <2>1, <2>2
<1>1. /\ tree' = [tree EXCEPT ![p] = [tree[p] EXCEPT !.rec = tree[p].rec - 1, !.cur = c]]
      /\ groupStack' = IF tree[p].rec <= 1 THEN Popped(groupStack) ELSE groupStack
  <2>1. CASE tree[p].rec <= 1
    <3>1. Leaves(p)
      BY <1>0, <2>1 DEF Leaves
    <3>2. c = tree[p].cur + now - tree[p].start
      BY <2>1
    <3>. QED
      BY <2>1, <3>1, <3>2 DEF ExitNode
  <2>2. CASE ~(tree[p].rec <= 1)
    <3>1. ~Leaves(p)
      BY <1>0, <2>2 DEF Leaves
    <3>2. c = tree[p].cur
      BY <2>2
    <3>3. [tree[p] EXCEPT !.rec = tree[p].rec - 1, !.cur = tree[p].cur] = [tree[p] EXCEPT !.rec = tree[p].rec - 1]
      BY <1>0 DEF ProfNode
    <3>4. tree' = [tree EXCEPT ![p] = [tree[p] EXCEPT !.rec = tree[p].rec - 1]]
          /\ groupStack' = groupStack
      BY <3>1 DEF ExitNode
    <3>. QED
      BY <2>2, <3>2, <3>3, <3>4
  <2>. QED
    BY <2>1, <2>2
<1>. HIDE DEF c
<1>2. PICK e \in ProfNode :
        /\ e = [tree[p] EXCEPT !.rec = tree[p].rec - 1, !.cur = c]
        /\ e.rec = tree[p].rec - 1 /\ e.group = tree[p].group /\ e.start = tree[p].start
        /\ e.cur = c /\ e.total = tree[p].total /\ e.ran = tree[p].ran
  <2>1. PICK r \in ProfNode, a \in Int, b \in Int : r = tree[p] /\ a = tree[p].rec - 1 /\ b = c
    BY <1>0
  <2>2. PICK e \in ProfNode :
          /\ e = [r EXCEPT !.rec = a, !.cur = b] /\ e.rec = a /\ e.cur = b
          /\ e.group = r.group /\ e.start = r.start /\ e.total = r.total /\ e.ran = r.ran
    BY NodeEnds
  <2>3. e = [tree[p] EXCEPT !.rec = tree[p].rec - 1, !.cur = c]
    BY <2>1, <2>2
  <2>. QED
    BY <2>1, <2>2, <2>3
<1>3. tree' = [tree EXCEPT ![p] = e]
  BY <1>1, <1>2
<1>. QED
  BY <1>1, <1>2, <1>3 DEF c

(* The stack of groups: it never runs empty, nor over.                     *)
LEMMA PushedIs ==
  ASSUME groupStack \in Seq(Nat), Len(groupStack) \in 1 .. GroupDepth, NEW g \in Nat
  PROVE  /\ Pushed(g) \in Seq(Nat) /\ Len(Pushed(g)) \in 1 .. GroupDepth
         /\ Len(groupStack) < GroupDepth =>
              /\ Len(Pushed(g)) = Len(groupStack) + 1 /\ Pushed(g)[Len(groupStack) + 1] = g
              /\ \A i \in 1 .. Len(groupStack) : Pushed(g)[i] = groupStack[i]
<1>0. GroupDepth \in Nat
  BY ProfAssumption
<1>1. CASE Len(groupStack) < GroupDepth
  <2>1. Pushed(g) = Append(groupStack, g)
    BY <1>1 DEF Pushed
  <2>. QED
    BY <1>0, <1>1, <2>1
<1>2. CASE ~(Len(groupStack) < GroupDepth)
  BY <1>0, <1>2 DEF Pushed
<1>. QED
  BY <1>1, <1>2

LEMMA PoppedIs ==
  ASSUME groupStack \in Seq(Nat), Len(groupStack) \in 1 .. GroupDepth
  PROVE  /\ Popped(groupStack) \in Seq(Nat) /\ Len(Popped(groupStack)) \in 1 .. GroupDepth
         /\ Len(groupStack) > 1 =>
              /\ Len(Popped(groupStack)) = Len(groupStack) - 1
              /\ \A i \in 1 .. Len(groupStack) - 1 : Popped(groupStack)[i] = groupStack[i]
<1>0. GroupDepth \in Nat
  BY ProfAssumption
<1>1. CASE Len(groupStack) > 1
  <2>1. Popped(groupStack) = SubSeq(groupStack, 1, Len(groupStack) - 1)
        /\ Len(groupStack) - 1 \in 0 .. Len(groupStack)
    BY <1>0, <1>1 DEF Popped, Front
  <2>2. /\ Popped(groupStack) \in Seq(Nat) /\ Len(Popped(groupStack)) = Len(groupStack) - 1
        /\ \A i \in 1 .. Len(groupStack) - 1 : Popped(groupStack)[i] = groupStack[i]
    BY <2>1, SubIs
  <2>. QED
    BY <1>0, <1>1, <2>2
<1>2. CASE ~(Len(groupStack) > 1)
  BY <1>0, <1>2 DEF Popped
<1>. QED
  BY <1>1, <1>2

(* Budget groups.                                                          *)
LEMMA GroupIds ==
  ASSUME groups \in Seq({GroupOf[n] : n \in ScopeName}), Len(groups) <= MaxGroups,
         NEW name \in ScopeName
  PROVE  /\ GroupsWith(GroupOf[name]) \in Seq({GroupOf[n] : n \in ScopeName})
         /\ Len(GroupsWith(GroupOf[name])) <= MaxGroups
         /\ GroupId(GroupOf[name]) \in Nat
<1>. DEFINE gs == GroupsWith(GroupOf[name])
<1>0. MaxGroups \in Nat /\ Len(groups) \in Nat
  BY ProfAssumption
<1>1. gs \in Seq({GroupOf[n] : n \in ScopeName}) /\ Len(gs) <= MaxGroups
  BY <1>0 DEF GroupsWith
<1>. HIDE DEF gs
<1>2. CASE GroupOf[name] \in Range(gs)
  <2>1. \E i \in DOMAIN gs : gs[i] = GroupOf[name]
    BY <1>2 DEF Range
  <2>2. DOMAIN gs = 1 .. Len(gs)
    BY <1>1
  <2>3. PICK i \in 1 .. Len(gs) : (CHOOSE j \in DOMAIN gs : gs[j] = GroupOf[name]) = i
    BY <2>1, <2>2
  <2>4. GroupId(GroupOf[name]) = i - 1
    BY <1>2, <2>3 DEF GroupId, gs
  <2>. QED
    BY <1>1, <2>4 DEF gs
<1>3. CASE GroupOf[name] \notin Range(gs)
  BY <1>1, <1>3 DEF GroupId, gs
<1>. QED
  BY <1>2, <1>3

-----------------------------------------------------------------------------
(* A node below the cursor is entered, one that was there or a new one.    *)
GoesDown(p, t) ==
  /\ enabled > 0 /\ open < MaxScopes /\ nesting < MaxNesting /\ ~paused
  /\ t \in [DOMAIN tree \cup {p} -> ProfNode]
  /\ \A q \in DOMAIN tree : t[q] = tree[q]
  /\ t[p].rec = 0
  /\ regime = "plain" => t[p].cur + t[p].total = t[p].ran
  /\ EnterNode(t, p)
  /\ age' \in Seq(Seq(ScopeName)) /\ Range(age') = (DOMAIN tree \cup {p}) \ {Root}
  /\ groups' \in Seq({GroupOf[n] : n \in ScopeName}) /\ Len(groups') <= MaxGroups
  /\ open' = open + 1 /\ cursor' = p /\ nesting' = nesting + 1 /\ atRoot' = FALSE
  /\ UNCHANGED <<enabled, now, regime, paused>>

LEMMA ProfEnters ==
  ASSUME ProfInv, NEW name \in ScopeName, NEW p, p = Append(cursor, name),
         NEW t, GoesDown(p, t)
  PROVE  ProfInv'
<1>. DEFINE D == DOMAIN tree \cup {p}
<1>a. /\ t \in [D -> ProfNode] /\ p \in D
      /\ \A q \in DOMAIN tree : t[q] = tree[q]
      /\ t[p].rec = 0
      /\ regime = "plain" => t[p].cur + t[p].total = t[p].ran
      /\ EnterNode(t, p)
  BY DEF GoesDown
<1>b. /\ enabled > 0 /\ open < MaxScopes /\ nesting < MaxNesting /\ ~paused
      /\ age' \in Seq(Seq(ScopeName)) /\ Range(age') = D \ {Root}
      /\ groups' \in Seq({GroupOf[n] : n \in ScopeName}) /\ Len(groups') <= MaxGroups
      /\ open' = open + 1 /\ cursor' = p /\ nesting' = nesting + 1 /\ atRoot' = FALSE
      /\ enabled' = enabled /\ now' = now /\ regime' = regime /\ paused' = paused
  BY DEF GoesDown
<1>0. /\ ProfTyped /\ ProfTypeOK /\ AboveThere /\ EnteredIsPath /\ DepthIsCursor
      /\ RootEnteredOnce /\ Nested /\ Stacked /\ Timed
  BY DEF ProfInv
<1>1. /\ cursor \in DOMAIN tree /\ cursor \in Seq(ScopeName) /\ DOMAIN tree \subseteq Seq(ScopeName)
      /\ Root \in DOMAIN tree /\ Len(cursor) \in Nat
  BY <1>0 DEF EnteredIsPath, ProfTyped
<1>2. /\ p \in Seq(ScopeName) /\ Len(p) = Len(cursor) + 1
      /\ \A i \in 0 .. Len(cursor) : SubSeq(p, 1, i) = SubSeq(cursor, 1, i)
      /\ SubSeq(p, 1, Len(cursor) + 1) = p
      /\ \A q \in Seq(ScopeName) : IsPrefix(q, p) <=> IsPrefix(q, cursor) \/ q = p
  BY <1>1, Appended
<1>3. Root \in Seq(ScopeName) /\ Len(Root) = 0 /\ Root # p
  <2>1. Root \in Seq(ScopeName) /\ Len(Root) = 0
    BY DEF Root
  <2>2. Len(p) # 0
    BY <1>1, <1>2
  <2>. QED
    BY <2>1, <2>2
<1>4. now \in Int /\ now \in 0 .. MaxTime
  BY <1>0, ProfAssumption DEF ProfTypeOK
<1>5. /\ tree' \in [D -> ProfNode] /\ DOMAIN tree' = D
      /\ \A q \in D : q # p => tree'[q] = t[q]
      /\ tree'[p].rec = 1 /\ tree'[p].group = t[p].group
      /\ tree'[p].start = now
      /\ tree'[p].cur = t[p].cur /\ tree'[p].total = t[p].total /\ tree'[p].ran = t[p].ran
  <2>. HIDE DEF D
  <2>2. /\ tree' \in [D -> ProfNode] /\ DOMAIN tree' = D
        /\ \A q \in D : q # p => tree'[q] = t[q]
        /\ tree'[p].rec = t[p].rec + 1 /\ tree'[p].group = t[p].group
        /\ tree'[p].start = IF t[p].rec = 0 THEN now ELSE t[p].start
        /\ tree'[p].cur = t[p].cur /\ tree'[p].total = t[p].total /\ tree'[p].ran = t[p].ran
    <3>1. t \in [D -> ProfNode] /\ p \in D /\ now \in Int /\ EnterNode(t, p)
      BY <1>4, <1>a
    <3>. QED
      BY ONLY <3>1, Enters
  <2>. QED
    BY <1>a, <2>2
<1>6. \A q \in DOMAIN tree : q # p => tree'[q] = tree[q]
  BY <1>5, <1>a
<1>7. /\ groupStack' = Pushed(t[p].group)
      /\ overflowed' = (overflowed \/ Len(groupStack) >= GroupDepth)
      /\ ~overflowed' => ~overflowed /\ ~(Len(groupStack) >= GroupDepth)
      /\ t[p].group \in Nat /\ groupStack \in Seq(Nat) /\ Len(groupStack) \in 1 .. GroupDepth
  <2>0. t[p] \in ProfNode
    BY <1>a
  <2>1. t[p].group \in Nat
    BY <2>0, NodeFields
  <2>2. /\ groupStack' = Pushed(t[p].group)
        /\ overflowed' = (overflowed \/ Len(groupStack) >= GroupDepth)
    BY <1>a DEF EnterNode
  <2>3. ~overflowed' => ~overflowed /\ ~(Len(groupStack) >= GroupDepth)
    BY <2>2, Zenon
  <2>. QED
    BY <1>0, <2>1, <2>2, <2>3 DEF ProfTyped, ProfTypeOK
<1>8. /\ groupStack' \in Seq(Nat) /\ Len(groupStack') \in 1 .. GroupDepth
      /\ Len(groupStack) < GroupDepth =>
           /\ Len(groupStack') = Len(groupStack) + 1
           /\ groupStack'[Len(groupStack) + 1] = t[p].group
           /\ \A i \in 1 .. Len(groupStack) : groupStack'[i] = groupStack[i]
  BY <1>7, PushedIs
<1>9. ProfTyped'
  <2>1. {atRoot', paused', overflowed'} \subseteq BOOLEAN
    BY <1>0, <1>7, <1>b DEF ProfTyped
  <2>3. D \subseteq Seq(ScopeName) /\ Root \in D
    BY <1>1, <1>2
  <2>. HIDE DEF D
  <2>. QED
    BY <1>0, <1>5, <1>8, <1>b, <2>1, <2>3 DEF ProfTyped
<1>10. ProfTypeOK'
  BY <1>0, <1>4, <1>5, <1>8, <1>b, ProfAssumption, SMTT(30) DEF ProfTypeOK
<1>11. AboveThere'
  <2>. SUFFICES ASSUME NEW q \in D, NEW i \in 0 .. Len(q) PROVE SubSeq(q, 1, i) \in D
    BY <1>5 DEF AboveThere
  <2>1. CASE q \in DOMAIN tree
    BY <1>0, <2>1 DEF AboveThere
  <2>2. CASE q = p /\ i <= Len(cursor)
    <3>1. i \in 0 .. Len(cursor)
      BY <1>1, <1>2, <2>2
    <3>. QED
      BY <1>0, <1>1, <1>2, <2>2, <3>1 DEF AboveThere
  <2>3. CASE q = p /\ i > Len(cursor)
    <3>1. i = Len(cursor) + 1
      BY <1>1, <1>2, <2>3
    <3>. QED
      BY <1>2, <2>3, <3>1
  <2>. QED
    BY <1>1, <2>1, <2>2, <2>3
<1>12. EnteredIsPath'
  <2>. SUFFICES ASSUME NEW q \in D \ {Root}
                PROVE  tree'[q].rec = IF IsPrefix(q, p) THEN 1 ELSE 0
    BY <1>5, <1>b DEF EnteredIsPath
  <2>1. CASE q = p
    BY <1>2, <1>5, <2>1
  <2>2. CASE q # p
    <3>1. q \in DOMAIN tree \ {Root} /\ q \in Seq(ScopeName)
      BY <1>1, <2>2
    <3>2. tree[q].rec = IF IsPrefix(q, cursor) THEN 1 ELSE 0
      BY <1>0, <3>1 DEF EnteredIsPath
    <3>. QED
      BY <1>2, <1>6, <2>2, <3>1, <3>2
  <2>. QED
    BY <2>1, <2>2
<1>13. DepthIsCursor'
  BY <1>0, <1>2, <1>3, <1>b DEF DepthIsCursor
<1>14. RootEnteredOnce'
  BY <1>0, <1>1, <1>3, <1>6, <1>b DEF RootEnteredOnce
<1>15. Nested'
  BY <1>0, <1>1, <1>2, <1>b DEF Nested
<1>16. Stacked'
  <2>. SUFFICES ASSUME regime' # "straddling", ~overflowed'
                PROVE  /\ Len(groupStack') = 2 + Len(p)
                       /\ groupStack'[1] = 0
                       /\ groupStack'[2] = tree'[Root].group
                       /\ \A i \in 1 .. Len(p) :
                            groupStack'[2 + i] = tree'[SubSeq(p, 1, i)].group
    BY <1>b DEF Stacked, BelowScopes
  <2>0. GroupDepth \in Nat /\ regime # "straddling"
    BY <1>b, ProfAssumption
  <2>1. ~overflowed /\ Len(groupStack) < GroupDepth
    BY <1>7, <2>0
  <2>2. /\ Len(groupStack) = 2 + Len(cursor)
        /\ groupStack[1] = 0 /\ groupStack[2] = tree[Root].group
        /\ \A i \in 1 .. Len(cursor) : groupStack[2 + i] = tree[SubSeq(cursor, 1, i)].group
    BY <1>0, <1>b, <2>0, <2>1 DEF Stacked, BelowScopes
  <2>3. Len(groupStack') = 2 + Len(p) /\ groupStack'[1] = 0 /\ groupStack'[2] = tree'[Root].group
    <3>1. tree'[Root] = tree[Root]
      BY <1>1, <1>3, <1>6
    <3>2. Len(groupStack') = Len(groupStack) + 1 /\ groupStack'[1] = groupStack[1] /\ groupStack'[2] = groupStack[2]
      BY <1>1, <1>8, <2>1, <2>2
    <3>. QED
      BY <1>1, <1>2, <2>2, <3>1, <3>2
  <2>4. ASSUME NEW i \in 1 .. Len(p) PROVE groupStack'[2 + i] = tree'[SubSeq(p, 1, i)].group
    <3>1. CASE i = Len(cursor) + 1
      <4>1. 2 + i = Len(groupStack) + 1
        BY <1>1, <2>2, <3>1
      <4>. QED
        BY <1>2, <1>5, <1>8, <2>1, <3>1, <4>1
    <3>2. CASE i # Len(cursor) + 1
      <4>1. i \in 1 .. Len(cursor) /\ i \in 0 .. Len(cursor) /\ 2 + i \in 1 .. Len(groupStack)
        BY <1>1, <1>2, <2>2, <3>2
      <4>2. SubSeq(cursor, 1, i) \in DOMAIN tree /\ Len(SubSeq(cursor, 1, i)) = i
        BY <1>0, <1>1, <4>1, SubIs DEF AboveThere
      <4>3. SubSeq(cursor, 1, i) # p
        BY <1>1, <1>2, <4>1, <4>2
      <4>. QED
        <5>1. groupStack'[2 + i] = groupStack[2 + i] /\ groupStack[2 + i] = tree[SubSeq(cursor, 1, i)].group
          BY <1>8, <2>1, <2>2, <4>1
        <5>2. tree'[SubSeq(cursor, 1, i)] = tree[SubSeq(cursor, 1, i)]
          BY <1>6, <4>2, <4>3
        <5>3. SubSeq(p, 1, i) = SubSeq(cursor, 1, i)
          BY <1>2, <4>1
        <5>. QED
          BY <5>1, <5>2, <5>3
    <3>. QED
      BY <3>1, <3>2
  <2>. QED
    BY <2>3, <2>4
<1>17. Timed'
  <2>. SUFFICES ASSUME NEW q \in D, regime = "plain" \/ (regime = "pausing" /\ q = Root)
                PROVE  tree'[q].cur + tree'[q].total
                       + (IF tree'[q].rec > 0 /\ ~paused' THEN now' - tree'[q].start ELSE 0) = tree'[q].ran
    BY <1>5, <1>b DEF Timed, Since
  <2>1. CASE q = p
    <3>0. t[p] \in ProfNode
      BY <1>a
    <3>1. t[p].cur \in Int /\ t[p].total \in Int
      BY <3>0, NodeFields
    <3>. QED
      BY <1>3, <1>4, <1>5, <1>a, <1>b, <2>1, <3>1
  <2>2. CASE q # p
    <3>1. q \in DOMAIN tree /\ tree'[q] = tree[q]
      BY <1>6, <2>2
    <3>. QED
      BY <1>0, <1>b, <3>1 DEF Timed, Since
  <2>. QED
    BY <2>1, <2>2
<1>. QED
  BY <1>9, <1>10, <1>11, <1>12, <1>13, <1>14, <1>15, <1>16, <1>17 DEF ProfInv

LEMMA ProfClimbs ==
  ASSUME ProfInv, ExitScope, enabled > 0, cursor # Root
  PROVE  ProfInv'
<1>. DEFINE D == DOMAIN tree
<1>0. /\ ProfTyped /\ ProfTypeOK /\ AboveThere /\ EnteredIsPath /\ DepthIsCursor
      /\ RootEnteredOnce /\ Nested /\ Stacked /\ Timed
  BY DEF ProfInv
<1>1. /\ cursor \in DOMAIN tree /\ cursor \in Seq(ScopeName) /\ DOMAIN tree \subseteq Seq(ScopeName)
      /\ Root \in DOMAIN tree /\ tree \in [D -> ProfNode] /\ cursor # <<>>
  BY <1>0 DEF EnteredIsPath, ProfTyped, Root
<1>2. /\ Front(cursor) \in Seq(ScopeName) /\ Len(Front(cursor)) = Len(cursor) - 1
      /\ Len(cursor) \in Nat \ {0}
      /\ \A i \in 0 .. Len(cursor) - 1 : SubSeq(Front(cursor), 1, i) = SubSeq(cursor, 1, i)
      /\ \A q \in Seq(ScopeName) : IsPrefix(q, Front(cursor)) <=> IsPrefix(q, cursor) /\ q # cursor
  BY <1>1, Fronted
<1>3. Front(cursor) \in DOMAIN tree
  <2>1. /\ Len(cursor) - 1 \in 0 .. Len(cursor) /\ Len(cursor) - 1 \in 0 .. Len(Front(cursor))
    BY <1>2
  <2>2. SubSeq(cursor, 1, Len(cursor) - 1) \in DOMAIN tree
    BY <1>0, <1>1, <2>1 DEF AboveThere
  <2>. QED
    BY <2>2 DEF Front
<1>4. now \in Int /\ now \in 0 .. MaxTime
  BY <1>0, ProfAssumption DEF ProfTypeOK
<1>5. tree[cursor].rec = 1
  <2>1. IsPrefix(cursor, cursor)
    BY <1>1, <1>2, PrefixIs
  <2>. QED
    BY <1>0, <1>1, <2>1 DEF EnteredIsPath
<1>6. /\ ExitNode(cursor) /\ cursor' = Front(cursor) /\ nesting' = nesting - 1
      /\ atRoot' = (atRoot \/ cursor = Root \/ nesting' <= 1)
      /\ enabled' = enabled /\ age' = age /\ groups' = groups /\ open' = open - 1 /\ open > 0
      /\ now' = now /\ regime' = regime /\ paused' = paused /\ overflowed' = overflowed /\ ~paused
  <2>1. Leaves(cursor)
    BY <1>5 DEF Leaves
  <2>2. nesting > 0
    BY <1>0, <1>2 DEF DepthIsCursor
  <2>. QED
    BY <2>1, <2>2 DEF ExitScope
<1>7. /\ tree' \in [D -> ProfNode] /\ DOMAIN tree' = D
      /\ \A q \in D : q # cursor => tree'[q] = tree[q]
      /\ tree'[cursor].rec = 0 /\ tree'[cursor].group = tree[cursor].group
      /\ tree'[cursor].start = tree[cursor].start
      /\ tree'[cursor].cur = tree[cursor].cur + now - tree[cursor].start
      /\ tree'[cursor].total = tree[cursor].total /\ tree'[cursor].ran = tree[cursor].ran
      /\ groupStack' = Popped(groupStack)
  <2>. HIDE DEF D
  <2>1. tree \in [D -> ProfNode] /\ cursor \in D /\ now \in Int /\ ExitNode(cursor)
    BY <1>1, <1>4, <1>6 DEF D
  <2>2. /\ tree' \in [D -> ProfNode] /\ DOMAIN tree' = D
        /\ \A q \in D : q # cursor => tree'[q] = tree[q]
        /\ tree'[cursor].rec = tree[cursor].rec - 1 /\ tree'[cursor].group = tree[cursor].group
        /\ tree'[cursor].start = tree[cursor].start
        /\ tree'[cursor].cur = IF tree[cursor].rec <= 1 THEN tree[cursor].cur + now - tree[cursor].start
                                                        ELSE tree[cursor].cur
        /\ tree'[cursor].total = tree[cursor].total /\ tree'[cursor].ran = tree[cursor].ran
        /\ groupStack' = IF tree[cursor].rec <= 1 THEN Popped(groupStack) ELSE groupStack
    BY ONLY <2>1, Exits
  <2>. QED
    BY <1>5, <2>2
<1>8. /\ groupStack \in Seq(Nat) /\ Len(groupStack) \in 1 .. GroupDepth
      /\ groupStack' \in Seq(Nat) /\ Len(groupStack') \in 1 .. GroupDepth
      /\ Len(groupStack) > 1 =>
           /\ Len(groupStack') = Len(groupStack) - 1
           /\ \A i \in 1 .. Len(groupStack) - 1 : groupStack'[i] = groupStack[i]
  <2>1. groupStack \in Seq(Nat) /\ Len(groupStack) \in 1 .. GroupDepth
    BY <1>0 DEF ProfTyped, ProfTypeOK
  <2>. QED
    BY <1>7, <2>1, PoppedIs
<1>9. ProfTyped'
  <2>1. {atRoot', paused', overflowed'} \subseteq BOOLEAN
    BY <1>0, <1>6 DEF ProfTyped
  <2>. QED
    BY <1>0, <1>6, <1>7, <1>8, <2>1 DEF ProfTyped
<1>10. ProfTypeOK'
  <2>1. nesting - 1 \in 0 .. MaxNesting /\ open - 1 \in 0 .. MaxScopes
    BY <1>0, <1>2, <1>6, ProfAssumption, SMTT(30) DEF ProfTypeOK, DepthIsCursor
  <2>. QED
    BY <1>0, <1>4, <1>6, <1>7, <1>8, <2>1 DEF ProfTypeOK
<1>11. AboveThere'
  BY <1>0, <1>7 DEF AboveThere
<1>12. EnteredIsPath'
  <2>. SUFFICES ASSUME NEW q \in D \ {Root}
                PROVE  tree'[q].rec = IF IsPrefix(q, Front(cursor)) THEN 1 ELSE 0
    BY <1>3, <1>6, <1>7 DEF EnteredIsPath
  <2>0. q \in Seq(ScopeName)
    BY <1>1
  <2>1. CASE q = cursor
    BY <1>2, <1>7, <2>0, <2>1
  <2>2. CASE q # cursor
    <3>1. tree[q].rec = IF IsPrefix(q, cursor) THEN 1 ELSE 0
      BY <1>0 DEF EnteredIsPath
    <3>. QED
      BY <1>2, <1>7, <2>0, <2>2, <3>1
  <2>. QED
    BY <2>1, <2>2
<1>13. DepthIsCursor'
  <2>1. nesting' = Len(cursor') /\ nesting' \in Int
    BY <1>0, <1>2, <1>6 DEF DepthIsCursor
  <2>2. ASSUME cursor' = Root PROVE nesting' <= 1
    BY <2>1, <2>2 DEF Root
  <2>3. cursor' = Root => atRoot'
    BY <1>6, <2>2, Zenon
  <2>. QED
    BY <2>1, <2>3 DEF DepthIsCursor
<1>14. RootEnteredOnce'
  BY <1>0, <1>1, <1>6, <1>7 DEF RootEnteredOnce
<1>15. Nested'
  BY <1>0, <1>2, <1>6 DEF Nested
<1>16. Stacked'
  <2>. SUFFICES ASSUME regime # "straddling", ~overflowed
                PROVE  /\ Len(groupStack') = 2 + Len(Front(cursor))
                       /\ groupStack'[1] = 0
                       /\ groupStack'[2] = tree'[Root].group
                       /\ \A i \in 1 .. Len(Front(cursor)) :
                            groupStack'[2 + i] = tree'[SubSeq(Front(cursor), 1, i)].group
    BY <1>6 DEF Stacked, BelowScopes
  <2>1. /\ Len(groupStack) = 2 + Len(cursor)
        /\ groupStack[1] = 0 /\ groupStack[2] = tree[Root].group
        /\ \A i \in 1 .. Len(cursor) : groupStack[2 + i] = tree[SubSeq(cursor, 1, i)].group
    BY <1>0 DEF Stacked, BelowScopes
  <2>2. /\ Len(groupStack') = 1 + Len(cursor)
        /\ \A i \in 1 .. Len(cursor) + 1 : groupStack'[i] = groupStack[i]
    BY <1>2, <1>8, <2>1, SMTT(30)
  <2>3. tree'[Root] = tree[Root]
    BY <1>1, <1>7
  <2>4. ASSUME NEW i \in 1 .. Len(cursor) - 1
        PROVE  groupStack'[2 + i] = tree'[SubSeq(Front(cursor), 1, i)].group
    <3>1. /\ i \in 1 .. Len(cursor) /\ i \in 0 .. Len(cursor) /\ i \in 0 .. Len(cursor) - 1
          /\ 2 + i \in 1 .. Len(cursor) + 1
      BY <1>2
    <3>2. SubSeq(cursor, 1, i) \in D /\ SubSeq(cursor, 1, i) # cursor
      <4>1. Len(SubSeq(cursor, 1, i)) = i
        BY <1>1, <3>1, SubIs
      <4>. QED
        BY <1>0, <1>1, <1>2, <3>1, <4>1 DEF AboveThere
    <3>3. tree'[SubSeq(cursor, 1, i)] = tree[SubSeq(cursor, 1, i)]
      BY <1>7, <3>2
    <3>4. groupStack'[2 + i] = groupStack[2 + i]
      BY <2>2, <3>1
    <3>5. groupStack[2 + i] = tree[SubSeq(cursor, 1, i)].group
      BY <2>1, <3>1
    <3>6. SubSeq(Front(cursor), 1, i) = SubSeq(cursor, 1, i)
      BY <1>2, <3>1
    <3>. QED
      BY <3>3, <3>4, <3>5, <3>6
  <2>. QED
    BY <1>2, <2>1, <2>2, <2>3, <2>4
<1>17. Timed'
  <2>. SUFFICES ASSUME NEW q \in D, regime = "plain" \/ (regime = "pausing" /\ q = Root)
                PROVE  tree'[q].cur + tree'[q].total
                       + (IF tree'[q].rec > 0 /\ ~paused' THEN now' - tree'[q].start ELSE 0) = tree'[q].ran
    BY <1>6, <1>7 DEF Timed, Since
  <2>0. tree[q].cur + tree[q].total + (IF tree[q].rec > 0 /\ ~paused THEN now - tree[q].start ELSE 0) = tree[q].ran
    BY <1>0 DEF Timed, Since
  <2>1. CASE q = cursor
    <3>0. tree[cursor] \in ProfNode
      BY <1>1
    <3>1. tree[cursor].cur \in Int /\ tree[cursor].total \in Int /\ tree[cursor].start \in Int
      BY <3>0, NodeFields
    <3>. QED
      BY <1>4, <1>5, <1>6, <1>7, <2>0, <2>1, <3>1
  <2>2. CASE q # cursor
    <3>1. tree'[q] = tree[q]
      BY <1>7, <2>2
    <3>. QED
      BY <1>6, <2>0, <3>1
  <2>. QED
    BY <2>1, <2>2
<1>. QED
  BY <1>9, <1>10, <1>11, <1>12, <1>13, <1>14, <1>15, <1>16, <1>17 DEF ProfInv

(* The steps that go nowhere: nodes, cursor and depth stay, and with them  *)
(* what holds whatever the caller does.                                    *)
Stays ==
  /\ tree' \in [DOMAIN tree -> ProfNode]
  /\ \A q \in DOMAIN tree \ {Root} : tree'[q].rec = tree[q].rec
  /\ UNCHANGED <<cursor, age, groups, nesting, regime>>
  /\ atRoot' \in BOOLEAN /\ (cursor = Root => atRoot')
  /\ enabled' \in 0 .. MaxStarts /\ open' \in 0 .. MaxScopes /\ now' \in 0 .. MaxTime
  /\ groupStack' \in Seq(Nat) /\ Len(groupStack') \in 1 .. GroupDepth
  /\ {paused', overflowed'} \subseteq BOOLEAN /\ (paused' => regime = "pausing")

LEMMA ShapeStays ==
  ASSUME ProfInv, Stays
  PROVE  ProfTyped' /\ ProfTypeOK' /\ AboveThere' /\ EnteredIsPath' /\ DepthIsCursor'
<1>0. /\ ProfTyped /\ ProfTypeOK /\ AboveThere /\ EnteredIsPath /\ DepthIsCursor
  BY DEF ProfInv
<1>1. /\ tree' \in [DOMAIN tree -> ProfNode] /\ DOMAIN tree' = DOMAIN tree
      /\ \A q \in DOMAIN tree \ {Root} : tree'[q].rec = tree[q].rec
      /\ cursor' = cursor /\ age' = age /\ groups' = groups /\ nesting' = nesting /\ regime' = regime
      /\ atRoot' \in BOOLEAN /\ (cursor = Root => atRoot')
      /\ enabled' \in 0 .. MaxStarts /\ open' \in 0 .. MaxScopes /\ now' \in 0 .. MaxTime
      /\ groupStack' \in Seq(Nat) /\ Len(groupStack') \in 1 .. GroupDepth
      /\ paused' \in BOOLEAN /\ overflowed' \in BOOLEAN /\ (paused' => regime = "pausing")
  BY DEF Stays
<1>2. ProfTyped'
  BY <1>0, <1>1 DEF ProfTyped
<1>3. ProfTypeOK'
  BY <1>0, <1>1 DEF ProfTypeOK
<1>4. AboveThere'
  BY <1>0, <1>1 DEF AboveThere
<1>5. EnteredIsPath'
  BY <1>0, <1>1 DEF EnteredIsPath
<1>6. DepthIsCursor'
  BY <1>0, <1>1 DEF DepthIsCursor
<1>. QED
  BY <1>2, <1>3, <1>4, <1>5, <1>6

(* What every step starts from.                                            *)
LEMMA ProfHas ==
  ASSUME ProfInv
  PROVE  /\ tree \in [DOMAIN tree -> ProfNode] /\ Root \in DOMAIN tree
         /\ tree[Root] \in ProfNode
         /\ enabled \in 0 .. MaxStarts /\ open \in 0 .. MaxScopes /\ now \in 0 .. MaxTime
         /\ {enabled, open, now} \subseteq Int
         /\ groupStack \in Seq(Nat) /\ Len(groupStack) \in 1 .. GroupDepth
         /\ {atRoot, paused, overflowed} \subseteq BOOLEAN /\ (paused => regime = "pausing")
         /\ cursor = Root => atRoot
         /\ cursor \in Seq(ScopeName) /\ cursor \in DOMAIN tree /\ (cursor = Root <=> Len(cursor) = 0)
         /\ \A p \in DOMAIN tree :
              /\ tree[p] \in ProfNode /\ tree[p].rec \in Int /\ tree[p].group \in Nat
              /\ tree[p].start \in Int /\ tree[p].cur \in Int /\ tree[p].total \in Int
              /\ tree[p].ran \in Int
<1>1. /\ ProfTyped /\ ProfTypeOK /\ EnteredIsPath /\ DepthIsCursor
  BY DEF ProfInv
<1>2. /\ tree \in [DOMAIN tree -> ProfNode] /\ Root \in DOMAIN tree
      /\ groupStack \in Seq(Nat) /\ {atRoot, paused, overflowed} \subseteq BOOLEAN
      /\ (paused => regime = "pausing") /\ DOMAIN tree \subseteq Seq(ScopeName)
  BY <1>1 DEF ProfTyped
<1>3. ASSUME NEW p \in DOMAIN tree
      PROVE  /\ tree[p] \in ProfNode /\ tree[p].rec \in Int /\ tree[p].group \in Nat
             /\ tree[p].start \in Int /\ tree[p].cur \in Int /\ tree[p].total \in Int
             /\ tree[p].ran \in Int
  <2>1. tree[p] \in ProfNode
    BY <1>2, <1>3
  <2>. QED
    BY <2>1, NodeFields
<1>4. /\ enabled \in 0 .. MaxStarts /\ open \in 0 .. MaxScopes /\ now \in 0 .. MaxTime
      /\ {enabled, open, now} \subseteq Int /\ Len(groupStack) \in 1 .. GroupDepth
  BY <1>1, ProfAssumption DEF ProfTypeOK
<1>5. cursor \in DOMAIN tree /\ cursor \in Seq(ScopeName) /\ (cursor = Root => atRoot)
  BY <1>1, <1>2 DEF EnteredIsPath, DepthIsCursor
<1>6. cursor = Root <=> Len(cursor) = 0
  BY <1>5 DEF Root
<1>. QED
  BY <1>2, <1>3, <1>4, <1>5, <1>6

(* A scope that opens or closes while the profiler is disabled.            *)
LEMMA ProfIdles ==
  ASSUME ProfInv, enabled = 0, UNCHANGED <<scopeVars, overflowed, now, regime, paused>>,
         open' \in 0 .. MaxScopes
  PROVE  ProfInv'
<1>0. RootEnteredOnce /\ Nested /\ Stacked /\ Timed
  BY DEF ProfInv
<1>1. /\ tree' = tree /\ cursor' = cursor /\ age' = age /\ groups' = groups /\ groupStack' = groupStack
      /\ nesting' = nesting /\ atRoot' = atRoot /\ enabled' = enabled /\ now' = now
      /\ regime' = regime /\ paused' = paused /\ overflowed' = overflowed
  BY DEF scopeVars
<1>2. Stays
  BY <1>1, ProfHas DEF Stays
<1>3. RootEnteredOnce'
  BY <1>0, <1>1 DEF RootEnteredOnce
<1>4. Nested'
  BY <1>0, <1>1 DEF Nested
<1>5. Stacked'
  BY <1>0, <1>1 DEF Stacked, BelowScopes
<1>6. Timed'
  BY <1>0, <1>1 DEF Timed, Since
<1>. QED
  BY <1>2, <1>3, <1>4, <1>5, <1>6, ShapeStays DEF ProfInv

(* A scope that closes at the root: only where Start and Stop straddle.    *)
LEMMA ProfStrays ==
  ASSUME ProfInv, ExitScope, enabled > 0, cursor = Root
  PROVE  ProfInv'
<1>0. Nested /\ DepthIsCursor
  BY DEF ProfInv
<1>1. /\ ExitNode(Root) /\ cursor' = Root /\ open > 0 /\ open' = open - 1
      /\ nesting' = (IF nesting > 0 THEN nesting - 1 ELSE 0)
      /\ atRoot' = (atRoot \/ cursor = Root \/ nesting' <= 1)
      /\ enabled' = enabled /\ age' = age /\ groups' = groups /\ now' = now
      /\ regime' = regime /\ paused' = paused /\ overflowed' = overflowed
  BY DEF ExitScope
<1>2. regime = "straddling"
  BY <1>0, <1>1, ProfHas DEF Nested
<1>3. nesting = 0 /\ nesting' = nesting
  BY <1>0, <1>1, ProfHas DEF DepthIsCursor
<1>4. tree' \in [DOMAIN tree -> ProfNode] /\ \A q \in DOMAIN tree \ {Root} : tree'[q] = tree[q]
  <2>. DEFINE D == DOMAIN tree
  <2>1. tree \in [D -> ProfNode] /\ Root \in D /\ now \in Int /\ ExitNode(Root)
    BY <1>1, ProfHas
  <2>. HIDE DEF D
  <2>2. tree' \in [D -> ProfNode] /\ \A q \in D : q # Root => tree'[q] = tree[q]
    BY ONLY <2>1, Exits
  <2>. QED
    BY <2>2 DEF D
<1>5. groupStack' \in Seq(Nat) /\ Len(groupStack') \in 1 .. GroupDepth
  <2>1. groupStack' = groupStack \/ groupStack' = Popped(groupStack)
    BY <1>1 DEF ExitNode
  <2>. QED
    BY <2>1, ProfHas, PoppedIs
<1>6. atRoot' = TRUE
  BY <1>1, Zenon
<1>7. Stays
  BY <1>1, <1>3, <1>4, <1>5, <1>6, ProfHas, ProfAssumption, SMTT(30) DEF Stays
<1>8. RootEnteredOnce' /\ Nested' /\ Stacked' /\ Timed'
  BY <1>1, <1>2 DEF RootEnteredOnce, Nested, Stacked, Timed
<1>. QED
  BY <1>7, <1>8, ShapeStays DEF ProfInv

LEMMA RangeGrows ==
  ASSUME NEW S, NEW s \in Seq(S), NEW p \in S
  PROVE  Append(s, p) \in Seq(S) /\ Range(Append(s, p)) = Range(s) \cup {p}
<1>. DEFINE a == Append(s, p)
<1>1. /\ a \in Seq(S) /\ DOMAIN a = 1 .. Len(s) + 1 /\ DOMAIN s = 1 .. Len(s) /\ Len(s) \in Nat
      /\ a[Len(s) + 1] = p /\ \A i \in 1 .. Len(s) : a[i] = s[i]
  OBVIOUS
<1>. HIDE DEF a
<1>2. Range(a) = Range(s) \cup {p}
  BY <1>1 DEF Range
<1>. QED
  BY <1>1, <1>2 DEF a

LEMMA NewNodeIs ==
  ASSUME NEW g \in Nat
  PROVE  /\ NewNode(g) \in ProfNode /\ NewNode(g).rec = 0
         /\ NewNode(g).cur = 0 /\ NewNode(g).total = 0 /\ NewNode(g).ran = 0
BY DEF NewNode, ProfNode

LEMMA ProfEntersScope ==
  ASSUME ProfInv, NEW name \in ScopeName, EnterScope(name), enabled > 0
  PROVE  ProfInv'
<1>. DEFINE p == Append(cursor, name)
<1>0. ProfTyped /\ ProfTypeOK /\ EnteredIsPath /\ Timed
  BY DEF ProfInv
<1>1. p \in Seq(ScopeName) /\ p # Root /\ p # cursor /\ ~IsPrefix(p, cursor)
  <2>1. p \in Seq(ScopeName) /\ Len(p) = Len(cursor) + 1 /\ Len(cursor) \in Nat
    BY ProfHas, Appended
  <2>. HIDE DEF p
  <2>. QED
    BY <2>1, ProfHas, PrefixIs DEF Root
<1>2. /\ open < MaxScopes /\ nesting < MaxNesting /\ ~paused /\ enabled > 0 /\ open' = open + 1
      /\ cursor' = p /\ nesting' = nesting + 1 /\ atRoot' = FALSE
      /\ enabled' = enabled /\ now' = now /\ regime' = regime /\ paused' = paused
  BY DEF EnterScope
<1>3. CASE p \in DOMAIN tree
  <2>1. EnterNode(tree, p) /\ age' = age /\ groups' = groups
    BY <1>2, <1>3 DEF EnterScope
  <2>2. tree[p].rec = 0
    BY <1>0, <1>1, <1>3 DEF EnteredIsPath
  <2>3. regime = "plain" => tree[p].cur + tree[p].total = tree[p].ran
    BY <1>0, <1>3, <2>2, ProfHas DEF Timed, Since
  <2>4. DOMAIN tree \cup {p} = DOMAIN tree
    BY <1>3
  <2>5. GoesDown(p, tree)
    BY <1>0, <1>2, <1>3, <2>1, <2>2, <2>3, <2>4, ProfHas DEF GoesDown, ProfTyped, ProfTypeOK
  <2>. QED
    BY <2>5, ProfEnters
<1>4. CASE p \notin DOMAIN tree
  <2>. DEFINE g == GroupFor(GroupOf[name], cursor)
              e == NewNode(g)
              t == [q \in DOMAIN tree \cup {p} |-> IF q = p THEN e ELSE tree[q]]
  <2>1. EnterNode(t, p) /\ age' = Append(age, p) /\ groups' = GroupsWith(GroupOf[name])
    BY <1>2, <1>4 DEF EnterScope
  <2>2. g \in Nat
    <3>1. tree[cursor].group \in Nat
      BY ProfHas
    <3>2. GroupId(GroupOf[name]) \in Nat
      BY <1>0, GroupIds DEF ProfTyped, ProfTypeOK
    <3>. QED
      BY <3>1, <3>2 DEF GroupFor
  <2>. HIDE DEF g
  <2>3. e \in ProfNode /\ e.rec = 0 /\ e.cur = 0 /\ e.total = 0 /\ e.ran = 0
    BY <2>2, NewNodeIs
  <2>4. /\ groups' \in Seq({GroupOf[n] : n \in ScopeName}) /\ Len(groups') <= MaxGroups
    BY <1>0, <2>1, GroupIds DEF ProfTyped, ProfTypeOK
  <2>5. /\ age' \in Seq(Seq(ScopeName)) /\ Range(age') = (DOMAIN tree \cup {p}) \ {Root}
    <3>1. age \in Seq(Seq(ScopeName)) /\ Range(age) = DOMAIN tree \ {Root}
      BY <1>0 DEF ProfTyped, ProfTypeOK
    <3>. HIDE DEF p
    <3>2. age' \in Seq(Seq(ScopeName)) /\ Range(age') = Range(age) \cup {p}
      BY <1>1, <2>1, <3>1, RangeGrows
    <3>. QED
      BY <1>1, <3>1, <3>2
  <2>. HIDE DEF p, e
  <2>6. /\ t \in [DOMAIN tree \cup {p} -> ProfNode]
        /\ \A q \in DOMAIN tree : t[q] = tree[q]
        /\ t[p] = e
    BY <1>4, <2>3, ProfHas
  <2>. HIDE DEF t
  <2>7. GoesDown(p, t)
    BY <1>2, <2>1, <2>3, <2>4, <2>5, <2>6 DEF GoesDown
  <2>. QED
    BY <2>7, ProfEnters DEF p
<1>. QED
  BY <1>3, <1>4

(* Start and Stop enter and leave the root.                                *)
LEMMA ProfStarts ==
  ASSUME ProfInv, Start
  PROVE  ProfInv'
<1>0. RootEnteredOnce /\ Nested /\ Stacked /\ Timed
  BY DEF ProfInv
<1>1. /\ cursor' = cursor /\ age' = age /\ groups' = groups /\ nesting' = nesting /\ atRoot' = atRoot
      /\ now' = now /\ regime' = regime /\ open' = open /\ paused' = paused /\ ~paused
      /\ enabled' = enabled + 1 /\ enabled < MaxStarts /\ (regime = "straddling" \/ open = 0)
  BY DEF Start, MaySwitch
<1>2. enabled' \in 0 .. MaxStarts /\ enabled' > 0
  BY <1>1, ProfHas, ProfAssumption
<1>3. CASE enabled > 0
  <2>1. tree' = tree /\ groupStack' = groupStack /\ overflowed' = overflowed
    BY <1>3 DEF Start
  <2>2. Stays
    BY <1>1, <1>2, <2>1, ProfHas DEF Stays
  <2>3. RootEnteredOnce'
    BY <1>0, <1>1, <1>2, <1>3, <2>1 DEF RootEnteredOnce
  <2>4. Nested'
    BY <1>0, <1>1, <1>2, <1>3 DEF Nested
  <2>5. Stacked'
    BY <1>0, <1>1, <1>2, <1>3, <2>1 DEF Stacked, BelowScopes
  <2>6. Timed'
    BY <1>0, <1>1, <2>1 DEF Timed, Since
  <2>. QED
    BY <2>2, <2>3, <2>4, <2>5, <2>6, ShapeStays DEF ProfInv
<1>4. CASE enabled = 0
  <2>. DEFINE D == DOMAIN tree
  <2>1. EnterNode(tree, Root)
    BY <1>4 DEF Start
  <2>2. /\ tree' \in [D -> ProfNode] /\ DOMAIN tree' = D
        /\ \A q \in D : q # Root => tree'[q] = tree[q]
        /\ tree'[Root].rec = tree[Root].rec + 1 /\ tree'[Root].group = tree[Root].group
        /\ tree'[Root].start = IF tree[Root].rec = 0 THEN now ELSE tree[Root].start
        /\ tree'[Root].cur = tree[Root].cur /\ tree'[Root].total = tree[Root].total
        /\ tree'[Root].ran = tree[Root].ran
    <3>1. tree \in [D -> ProfNode] /\ Root \in D /\ now \in Int /\ EnterNode(tree, Root)
      BY <2>1, ProfHas
    <3>. HIDE DEF D
    <3>. QED
      BY ONLY <3>1, Enters
  <2>3. /\ groupStack' \in Seq(Nat) /\ Len(groupStack') \in 1 .. GroupDepth /\ overflowed' \in BOOLEAN
    <3>1. groupStack' = groupStack \/ groupStack' = Pushed(tree[Root].group)
      BY <2>1 DEF EnterNode
    <3>2. groupStack' \in Seq(Nat) /\ Len(groupStack') \in 1 .. GroupDepth
      BY <3>1, ProfHas, PushedIs
    <3>3. overflowed' = overflowed \/ overflowed' = (overflowed \/ Len(groupStack) >= GroupDepth)
      BY <2>1 DEF EnterNode
    <3>4. overflowed' \in BOOLEAN
      BY <3>3, ProfHas
    <3>. QED
      BY <3>2, <3>4
  <2>4. Stays
    BY <1>1, <1>2, <2>2, <2>3, ProfHas DEF Stays
  <2>5. CASE regime = "straddling"
    <3>1. RootEnteredOnce' /\ Nested' /\ Stacked' /\ Timed'
      BY <1>1, <2>5 DEF RootEnteredOnce, Nested, Stacked, Timed
    <3>. QED
      BY <2>4, <3>1, ShapeStays DEF ProfInv
  <2>6. CASE regime # "straddling"
    <3>1. cursor = Root /\ open = 0 /\ tree[Root].rec = 0
      BY <1>0, <1>1, <1>4, <2>6, ProfHas DEF Nested, RootEnteredOnce
    <3>2. RootEnteredOnce'
      BY <1>2, <2>2, <3>1 DEF RootEnteredOnce
    <3>3. Nested'
      BY <1>1, <1>2, <3>1, ProfHas DEF Nested
    <3>4. Stacked'
      <4>. SUFFICES ASSUME ~overflowed'
                    PROVE  /\ Len(groupStack') = 2
                           /\ groupStack'[1] = 0
                           /\ groupStack'[2] = tree'[Root].group
        BY <1>1, <1>2, <3>1, ProfHas DEF Stacked, BelowScopes
      <4>1. /\ groupStack' = Pushed(tree[Root].group)
            /\ overflowed' = (overflowed \/ Len(groupStack) >= GroupDepth)
        BY <2>1, <3>1 DEF EnterNode
      <4>2. ~overflowed /\ ~(Len(groupStack) >= GroupDepth)
        BY <4>1, Zenon
      <4>3. Len(groupStack) < GroupDepth
        BY <4>2, ProfHas, ProfAssumption
      <4>4. Len(groupStack) = 1 /\ groupStack[1] = 0
        BY <1>0, <1>4, <2>6, <3>1, <4>2, ProfHas DEF Stacked, BelowScopes
      <4>5. /\ Len(groupStack') = Len(groupStack) + 1
            /\ groupStack'[Len(groupStack) + 1] = tree[Root].group
            /\ \A i \in 1 .. Len(groupStack) : groupStack'[i] = groupStack[i]
        BY <4>1, <4>3, ProfHas, PushedIs
      <4>. QED
        BY <2>2, <4>4, <4>5
    <3>5. Timed'
      <4>. SUFFICES ASSUME NEW q \in D, regime = "plain" \/ (regime = "pausing" /\ q = Root)
                    PROVE  tree'[q].cur + tree'[q].total
                           + (IF tree'[q].rec > 0 /\ ~paused THEN now - tree'[q].start ELSE 0) = tree'[q].ran
        BY <1>1, <2>2 DEF Timed, Since
      <4>1. tree[q].cur + tree[q].total
            + (IF tree[q].rec > 0 /\ ~paused THEN now - tree[q].start ELSE 0) = tree[q].ran
        BY <1>0 DEF Timed, Since
      <4>2. CASE q = Root
        BY <1>1, <2>2, <3>1, <4>1, <4>2, ProfHas
      <4>3. CASE q # Root
        BY <2>2, <4>1, <4>3
      <4>. QED
        BY <4>2, <4>3
    <3>. QED
      BY <2>4, <3>2, <3>3, <3>4, <3>5, ShapeStays DEF ProfInv
  <2>. QED
    BY <2>5, <2>6
<1>. QED
  BY <1>3, <1>4, ProfHas

LEMMA ProfStops ==
  ASSUME ProfInv, Stop
  PROVE  ProfInv'
<1>0. RootEnteredOnce /\ Nested /\ Stacked /\ Timed
  BY DEF ProfInv
<1>1. /\ cursor' = cursor /\ age' = age /\ groups' = groups /\ nesting' = nesting /\ atRoot' = atRoot
      /\ now' = now /\ regime' = regime /\ open' = open /\ paused' = paused /\ ~paused
      /\ overflowed' = overflowed
      /\ enabled' = (IF enabled = 0 THEN 0 ELSE enabled - 1) /\ (regime = "straddling" \/ open = 0)
  BY DEF Stop, MaySwitch, callerVars
<1>2. enabled' \in 0 .. MaxStarts
  BY <1>1, ProfHas, ProfAssumption
<1>3. CASE enabled # 1
  <2>0. enabled > 0 <=> enabled' > 0
    BY <1>1, <1>3, ProfHas
  <2>1. tree' = tree /\ groupStack' = groupStack
    BY <1>3 DEF Stop
  <2>2. Stays
    BY <1>1, <1>2, <2>1, ProfHas DEF Stays
  <2>3. RootEnteredOnce'
    BY <1>0, <1>1, <2>0, <2>1 DEF RootEnteredOnce
  <2>4. Nested'
    BY <1>0, <1>1, <2>0 DEF Nested
  <2>5. Stacked'
    BY <1>0, <1>1, <2>0, <2>1 DEF Stacked, BelowScopes
  <2>6. Timed'
    BY <1>0, <1>1, <2>1 DEF Timed, Since
  <2>. QED
    BY <2>2, <2>3, <2>4, <2>5, <2>6, ShapeStays DEF ProfInv
<1>4. CASE enabled = 1
  <2>. DEFINE D == DOMAIN tree
  <2>0. enabled' = 0
    BY <1>1, <1>4
  <2>1. ExitNode(Root)
    BY <1>4 DEF Stop
  <2>2. /\ tree' \in [D -> ProfNode] /\ DOMAIN tree' = D
        /\ \A q \in D : q # Root => tree'[q] = tree[q]
        /\ tree'[Root].rec = tree[Root].rec - 1 /\ tree'[Root].group = tree[Root].group
        /\ tree'[Root].start = tree[Root].start
        /\ tree'[Root].cur = IF tree[Root].rec <= 1 THEN tree[Root].cur + now - tree[Root].start
                                                    ELSE tree[Root].cur
        /\ tree'[Root].total = tree[Root].total /\ tree'[Root].ran = tree[Root].ran
        /\ groupStack' = IF tree[Root].rec <= 1 THEN Popped(groupStack) ELSE groupStack
    <3>1. tree \in [D -> ProfNode] /\ Root \in D /\ now \in Int /\ ExitNode(Root)
      BY <2>1, ProfHas
    <3>. HIDE DEF D
    <3>. QED
      BY ONLY <3>1, Exits
  <2>3. groupStack' \in Seq(Nat) /\ Len(groupStack') \in 1 .. GroupDepth
    BY <2>2, ProfHas, PoppedIs
  <2>4. Stays
    BY <1>1, <1>2, <2>2, <2>3, ProfHas DEF Stays
  <2>5. CASE regime = "straddling"
    <3>1. RootEnteredOnce' /\ Nested' /\ Stacked' /\ Timed'
      BY <1>1, <2>5 DEF RootEnteredOnce, Nested, Stacked, Timed
    <3>. QED
      BY <2>4, <3>1, ShapeStays DEF ProfInv
  <2>6. CASE regime # "straddling"
    <3>1. cursor = Root /\ open = 0 /\ tree[Root].rec = 1
      BY <1>0, <1>1, <1>4, <2>6, ProfHas DEF Nested, RootEnteredOnce
    <3>2. RootEnteredOnce'
      BY <2>0, <2>2, <3>1 DEF RootEnteredOnce
    <3>3. Nested'
      BY <1>1, <2>0, <3>1 DEF Nested
    <3>4. Stacked'
      <4>. SUFFICES ASSUME ~overflowed
                    PROVE  Len(groupStack') = 1 /\ groupStack'[1] = 0
        BY <1>1, <2>0, <3>1, ProfHas DEF Stacked, BelowScopes
      <4>1. Len(groupStack) = 2 /\ groupStack[1] = 0
        BY <1>0, <1>4, <2>6, <3>1, ProfHas DEF Stacked, BelowScopes
      <4>2. /\ Len(groupStack') = Len(groupStack) - 1
            /\ \A i \in 1 .. Len(groupStack) - 1 : groupStack'[i] = groupStack[i]
        BY <2>2, <3>1, <4>1, ProfHas, PoppedIs
      <4>. QED
        BY <4>1, <4>2
    <3>5. Timed'
      <4>. SUFFICES ASSUME NEW q \in D, regime = "plain" \/ (regime = "pausing" /\ q = Root)
                    PROVE  tree'[q].cur + tree'[q].total
                           + (IF tree'[q].rec > 0 /\ ~paused THEN now - tree'[q].start ELSE 0) = tree'[q].ran
        BY <1>1, <2>2 DEF Timed, Since
      <4>1. tree[q].cur + tree[q].total
            + (IF tree[q].rec > 0 /\ ~paused THEN now - tree[q].start ELSE 0) = tree[q].ran
        BY <1>0 DEF Timed, Since
      <4>2. CASE q = Root
        BY <1>1, <2>2, <3>1, <4>1, <4>2, ProfHas, SMTT(30)
      <4>3. CASE q # Root
        BY <2>2, <4>1, <4>3
      <4>. QED
        BY <4>2, <4>3
    <3>. QED
      BY <2>4, <3>2, <3>3, <3>4, <3>5, ShapeStays DEF ProfInv
  <2>. QED
    BY <2>5, <2>6
<1>. QED
  BY <1>3, <1>4

(* Frames and time change what nodes have counted, and nothing else.       *)
LEMMA NodeCounts ==
  ASSUME NEW r \in ProfNode, NEW b \in Int
  PROVE  \E e \in ProfNode :
           /\ e = [r EXCEPT !.cur = b] /\ e.cur = b
           /\ e.rec = r.rec /\ e.group = r.group /\ e.start = r.start
           /\ e.total = r.total /\ e.ran = r.ran
<1>. DEFINE e == [r EXCEPT !.cur = b]
<1>1. e \in ProfNode
  BY DEF ProfNode
<1>2. /\ e.cur = b
      /\ e.rec = r.rec /\ e.group = r.group /\ e.start = r.start
      /\ e.total = r.total /\ e.ran = r.ran
  BY DEF ProfNode
<1>. HIDE DEF e
<1>. QED
  BY <1>1, <1>2 DEF e

LEMMA NodeRestarts ==
  ASSUME NEW r \in ProfNode, NEW b \in Int
  PROVE  \E e \in ProfNode :
           /\ e = [r EXCEPT !.start = b] /\ e.start = b
           /\ e.rec = r.rec /\ e.group = r.group /\ e.cur = r.cur
           /\ e.total = r.total /\ e.ran = r.ran
<1>. DEFINE e == [r EXCEPT !.start = b]
<1>1. e \in ProfNode
  BY DEF ProfNode
<1>2. /\ e.start = b
      /\ e.rec = r.rec /\ e.group = r.group /\ e.cur = r.cur
      /\ e.total = r.total /\ e.ran = r.ran
  BY DEF ProfNode
<1>. HIDE DEF e
<1>. QED
  BY <1>1, <1>2 DEF e

LEMMA NodeRuns ==
  ASSUME NEW r \in ProfNode, NEW b \in Int
  PROVE  \E e \in ProfNode :
           /\ e = [r EXCEPT !.ran = b] /\ e.ran = b
           /\ e.rec = r.rec /\ e.group = r.group /\ e.start = r.start
           /\ e.cur = r.cur /\ e.total = r.total
<1>. DEFINE e == [r EXCEPT !.ran = b]
<1>1. e \in ProfNode
  BY DEF ProfNode
<1>2. /\ e.ran = b
      /\ e.rec = r.rec /\ e.group = r.group /\ e.start = r.start
      /\ e.cur = r.cur /\ e.total = r.total
  BY DEF ProfNode
<1>. HIDE DEF e
<1>. QED
  BY <1>1, <1>2 DEF e

LEMMA NodeMarks ==
  ASSUME NEW r \in ProfNode, NEW a \in Int
  PROVE  \E e \in ProfNode :
           /\ e = [r EXCEPT !.total = a, !.cur = 0] /\ e.total = a /\ e.cur = 0
           /\ e.rec = r.rec /\ e.group = r.group /\ e.start = r.start /\ e.ran = r.ran
<1>. DEFINE d == [r EXCEPT !.total = a]
            e == [d EXCEPT !.cur = 0]
<1>1. d \in ProfNode
  BY DEF ProfNode
<1>2. d.total = a /\ d.group = r.group /\ d.start = r.start
      /\ d.rec = r.rec /\ d.ran = r.ran
  BY DEF ProfNode
<1>3. [r EXCEPT !.total = a, !.cur = 0] = e
  OBVIOUS
<1>. HIDE DEF d
<1>4. e \in ProfNode
  BY <1>1 DEF ProfNode
<1>5. e.rec = d.rec /\ e.cur = 0 /\ e.group = d.group
      /\ e.start = d.start /\ e.total = d.total /\ e.ran = d.ran
  BY <1>1 DEF ProfNode
<1>. HIDE DEF e
<1>. QED
  BY <1>2, <1>3, <1>4, <1>5

LEMMA ProfCounts ==
  ASSUME ProfInv, tree' \in [DOMAIN tree -> ProfNode],
         \A p \in DOMAIN tree : tree'[p].rec = tree[p].rec /\ tree'[p].group = tree[p].group,
         UNCHANGED <<enabled, cursor, age, groups, groupStack, nesting, atRoot>>,
         UNCHANGED <<regime, open, overflowed>>,
         now' \in 0 .. MaxTime, paused' \in BOOLEAN, paused' => regime = "pausing", Timed'
  PROVE  ProfInv'
<1>0. RootEnteredOnce /\ Nested /\ Stacked /\ EnteredIsPath /\ AboveThere
  BY DEF ProfInv
<1>1. Stays
  BY ProfHas DEF Stays
<1>2. RootEnteredOnce'
  BY <1>0, ProfHas DEF RootEnteredOnce
<1>3. Nested'
  BY <1>0 DEF Nested
<1>4. Stacked'
  <2>1. ASSUME NEW i \in 1 .. Len(cursor)
        PROVE  tree'[SubSeq(cursor, 1, i)].group = tree[SubSeq(cursor, 1, i)].group
    BY <1>0 DEF AboveThere, EnteredIsPath
  <2>2. tree'[Root].group = tree[Root].group
    BY ProfHas
  <2>. QED
    BY <1>0, <2>1, <2>2 DEF Stacked, BelowScopes
<1>. QED
  BY <1>1, <1>2, <1>3, <1>4, ShapeStays DEF ProfInv

LEMMA ProfMarks ==
  ASSUME ProfInv, MarkFrame
  PROVE  ProfInv'
<1>0. Timed
  BY DEF ProfInv
<1>1. ASSUME NEW p \in DOMAIN tree
      PROVE  /\ tree'[p] \in ProfNode
             /\ tree'[p].rec = tree[p].rec /\ tree'[p].group = tree[p].group
             /\ tree'[p].start = tree[p].start /\ tree'[p].ran = tree[p].ran
             /\ tree'[p].cur = 0 /\ tree'[p].total = tree[p].total + tree[p].cur
  <2>1. tree'[p] = [tree[p] EXCEPT !.total = tree[p].total + tree[p].cur, !.cur = 0]
    BY DEF MarkFrame
  <2>2. PICK r \in ProfNode, a \in Int : r = tree[p] /\ a = tree[p].total + tree[p].cur
    BY ProfHas, SMTT(30)
  <2>3. PICK e \in ProfNode :
          /\ e = [r EXCEPT !.total = a, !.cur = 0] /\ e.total = a /\ e.cur = 0
          /\ e.rec = r.rec /\ e.group = r.group /\ e.start = r.start /\ e.ran = r.ran
    BY NodeMarks
  <2>4. tree'[p] = e
    BY <2>1, <2>2, <2>3
  <2>. QED
    BY <2>2, <2>3, <2>4
<1>2. tree' \in [DOMAIN tree -> ProfNode] /\ DOMAIN tree' = DOMAIN tree
  BY <1>1 DEF MarkFrame
<1>3. /\ UNCHANGED <<enabled, cursor, age, groups, groupStack, nesting, atRoot>>
      /\ now' = now /\ regime' = regime /\ open' = open /\ paused' = paused /\ overflowed' = overflowed
  BY DEF MarkFrame, callerVars
<1>4. Timed'
  <2>. SUFFICES ASSUME NEW q \in DOMAIN tree, regime = "plain" \/ (regime = "pausing" /\ q = Root)
                PROVE  tree'[q].cur + tree'[q].total
                       + (IF tree'[q].rec > 0 /\ ~paused THEN now - tree'[q].start ELSE 0) = tree'[q].ran
    BY <1>2, <1>3 DEF Timed, Since
  <2>1. tree[q].cur + tree[q].total
        + (IF tree[q].rec > 0 /\ ~paused THEN now - tree[q].start ELSE 0) = tree[q].ran
    BY <1>0 DEF Timed, Since
  <2>2. /\ tree'[q].cur = 0 /\ tree'[q].total = tree[q].total + tree[q].cur
        /\ tree'[q].rec = tree[q].rec /\ tree'[q].start = tree[q].start /\ tree'[q].ran = tree[q].ran
    BY <1>1
  <2>3. /\ tree[q].cur \in Int /\ tree[q].total \in Int
        /\ tree[q].ran \in Int /\ tree[q].start \in Int /\ now \in Int
    BY ProfHas
  <2>4. PICK c \in Int, t \in Int, x \in Int :
          /\ c = tree[q].cur /\ t = tree[q].total
          /\ x = IF tree[q].rec > 0 /\ ~paused THEN now - tree[q].start ELSE 0
    BY <2>3
  <2>5. c + t + x = tree[q].ran
    BY <2>1, <2>4
  <2>6. tree'[q].cur = 0 /\ tree'[q].total = t + c
    BY <2>2, <2>4
  <2>7. x = IF tree'[q].rec > 0 /\ ~paused THEN now - tree'[q].start ELSE 0
    BY <2>2, <2>4
  <2>8. 0 + (t + c) + x = c + t + x
    OBVIOUS
  <2>. QED
    BY <2>2, <2>5, <2>6, <2>7, <2>8
<1>. QED
  BY <1>1, <1>2, <1>3, <1>4, ProfHas, ProfCounts

(* The root is always one of those that Pause and Resume reach.            *)
LEMMA RootIsReached ==
  ASSUME ProfInv
  PROVE  Root \in Running <=> tree[Root].rec > 0
<1>1. Reached(Root)
  BY DEF Reached, Root
<1>. QED
  BY <1>1, ProfHas DEF Running

LEMMA ProfPauses ==
  ASSUME ProfInv, Pause
  PROVE  ProfInv'
<1>0. Timed
  BY DEF ProfInv
<1>1. ASSUME NEW p \in DOMAIN tree
      PROVE  /\ tree'[p] \in ProfNode
             /\ tree'[p].rec = tree[p].rec /\ tree'[p].group = tree[p].group
             /\ tree'[p].start = tree[p].start /\ tree'[p].ran = tree[p].ran
             /\ tree'[p].total = tree[p].total
             /\ tree'[p].cur = IF p \in Running THEN tree[p].cur + now - tree[p].start
                                                ELSE tree[p].cur
  <2>1. CASE p \in Running
    <3>1. tree'[p] = [tree[p] EXCEPT !.cur = tree[p].cur + now - tree[p].start]
      BY <2>1 DEF Pause
    <3>2. PICK r \in ProfNode, b \in Int : r = tree[p] /\ b = tree[p].cur + now - tree[p].start
      BY ProfHas
    <3>3. PICK e \in ProfNode :
            /\ e = [r EXCEPT !.cur = b] /\ e.cur = b
            /\ e.rec = r.rec /\ e.group = r.group /\ e.start = r.start
            /\ e.total = r.total /\ e.ran = r.ran
      BY NodeCounts
    <3>4. tree'[p] = e
      BY <3>1, <3>2, <3>3
    <3>. QED
      BY <2>1, <3>2, <3>3, <3>4
  <2>2. CASE p \notin Running
    <3>1. tree'[p] = tree[p]
      BY <2>2 DEF Pause
    <3>. QED
      BY <2>2, <3>1, ProfHas
  <2>. QED
    BY <2>1, <2>2
<1>2. tree' \in [DOMAIN tree -> ProfNode] /\ DOMAIN tree' = DOMAIN tree
  BY <1>1 DEF Pause
<1>3. /\ UNCHANGED <<enabled, cursor, age, groups, groupStack, nesting, atRoot>>
      /\ now' = now /\ regime' = regime /\ open' = open /\ paused' = TRUE /\ overflowed' = overflowed
      /\ regime = "pausing" /\ ~paused
  BY DEF Pause
<1>4. Timed'
  <2>. SUFFICES ASSUME NEW q \in DOMAIN tree, q = Root
                PROVE  tree'[q].cur + tree'[q].total
                       + (IF tree'[q].rec > 0 /\ ~paused' THEN now' - tree'[q].start ELSE 0) = tree'[q].ran
    BY <1>2, <1>3 DEF Timed, Since
  <2>1. tree[Root].cur + tree[Root].total
        + (IF tree[Root].rec > 0 THEN now - tree[Root].start ELSE 0) = tree[Root].ran
    BY <1>0, <1>3, ProfHas DEF Timed, Since
  <2>. QED
    BY <1>1, <1>3, <2>1, ProfHas, RootIsReached, SMTT(30)
<1>. QED
  BY <1>1, <1>2, <1>3, <1>4, ProfHas, ProfCounts

LEMMA ProfResumes ==
  ASSUME ProfInv, Resume
  PROVE  ProfInv'
<1>0. Timed
  BY DEF ProfInv
<1>1. ASSUME NEW p \in DOMAIN tree
      PROVE  /\ tree'[p] \in ProfNode
             /\ tree'[p].rec = tree[p].rec /\ tree'[p].group = tree[p].group
             /\ tree'[p].cur = tree[p].cur /\ tree'[p].ran = tree[p].ran
             /\ tree'[p].total = tree[p].total
             /\ tree'[p].start = IF p \in Running THEN now ELSE tree[p].start
  <2>1. CASE p \in Running
    <3>1. tree'[p] = [tree[p] EXCEPT !.start = now]
      BY <2>1 DEF Resume
    <3>2. PICK r \in ProfNode, b \in Int : r = tree[p] /\ b = now
      BY ProfHas
    <3>3. PICK e \in ProfNode :
            /\ e = [r EXCEPT !.start = b] /\ e.start = b
            /\ e.rec = r.rec /\ e.group = r.group /\ e.cur = r.cur
            /\ e.total = r.total /\ e.ran = r.ran
      BY NodeRestarts
    <3>4. tree'[p] = e
      BY <3>1, <3>2, <3>3
    <3>. QED
      BY <2>1, <3>2, <3>3, <3>4
  <2>2. CASE p \notin Running
    <3>1. tree'[p] = tree[p]
      BY <2>2 DEF Resume
    <3>. QED
      BY <2>2, <3>1, ProfHas
  <2>. QED
    BY <2>1, <2>2
<1>2. tree' \in [DOMAIN tree -> ProfNode] /\ DOMAIN tree' = DOMAIN tree
  BY <1>1 DEF Resume
<1>3. /\ UNCHANGED <<enabled, cursor, age, groups, groupStack, nesting, atRoot>>
      /\ now' = now /\ regime' = regime /\ open' = open /\ paused' = FALSE /\ overflowed' = overflowed
      /\ regime = "pausing" /\ paused
  BY DEF Resume
<1>4. Timed'
  <2>. SUFFICES tree'[Root].cur + tree'[Root].total
                + (IF tree'[Root].rec > 0 THEN now - tree'[Root].start ELSE 0) = tree'[Root].ran
    BY <1>2, <1>3 DEF Timed, Since
  <2>1. tree[Root].cur + tree[Root].total + 0 = tree[Root].ran
    BY <1>0, <1>3, ProfHas DEF Timed, Since
  <2>. QED
    BY <1>1, <2>1, ProfHas, RootIsReached
<1>. QED
  BY <1>1, <1>2, <1>3, <1>4, ProfHas, ProfCounts

LEMMA ProfTicks ==
  ASSUME ProfInv, Tick
  PROVE  ProfInv'
<1>0. Timed
  BY DEF ProfInv
<1>1. ASSUME NEW p \in DOMAIN tree
      PROVE  /\ tree'[p] \in ProfNode
             /\ tree'[p].rec = tree[p].rec /\ tree'[p].group = tree[p].group
             /\ tree'[p].start = tree[p].start /\ tree'[p].cur = tree[p].cur
             /\ tree'[p].total = tree[p].total
             /\ tree'[p].ran = IF tree[p].rec > 0 /\ ~paused THEN tree[p].ran + 1 ELSE tree[p].ran
  <2>. DEFINE c == IF tree[p].rec > 0 /\ ~paused THEN tree[p].ran + 1 ELSE tree[p].ran
  <2>1. tree'[p] = [tree[p] EXCEPT !.ran = c]
    BY DEF Tick
  <2>2. PICK r \in ProfNode, b \in Int : r = tree[p] /\ b = c
    BY ProfHas
  <2>. HIDE DEF c
  <2>3. PICK e \in ProfNode :
          /\ e = [r EXCEPT !.ran = b] /\ e.ran = b
          /\ e.rec = r.rec /\ e.group = r.group /\ e.start = r.start
          /\ e.cur = r.cur /\ e.total = r.total
    BY NodeRuns
  <2>4. tree'[p] = e
    BY <2>1, <2>2, <2>3
  <2>. QED
    BY <2>2, <2>3, <2>4 DEF c
<1>2. tree' \in [DOMAIN tree -> ProfNode] /\ DOMAIN tree' = DOMAIN tree
  BY <1>1 DEF Tick
<1>3. /\ UNCHANGED <<enabled, cursor, age, groups, groupStack, nesting, atRoot>>
      /\ now' = now + 1 /\ now < MaxTime
      /\ regime' = regime /\ open' = open /\ paused' = paused /\ overflowed' = overflowed
  BY DEF Tick
<1>4. now' \in 0 .. MaxTime
  BY <1>3, ProfHas, ProfAssumption
<1>5. Timed'
  <2>. SUFFICES ASSUME NEW q \in DOMAIN tree, regime = "plain" \/ (regime = "pausing" /\ q = Root)
                PROVE  tree'[q].cur + tree'[q].total
                       + (IF tree'[q].rec > 0 /\ ~paused' THEN now' - tree'[q].start ELSE 0) = tree'[q].ran
    BY <1>2, <1>3 DEF Timed, Since
  <2>1. tree[q].cur + tree[q].total
        + (IF tree[q].rec > 0 /\ ~paused THEN now - tree[q].start ELSE 0) = tree[q].ran
    BY <1>0 DEF Timed, Since
  <2>2. CASE tree[q].rec > 0 /\ ~paused
    <3>1. tree[q].cur + tree[q].total + (now - tree[q].start) = tree[q].ran
      BY <2>1, <2>2
    <3>2. tree'[q].rec > 0 /\ ~paused' /\ tree'[q].ran = tree[q].ran + 1
      BY <1>1, <1>3, <2>2
    <3>3. /\ tree[q].cur \in Int /\ tree[q].total \in Int /\ tree[q].start \in Int
          /\ tree[q].ran \in Int /\ now \in Int
      BY ProfHas
    <3>4. /\ tree'[q].cur = tree[q].cur /\ tree'[q].total = tree[q].total
          /\ tree'[q].start = tree[q].start /\ now' = now + 1
      BY <1>1, <1>3
    <3>5. tree'[q].cur + tree'[q].total + (now' - tree'[q].start) = tree'[q].ran
      BY <3>1, <3>2, <3>3, <3>4
    <3>. QED
      BY <3>2, <3>5
  <2>3. CASE ~(tree[q].rec > 0 /\ ~paused)
    BY <1>1, <1>3, <2>1, <2>3, ProfHas
  <2>. QED
    BY <2>2, <2>3
<1>. QED
  BY <1>1, <1>2, <1>3, <1>4, <1>5, ProfHas, ProfCounts

(* Term leaves the root, and goes there.                                   *)
LEMMA ProfEndsThere ==
  ASSUME ProfInv, Term
  PROVE  ProfInv'
<1>0. /\ ProfTyped /\ ProfTypeOK /\ RootEnteredOnce /\ Nested /\ Stacked /\ Timed
  BY DEF ProfInv
<1>1. /\ cursor' = Root /\ age' = <<>> /\ nesting' = 0 /\ atRoot' = TRUE
      /\ enabled' = enabled /\ groups' = groups /\ groupStack' = groupStack
      /\ now' = now /\ regime' = regime /\ open' = open /\ paused' = paused /\ overflowed' = overflowed
      /\ regime = "straddling" \/ open = 0
  BY DEF Term, MaySwitch, callerVars
<1>2. /\ tree' \in [{Root} -> ProfNode] /\ DOMAIN tree' = {Root} /\ tree'[Root] = tree[Root]
  BY ProfHas DEF Term, Restrict
<1>3. /\ Root \in Seq(ScopeName) /\ Len(Root) = 0 /\ SubSeq(Root, 1, 0) = Root
      /\ age' \in Seq(Seq(ScopeName)) /\ Range(age') = {}
  BY <1>1 DEF Root, Range
<1>4. ProfTyped'
  BY <1>0, <1>1, <1>2, <1>3 DEF ProfTyped
<1>5. ProfTypeOK'
  BY <1>0, <1>1, <1>2, <1>3, ProfAssumption DEF ProfTypeOK
<1>6. AboveThere'
  <2>. SUFFICES ASSUME NEW i \in 0 .. Len(Root) PROVE SubSeq(Root, 1, i) \in {Root}
    BY <1>2 DEF AboveThere
  <2>1. i = 0
    BY <1>3
  <2>. QED
    BY <1>3, <2>1
<1>7. EnteredIsPath' /\ DepthIsCursor'
  BY <1>1, <1>2, <1>3 DEF EnteredIsPath, DepthIsCursor
<1>8. RootEnteredOnce'
  BY <1>0, <1>1, <1>2 DEF RootEnteredOnce
<1>9. regime # "straddling" => cursor = Root
  BY <1>0, <1>1, ProfHas DEF Nested
<1>10. Nested'
  BY <1>0, <1>1, <1>9 DEF Nested
<1>11. Stacked'
  BY <1>0, <1>1, <1>2, <1>3, <1>9 DEF Stacked, BelowScopes
<1>12. Timed'
  BY <1>0, <1>1, <1>2, ProfHas DEF Timed, Since
<1>. QED
  BY <1>4, <1>5, <1>6, <1>7, <1>8, <1>10, <1>11, <1>12 DEF ProfInv

LEMMA ProfBegins ==
  ASSUME ProfInit
  PROVE  ProfInv
<1>1. /\ enabled = 0 /\ cursor = Root /\ age = <<>> /\ groups = <<>> /\ groupStack = <<0>>
      /\ nesting = 0 /\ atRoot = TRUE /\ now = 0 /\ open = 0 /\ paused = FALSE /\ overflowed = FALSE
      /\ regime \in {"plain", "pausing", "straddling"}
  BY DEF ProfInit
<1>2. /\ NewNode(0) \in ProfNode /\ NewNode(0).rec = 0
      /\ NewNode(0).cur = 0 /\ NewNode(0).total = 0 /\ NewNode(0).ran = 0
  BY NewNodeIs
<1>3. /\ tree \in [{Root} -> ProfNode] /\ DOMAIN tree = {Root}
      /\ tree[Root] = NewNode(0)
  BY <1>2 DEF ProfInit
<1>4. /\ Root \in Seq(ScopeName) /\ Len(Root) = 0 /\ SubSeq(Root, 1, 0) = Root
      /\ age \in Seq(Seq(ScopeName)) /\ Range(age) = {}
  BY <1>1 DEF Root, Range
<1>5. groupStack \in Seq(Nat) /\ Len(groupStack) = 1 /\ groupStack[1] = 0
  <2>1. groupStack = <<0>>
    BY <1>1
  <2>. QED
    BY ONLY <2>1
<1>6. ProfTyped
  <2>0. ASSUME NEW S PROVE groups \in Seq(S)
    BY <1>1
  <2>1. groups \in Seq({GroupOf[n] : n \in ScopeName}) /\ {atRoot, paused, overflowed} \subseteq BOOLEAN
    BY <1>1, <2>0
  <2>2. tree \in [DOMAIN tree -> ProfNode] /\ DOMAIN tree \subseteq Seq(ScopeName) /\ Root \in DOMAIN tree
    BY <1>3, <1>4
  <2>. QED
    BY <1>1, <1>4, <1>5, <2>1, <2>2 DEF ProfTyped
<1>7. ProfTypeOK
  BY <1>1, <1>3, <1>4, <1>5, ProfAssumption DEF ProfTypeOK
<1>8. AboveThere
  <2>. SUFFICES ASSUME NEW i \in 0 .. Len(Root) PROVE SubSeq(Root, 1, i) \in {Root}
    BY <1>3 DEF AboveThere
  <2>1. i = 0
    BY <1>4
  <2>. QED
    BY <1>4, <2>1
<1>9. EnteredIsPath /\ DepthIsCursor /\ Nested
  BY <1>1, <1>3, <1>4 DEF EnteredIsPath, DepthIsCursor, Nested
<1>10. RootEnteredOnce
  BY <1>1, <1>2, <1>3 DEF RootEnteredOnce
<1>11. Stacked
  BY <1>1, <1>4, <1>5 DEF Stacked, BelowScopes
<1>12. Timed
  BY <1>1, <1>2, <1>3 DEF Timed, Since
<1>. QED
  BY <1>6, <1>7, <1>8, <1>9, <1>10, <1>11, <1>12 DEF ProfInv

-----------------------------------------------------------------------------
(* What the invariant says of the stack of groups and of the times.        *)
LEMMA StackedFollows ==
  ASSUME ProfInv
  PROVE  GroupsFollowCursor
<1>. SUFFICES ASSUME regime # "straddling", ~overflowed
              PROVE  groupStack = <<0>>
                       \o (IF enabled > 0 THEN <<tree[Root].group>> ELSE <<>>)
                       \o [i \in 1 .. Len(cursor) |-> tree[SubSeq(cursor, 1, i)].group]
  BY DEF GroupsFollowCursor
<1>. DEFINE low == <<0>> \o (IF enabled > 0 THEN <<tree[Root].group>> ELSE <<>>)
            high == [i \in 1 .. Len(cursor) |-> tree[SubSeq(cursor, 1, i)].group]
<1>1. /\ Len(groupStack) = BelowScopes + Len(cursor) /\ groupStack[1] = 0
      /\ enabled > 0 => groupStack[2] = tree[Root].group
      /\ \A i \in 1 .. Len(cursor) :
           groupStack[BelowScopes + i] = tree[SubSeq(cursor, 1, i)].group
  BY DEF ProfInv, Stacked
<1>2. /\ low \in Seq(Nat) /\ Len(low) = BelowScopes /\ low[1] = 0
      /\ enabled > 0 => low[2] = tree[Root].group
  <2>1. tree[Root].group \in Nat
    BY ProfHas
  <2>2. CASE enabled > 0
    BY <2>1, <2>2 DEF BelowScopes
  <2>3. CASE ~(enabled > 0)
    <3>1. low = <<0>>
      BY <2>3
    <3>. QED
      BY <2>3, <3>1 DEF BelowScopes
  <2>. QED
    BY <2>2, <2>3
<1>3. /\ high \in Seq(Nat) /\ Len(high) = Len(cursor) /\ Len(cursor) \in Nat
      /\ \A i \in 1 .. Len(cursor) : high[i] = tree[SubSeq(cursor, 1, i)].group
  <2>1. Len(cursor) \in Nat /\ cursor \in DOMAIN tree
    BY ProfHas
  <2>2. ASSUME NEW i \in 1 .. Len(cursor) PROVE tree[SubSeq(cursor, 1, i)].group \in Nat
    <3>1. SubSeq(cursor, 1, i) \in DOMAIN tree
      BY <2>1 DEF ProfInv, AboveThere
    <3>. QED
      BY <3>1, ProfHas
  <2>. QED
    BY <2>1, <2>2
<1>. HIDE DEF low, high
<1>4. BelowScopes \in {1, 2} /\ (enabled > 0 <=> BelowScopes = 2)
  BY DEF BelowScopes
<1>5. /\ low \o high \in Seq(Nat) /\ Len(low \o high) = BelowScopes + Len(cursor)
      /\ \A i \in 1 .. BelowScopes + Len(cursor) :
           (low \o high)[i] = IF i <= BelowScopes THEN low[i] ELSE high[i - BelowScopes]
  BY <1>2, <1>3, <1>4
<1>6. ASSUME NEW i \in 1 .. Len(groupStack) PROVE groupStack[i] = (low \o high)[i]
  <2>1. CASE i <= BelowScopes
    BY <1>1, <1>2, <1>3, <1>4, <1>5, <2>1
  <2>2. CASE ~(i <= BelowScopes)
    <3>1. i - BelowScopes \in 1 .. Len(cursor) /\ i = BelowScopes + (i - BelowScopes)
      BY <1>1, <1>3, <1>4, <2>2
    <3>2. groupStack[i] = high[i - BelowScopes]
      BY <1>1, <1>3, <3>1
    <3>. QED
      BY <1>1, <1>4, <1>5, <2>2, <3>2
  <2>. QED
    BY <2>1, <2>2
<1>7. groupStack \in Seq(Nat)
  BY ProfHas
<1>8. groupStack = low \o high
  BY <1>1, <1>5, <1>6, <1>7, SameSeq
<1>. QED
  BY <1>8 DEF low, high

LEMMA ProfInvIs ==
  ASSUME ProfInv
  PROVE  ProfInOrder
<1>1. /\ ProfTypeOK /\ EnteredIsPath /\ DepthIsCursor /\ RootEnteredOnce /\ Timed
  BY DEF ProfInv
<1>2. TimeIsTimeEntered
  <2>1. ASSUME NEW p \in DOMAIN tree, tree[p].rec = 0,
               regime = "plain" \/ (regime = "pausing" /\ p = Root)
        PROVE  tree[p].cur + tree[p].total = tree[p].ran
    <3>1. tree[p].cur + tree[p].total + 0 = tree[p].ran
      BY <1>1, <2>1 DEF Timed, Since
    <3>. QED
      BY <3>1, ProfHas
  <2>. QED
    BY <2>1 DEF TimeIsTimeEntered
<1>. QED
  BY <1>1, <1>2, StackedFollows DEF ProfInOrder

LEMMA ProfSteps ==
  ASSUME ProfInv, [ProfNext]_profVars
  PROVE  ProfInv'
<1>1. CASE ProfNext
  <2>1. ASSUME NEW name \in ScopeName, EnterScope(name) PROVE ProfInv'
    <3>1. CASE enabled > 0
      BY <2>1, <3>1, ProfEntersScope
    <3>2. CASE ~(enabled > 0)
      <4>1. UNCHANGED <<scopeVars, overflowed, now, regime, paused>> /\ open' = open + 1 /\ open < MaxScopes
        BY <2>1, <3>2 DEF EnterScope
      <4>2. enabled = 0 /\ open' \in 0 .. MaxScopes
        BY <3>2, <4>1, ProfHas, ProfAssumption
      <4>. QED
        BY <4>1, <4>2, ProfIdles
    <3>. QED
      BY <3>1, <3>2
  <2>2. CASE ExitScope
    <3>1. CASE enabled > 0
      BY <2>2, <3>1, ProfClimbs, ProfStrays
    <3>2. CASE ~(enabled > 0)
      <4>1. UNCHANGED <<scopeVars, overflowed, now, regime, paused>> /\ open' = open - 1 /\ open > 0
        BY <2>2, <3>2 DEF ExitScope
      <4>2. enabled = 0 /\ open' \in 0 .. MaxScopes
        BY <3>2, <4>1, ProfHas, ProfAssumption
      <4>. QED
        BY <4>1, <4>2, ProfIdles
    <3>. QED
      BY <3>1, <3>2
  <2>. QED
    BY <1>1, <2>1, <2>2, ProfStarts, ProfStops, ProfEndsThere, ProfMarks, ProfPauses,
       ProfResumes, ProfTicks DEF ProfNext
<1>2. CASE UNCHANGED profVars
  <2>1. /\ UNCHANGED <<enabled, cursor, age, groups, groupStack, nesting, atRoot, tree>>
        /\ UNCHANGED <<now, regime, open, paused, overflowed>>
    BY <1>2 DEF profVars, scopeVars, callerVars
  <2>2. Timed'
    BY <2>1 DEF ProfInv, Timed, Since
  <2>. QED
    BY <2>1, <2>2, ProfHas, ProfCounts
<1>. QED
  BY <1>1, <1>2

(* Whatever the caller does the cursor is on a node that is there and      *)
(* everything else says so too; where scopes nest, the groups follow it    *)
(* and nodes have the time they were entered for (CVProfile and            *)
(* CVProfNode, vprof.cpp).                                                 *)
THEOREM ProfAlwaysInOrder == ProfSpec => []ProfInOrder
<1>1. ProfInit => ProfInv
  BY ProfBegins
<1>2. ProfInv /\ [ProfNext]_profVars => ProfInv'
  BY ProfSteps
<1>3. ProfInv => ProfInOrder
  BY ProfInvIs
<1>. QED
  BY <1>1, <1>2, <1>3, PTL DEF ProfSpec

-----------------------------------------------------------------------------
(* The types of the validator's variables.                                 *)
ObjectRecord ==
  [obj : Object \union {0}, parent : Record \union {0, Gone}, next : Record \union {0}]

ValTyped ==
  /\ record \in [Record -> ObjectRecord]
  /\ alive \subseteq Record
  /\ list \in [ValidatorName ->
                 [first : Record \union {0}, last : Record \union {0, Gone},
                  cur : Record \union {0, Gone}]]
  /\ diffed \subseteq ValidatorName

(* The last record of a chain.                                             *)
Ends(s) == IF Len(s) = 0 THEN 0 ELSE s[Len(s)]

(* In the chain s of records rec, a parent comes before its children.      *)
ParentsFirst(rec, s) ==
  \A i \in 1 .. Len(s) :
    rec[s[i]].parent \in {0, Gone} \/ \E k \in 1 .. i - 1 : s[k] = rec[s[i]].parent

(* A list that DiffAgainst was not run on knows where it ends and what is  *)
(* open.                                                                   *)
Whole(rec, l, s) ==
  /\ l.last = Ends(s)
  /\ l.cur = 0 \/ l.cur \in In(s)
  /\ \A i \in 1 .. Len(s) : rec[s[i]].parent # Gone

(* The list l is the chain s.                                              *)
Listed(rec, l, al, whole, s) ==
  /\ IsChain(rec, s, l.first) /\ In(s) \subseteq al
  /\ ParentsFirst(rec, s)
  /\ whole => Whole(rec, l, s)

(* The lists of the validators are the chains ch.                          *)
Lists(ch) ==
  /\ \A v \in ValidatorName : Listed(record, list[v], alive, v \notin diffed, ch[v])
  /\ \A v, w \in ValidatorName : v # w => In(ch[v]) \cap In(ch[w]) = {}

ValInv == ValTyped /\ \E ch : Lists(ch)

-----------------------------------------------------------------------------
(* What Chain and PlaceIn give.                                            *)
LEMMA ChainOfIs ==
  ASSUME ValTyped, NEW v \in ValidatorName, NEW s, IsChain(record, s, list[v].first)
  PROVE  /\ Chain(v) = s /\ Range(Chain(v)) = In(s) /\ DOMAIN s = 1 .. Len(s)
         /\ Len(s) \in Nat /\ In(s) \subseteq Record
         /\ \A i \in 1 .. Len(s) : s[i] \in Record /\ s[i] \in In(s) /\ PlaceIn(v, s[i]) = i
         /\ \A q : q \notin In(s) => PlaceIn(v, q) = 0
<1>1. MaxRecords \in Nat /\ Record = 1 .. MaxRecords
  BY ValidatorAssumption DEF Record
<1>2. DOMAIN record = 1 .. MaxRecords
      /\ \A m \in 1 .. MaxRecords : record[m].next \in 0 .. MaxRecords
  <2>1. DOMAIN record = Record /\ \A m \in Record : record[m].next \in Record \union {0}
    BY DEF ValTyped, ObjectRecord
  <2>. QED
    BY <1>1, <2>1
<1>3. Chain(v) = s
  BY <1>1, <1>2, ChainFromIs DEF Chain
<1>4. /\ Len(s) \in Nat /\ s = [k \in 1 .. Len(s) |-> s[k]]
      /\ \A i \in 1 .. Len(s) : s[i] \in DOMAIN record
      /\ In(s) \subseteq DOMAIN record
  BY ChainParts
<1>5. DOMAIN s = 1 .. Len(s)
  BY <1>4
<1>6. Range(s) = In(s)
  BY <1>5 DEF Range, In
<1>7. \A i, k \in 1 .. Len(s) : s[i] = s[k] => i = k
  BY DEF IsChain
<1>8. ASSUME NEW i \in 1 .. Len(s) PROVE s[i] \in In(s) /\ PlaceIn(v, s[i]) = i
  <2>1. s[i] \in In(s)
    BY DEF In
  <2>2. (CHOOSE k \in 1 .. Len(s) : s[k] = s[i]) = i
    BY <1>7
  <2>. QED
    BY <1>3, <1>5, <1>6, <2>1, <2>2 DEF PlaceIn
<1>9. \A q : q \notin In(s) => PlaceIn(v, q) = 0
  BY <1>3, <1>6 DEF PlaceIn
<1>. QED
  BY <1>1, <1>2, <1>3, <1>4, <1>5, <1>6, <1>8, <1>9

(* The invariant says what RecordsInOrder says of PlaceIn.                 *)
LEMMA ValIsOrder == ValInv => RecordsInOrder
<1>. SUFFICES ASSUME ValInv PROVE RecordsInOrder
  OBVIOUS
<1>1. PICK ch : Lists(ch)
  BY DEF ValInv
<1>2. ASSUME NEW v \in ValidatorName
      PROVE  /\ Chain(v) = ch[v] /\ Range(Chain(v)) = In(ch[v]) /\ Len(ch[v]) \in Nat
             /\ DOMAIN ch[v] = 1 .. Len(ch[v])
             /\ \A i \in 1 .. Len(ch[v]) : PlaceIn(v, ch[v][i]) = i
             /\ ch[v] = <<>> <=> Len(ch[v]) = 0
  <2>1. ValTyped /\ IsChain(record, ch[v], list[v].first)
    BY <1>1 DEF ValInv, Lists, Listed
  <2>2. ch[v] \in Seq(DOMAIN record)
    BY <2>1 DEF IsChain
  <2>3. ch[v] = <<>> <=> Len(ch[v]) = 0
    BY <2>2, EmptySeq
  <2>. QED
    BY <2>1, <2>3, ChainOfIs
<1>3. ListsAreOwn
  <2>. SUFFICES ASSUME NEW v \in ValidatorName
                PROVE  /\ Range(Chain(v)) \subseteq alive
                       /\ Chain(v) # <<>> => record[Last(Chain(v))].next = 0
                       /\ \A w \in ValidatorName \ {v} : Range(Chain(v)) \cap Range(Chain(w)) = {}
    BY DEF ListsAreOwn
  <2>1. Range(Chain(v)) \subseteq alive
        /\ \A w \in ValidatorName \ {v} : Range(Chain(v)) \cap Range(Chain(w)) = {}
    BY <1>1, <1>2 DEF Lists, Listed
  <2>2. Len(ch[v]) # 0 => record[ch[v][Len(ch[v])]].next = 0
    <3>1. IsChain(record, ch[v], list[v].first)
      BY <1>1 DEF Lists, Listed
    <3>2. Len(ch[v]) # 0 => Len(ch[v]) \in 1 .. Len(ch[v])
      BY <1>2
    <3>. QED
      BY <3>1, <3>2 DEF IsChain, Follows
  <2>. QED
    BY <1>2, <2>1, <2>2 DEF Last
<1>4. ParentIsEarlier
  <2>. SUFFICES ASSUME NEW v \in ValidatorName \ diffed
                PROVE  /\ list[v].last = (IF Chain(v) = <<>> THEN 0 ELSE Last(Chain(v)))
                       /\ list[v].cur = 0 \/ PlaceIn(v, list[v].cur) > 0
                       /\ \A i \in DOMAIN Chain(v) :
                            LET p == record[Chain(v)[i]].parent
                            IN  p = 0 \/ PlaceIn(v, p) \in 1 .. i - 1
    BY DEF ParentIsEarlier
  <2>1. Whole(record, list[v], ch[v]) /\ ParentsFirst(record, ch[v])
    BY <1>1 DEF Lists, Listed
  <2>2. list[v].last = (IF Chain(v) = <<>> THEN 0 ELSE Last(Chain(v)))
    BY <1>2, <2>1 DEF Whole, Ends, Last
  <2>3. list[v].cur = 0 \/ PlaceIn(v, list[v].cur) > 0
    <3>. SUFFICES ASSUME list[v].cur # 0 PROVE PlaceIn(v, list[v].cur) > 0
      OBVIOUS
    <3>1. PICK i \in 1 .. Len(ch[v]) : list[v].cur = ch[v][i]
      BY <2>1 DEF Whole, In
    <3>. QED
      BY <1>2, <3>1
  <2>4. ASSUME NEW i \in DOMAIN Chain(v), record[Chain(v)[i]].parent # 0
        PROVE  PlaceIn(v, record[Chain(v)[i]].parent) \in 1 .. i - 1
    <3>1. i \in 1 .. Len(ch[v]) /\ Len(ch[v]) \in Nat /\ Chain(v) = ch[v]
      BY <1>2
    <3>2. PICK k \in 1 .. i - 1 : ch[v][k] = record[ch[v][i]].parent
      BY <2>1, <2>4, <3>1 DEF Whole, ParentsFirst
    <3>3. k \in 1 .. Len(ch[v])
      BY <3>1
    <3>. QED
      BY <1>2, <3>1, <3>2, <3>3
  <2>. QED
    BY <2>2, <2>3, <2>4
<1>. QED
  BY <1>3, <1>4 DEF RecordsInOrder

(* All lists are empty at first.                                           *)
LEMMA ValStarts == ValidatorInit => ValInv
<1>. SUFFICES ASSUME ValidatorInit PROVE ValInv
  OBVIOUS
<1>1. ValTyped
  BY DEF ValidatorInit, ValTyped, ObjectRecord, Freed, Empty
<1>2. PICK ch : ch = [v \in ValidatorName |-> <<>>]
  OBVIOUS
<1>3. PICK e : e = <<>>
  OBVIOUS
<1>4. e \in Seq(DOMAIN record) /\ Len(e) = 0
  BY <1>3
<1>5. Starts(e) = 0 /\ Ends(e) = 0 /\ In(e) = {}
  BY <1>4 DEF Starts, Ends, In
<1>6. ASSUME NEW v \in ValidatorName
      PROVE  ch[v] = e /\ list[v].first = 0 /\ list[v].last = 0 /\ list[v].cur = 0
  BY <1>2, <1>3 DEF ValidatorInit, Empty
<1>7. Lists(ch)
  <2>1. ASSUME NEW v \in ValidatorName
        PROVE  Listed(record, list[v], alive, v \notin diffed, ch[v])
    <3>1. IsChain(record, e, 0) /\ ParentsFirst(record, e) /\ In(e) \subseteq alive
      BY <1>4, <1>5 DEF IsChain, ParentsFirst
    <3>2. Whole(record, list[v], e)
      BY <1>4, <1>5, <1>6 DEF Whole
    <3>. QED
      BY <1>6, <3>1, <3>2 DEF Listed
  <2>. QED
    BY <1>5, <1>6, <2>1 DEF Lists
<1>. QED
  BY <1>1, <1>7 DEF ValInv

-----------------------------------------------------------------------------
(* A step changes the list of v, which then is t, and no other.            *)
LEMMA OneListChanges ==
  ASSUME ValTyped, ValTyped', NEW ch, Lists(ch), NEW v \in ValidatorName, NEW t,
         Listed(record', list'[v], alive', v \notin diffed', t),
         \A w \in ValidatorName \ {v} :
           /\ \A q \in In(ch[w]) : record'[q] = record[q] /\ q \in alive' /\ q \notin In(t)
           /\ list'[w] = list[w] /\ (w \in diffed' <=> w \in diffed)
  PROVE  ValInv'
<1>1. PICK c2 : c2 = [w \in ValidatorName |-> IF w = v THEN t ELSE ch[w]]
  OBVIOUS
<1>2. c2[v] = t /\ \A w \in ValidatorName \ {v} : c2[w] = ch[w]
  BY <1>1
<1>3. ASSUME NEW w \in ValidatorName \ {v}
      PROVE  Listed(record', list'[w], alive', w \notin diffed', ch[w])
  <2>1. Listed(record, list[w], alive, w \notin diffed, ch[w])
    BY DEF Lists
  <2>2. IsChain(record, ch[w], list[w].first)
    BY <2>1 DEF Listed
  <2>3. DOMAIN record \subseteq DOMAIN record'
    BY DEF ValTyped
  <2>4. \A q \in In(ch[w]) : record'[q] = record[q]
    OBVIOUS
  <2>5. IsChain(record', ch[w], list[w].first)
    BY <2>2, <2>3, <2>4, ChainKept
  <2>6. \A i \in 1 .. Len(ch[w]) : record'[ch[w][i]] = record[ch[w][i]]
    BY <2>4 DEF In
  <2>7. ParentsFirst(record', ch[w])
    BY <2>1, <2>6 DEF Listed, ParentsFirst
  <2>8. w \notin diffed => Whole(record', list[w], ch[w])
    BY <2>1, <2>6 DEF Listed, Whole
  <2>9. In(ch[w]) \subseteq alive' /\ list'[w] = list[w] /\ (w \in diffed' <=> w \in diffed)
    OBVIOUS
  <2>. QED
    BY <2>5, <2>7, <2>8, <2>9 DEF Listed
<1>4. \A w, x \in ValidatorName : w # x => In(c2[w]) \cap In(c2[x]) = {}
  <2>1. \A w, x \in ValidatorName : w # x => In(ch[w]) \cap In(ch[x]) = {}
    BY DEF Lists
  <2>2. \A w \in ValidatorName \ {v} : In(ch[w]) \cap In(t) = {}
    OBVIOUS
  <2>. QED
    BY <1>2, <2>1, <2>2
<1>5. Lists(c2)'
  BY <1>2, <1>3, <1>4 DEF Lists
<1>. QED
  BY <1>5 DEF ValInv

(* The new current record is the parent, one before it in the list.        *)
LEMMA ValPops ==
  ASSUME ValInv, NEW v \in ValidatorName, Pop(v)
  PROVE  ValInv'
<1>1. PICK ch : Lists(ch)
  BY DEF ValInv
<1>2. Listed(record, list[v], alive, TRUE, ch[v]) /\ ValTyped
  BY <1>1 DEF Lists, Listed, Pop, ValInv
<1>3. PICK cur : cur = IF list[v].cur = 0 THEN 0 ELSE record[list[v].cur].parent
  OBVIOUS
<1>4. cur = 0 \/ cur \in In(ch[v])
  <2>. SUFFICES ASSUME list[v].cur # 0, cur # 0 PROVE cur \in In(ch[v])
    BY <1>3
  <2>1. PICK i \in 1 .. Len(ch[v]) : list[v].cur = ch[v][i]
    BY <1>2 DEF Listed, Whole, In
  <2>2. cur = record[ch[v][i]].parent /\ cur # Gone
    BY <1>2, <1>3, <2>1 DEF Listed, Whole
  <2>3. PICK k \in 1 .. i - 1 : ch[v][k] = cur
    BY <1>2, <2>2 DEF Listed, ParentsFirst
  <2>4. Len(ch[v]) \in Nat
    BY <1>2, ChainParts DEF Listed
  <2>5. k \in 1 .. Len(ch[v])
    BY <2>3, <2>4
  <2>. QED
    BY <2>3, <2>5 DEF In
<1>5. cur \in Record \union {0, Gone}
  <2>1. In(ch[v]) \subseteq Record
    BY <1>2 DEF Listed, ValTyped
  <2>. QED
    BY <1>4, <2>1
<1>6. /\ UNCHANGED <<record, alive, diffed>>
      /\ list' = [list EXCEPT ![v] = [@ EXCEPT !.cur = cur]]
  BY <1>3 DEF Pop
<1>7. list'[v] = [list[v] EXCEPT !.cur = cur]
      /\ \A w \in ValidatorName \ {v} : list'[w] = list[w]
  BY <1>2, <1>6 DEF ValTyped
<1>8. ValTyped'
  BY <1>2, <1>5, <1>6 DEF ValTyped
<1>9. list'[v].first = list[v].first /\ list'[v].last = list[v].last /\ list'[v].cur = cur
  BY <1>2, <1>7 DEF ValTyped
<1>10. Listed(record', list'[v], alive', v \notin diffed', ch[v])
  BY <1>2, <1>4, <1>6, <1>9 DEF Listed, Whole
<1>11. ASSUME NEW w \in ValidatorName \ {v}, NEW q \in In(ch[w])
       PROVE  q \in alive /\ q \notin In(ch[v])
  BY <1>1 DEF Lists, Listed
<1>. QED
  BY <1>1, <1>2, <1>6, <1>7, <1>8, <1>10, <1>11, OneListChanges

(* The list ends with the new record, behind what was open.                *)
LEMMA ValPushes ==
  ASSUME ValInv, NEW v \in ValidatorName, NEW obj \in Object, Push(v, obj)
  PROVE  ValInv'
<1>1. PICK ch : Lists(ch)
  BY DEF ValInv
<1>2. PICK s : s = ch[v]
  OBVIOUS
<1>3. PICK l : l = list[v]
  OBVIOUS
<1>4. PICK r : r = Min(Record \ alive)
  OBVIOUS
<1>5. ValTyped /\ Listed(record, l, alive, TRUE, s) /\ v \notin diffed
  BY <1>1, <1>2, <1>3 DEF Lists, Listed, Push, ValInv
<1>6. r \in Record /\ r \notin alive /\ r # 0
  <2>1. Record \ alive \in SUBSET Nat /\ Record \ alive # {}
    <3>1. alive # Record
      BY DEF Push
    <3>2. alive \subseteq Record /\ Record \subseteq Nat
      BY <1>5, ValidatorAssumption DEF Record, ValTyped
    <3>. QED
      BY <3>1, <3>2
  <2>2. r \in Record \ alive
    BY <1>4, <2>1, LeastIs
  <2>. QED
    BY <2>2, ValidatorAssumption DEF Record
<1>7. /\ l \in [first : Record \union {0}, last : Record \union {0, Gone},
                cur : Record \union {0, Gone}]
      /\ l.last = Ends(s) /\ (l.cur = 0 \/ l.cur \in In(s)) /\ l.first = Starts(s)
  BY <1>3, <1>5 DEF ValTyped, Listed, Whole, IsChain
<1>8. /\ Chain(v) = s /\ Range(Chain(v)) = In(s) /\ DOMAIN s = 1 .. Len(s)
      /\ Len(s) \in Nat /\ In(s) \subseteq Record
      /\ \A i \in 1 .. Len(s) : s[i] \in Record /\ s[i] \in In(s) /\ PlaceIn(v, s[i]) = i
      /\ \A q : q \notin In(s) => PlaceIn(v, q) = 0
  BY <1>3, <1>5, ChainOfIs DEF Listed
<1>9. 0 \notin Record /\ Record = 1 .. MaxRecords /\ MaxRecords \in Nat
  BY ValidatorAssumption DEF Record
<1>. DEFINE k == IF l.cur = 0 THEN Len(s) ELSE PlaceIn(v, l.cur)
            before == IF l.cur # 0 THEN l.cur
                      ELSE IF l.last # 0 /\ record[l.last].next = 0 THEN l.last ELSE 0
            lost == After(v, l.cur)
<1>10. /\ k \in 0 .. Len(s) /\ before = (IF k = 0 THEN 0 ELSE s[k])
       /\ l.cur = 0 \/ (k # 0 /\ l.cur = s[k])
       /\ k = 0 => Len(s) = 0
       /\ \A i \in 1 .. Len(s) : s[i] \in lost <=> i > k
       /\ lost \subseteq In(s)
  <2>1. CASE l.cur = 0
    <3>1. lost = {} /\ k = Len(s)
      BY <2>1 DEF After
    <3>2. Len(s) # 0 => Len(s) \in 1 .. Len(s) /\ record[s[Len(s)]].next = 0 /\ s[Len(s)] # 0
      <4>1. Len(s) # 0 => Len(s) \in 1 .. Len(s)
        BY <1>8
      <4>. QED
        BY <1>5, <1>8, <1>9, <4>1 DEF Listed, IsChain, Follows
    <3>3. before = (IF k = 0 THEN 0 ELSE s[k])
      BY <1>7, <2>1, <3>1, <3>2 DEF Ends
    <3>. HIDE DEF lost, k, before
    <3>. QED
      BY <1>8, <2>1, <3>1, <3>3
  <2>2. CASE l.cur # 0
    <3>1. PICK i \in 1 .. Len(s) : l.cur = s[i]
      BY <1>7, <2>2 DEF In
    <3>2. k = i /\ before = s[i]
      BY <1>8, <2>2, <3>1
    <3>3. lost = {q \in In(s) : PlaceIn(v, q) > i}
      BY <1>8, <2>2, <3>1 DEF After
    <3>. HIDE DEF lost, k, before
    <3>. QED
      BY <1>8, <3>1, <3>2, <3>3
  <2>. QED
    BY <2>1, <2>2
<1>11. /\ alive' = alive \union {r} /\ diffed' = diffed
       /\ record' = [q \in Record |->
               IF q = r THEN [obj |-> obj, parent |-> l.cur, next |-> 0]
               ELSE IF q = before THEN [record[q] EXCEPT !.next = r]
               ELSE IF q \in lost THEN Freed
               ELSE record[q]]
       /\ list' = [list EXCEPT ![v] = [first |-> IF l.first = 0 THEN r ELSE l.first,
                                      last |-> r, cur |-> r]]
  BY <1>3, <1>4 DEF Push
<1>. HIDE DEF k, before, lost
<1>12. /\ list'[v] = [first |-> IF l.first = 0 THEN r ELSE l.first, last |-> r, cur |-> r]
       /\ \A w \in ValidatorName \ {v} : list'[w] = list[w]
  BY <1>5, <1>11 DEF ValTyped
<1>13. /\ list'[v].first = (IF l.first = 0 THEN r ELSE l.first)
       /\ list'[v].last = r /\ list'[v].cur = r
       /\ list'[v] \in [first : Record \union {0}, last : Record \union {0, Gone},
                        cur : Record \union {0, Gone}]
  BY <1>6, <1>7, <1>12
<1>14. record' \in [Record -> ObjectRecord]
  <2>1. ASSUME NEW q \in Record PROVE record'[q] \in ObjectRecord
    <3>1. record[q] \in ObjectRecord
      BY <1>5 DEF ValTyped
    <3>2. [obj |-> obj, parent |-> l.cur, next |-> 0] \in ObjectRecord
      BY <1>7 DEF ObjectRecord
    <3>3. [record[q] EXCEPT !.next = r] \in ObjectRecord
      BY <1>6, <3>1 DEF ObjectRecord
    <3>4. Freed \in ObjectRecord
      BY DEF Freed, ObjectRecord
    <3>. QED
      BY <1>11, <3>1, <3>2, <3>3, <3>4
  <2>. QED
    BY <1>11, <2>1
<1>15. ValTyped'
  <2>1. list' \in [ValidatorName ->
                 [first : Record \union {0}, last : Record \union {0, Gone},
                  cur : Record \union {0, Gone}]]
    <3>1. DOMAIN list' = ValidatorName /\ list' = [w \in ValidatorName |-> list'[w]]
      BY <1>5, <1>11 DEF ValTyped
    <3>2. \A w \in ValidatorName :
            list'[w] \in [first : Record \union {0}, last : Record \union {0, Gone},
                         cur : Record \union {0, Gone}]
      BY <1>5, <1>12, <1>13 DEF ValTyped
    <3>. QED
      BY <3>1, <3>2
  <2>2. alive' \subseteq Record /\ diffed' \subseteq ValidatorName
    BY <1>5, <1>6, <1>11 DEF ValTyped
  <2>. QED
    BY <1>14, <2>1, <2>2 DEF ValTyped
<1>16. PICK t : t = [i \in 1 .. k + 1 |-> IF i = k + 1 THEN r ELSE s[i]]
  OBVIOUS
<1>17. /\ k \in Nat /\ \A i \in 1 .. k + 1 : t[i] = IF i = k + 1 THEN r ELSE s[i]
       /\ \A i \in 1 .. k + 1 : i # k + 1 => i \in 1 .. k /\ i \in 1 .. Len(s)
       /\ r \notin In(s)
  BY <1>5, <1>6, <1>8, <1>10, <1>16 DEF Listed
<1>18. t \in Seq(Record) /\ Len(t) = k + 1
  <2>1. t \in [1 .. k + 1 -> Record]
    BY <1>6, <1>8, <1>16, <1>17
  <2>. QED
    BY <1>17, <2>1
<1>19. In(t) \subseteq In(s) \union {r}
  <2>1. \A i \in 1 .. k + 1 : t[i] \in In(s) \union {r}
    BY <1>8, <1>17
  <2>. QED
    BY <1>18, <2>1 DEF In
<1>20. \A i, j \in 1 .. Len(t) : t[i] = t[j] => i = j
  <2>1. \A i, j \in 1 .. Len(s) : s[i] = s[j] => i = j
    BY <1>5 DEF Listed, IsChain
  <2>2. \A i \in 1 .. Len(s) : s[i] # r
    BY <1>8, <1>17
  <2>. QED
    BY <1>17, <1>18, <2>1, <2>2
<1>21. \A i \in 1 .. k : /\ t[i] = s[i] /\ i \in 1 .. Len(s) /\ s[i] # r
                         /\ s[i] \notin lost /\ s[i] \in Record
                         /\ (s[i] = before) <=> (i = k)
  <2>1. \A i, j \in 1 .. Len(s) : s[i] = s[j] => i = j
    BY <1>5 DEF Listed, IsChain
  <2>. SUFFICES ASSUME NEW i \in 1 .. k
                PROVE  /\ t[i] = s[i] /\ i \in 1 .. Len(s) /\ s[i] # r
                       /\ s[i] \notin lost /\ s[i] \in Record
                       /\ (s[i] = before) <=> (i = k)
    OBVIOUS
  <2>2. i \in 1 .. Len(s) /\ i \in 1 .. k + 1 /\ i # k + 1 /\ k \in 1 .. Len(s) /\ k # 0 /\ ~(i > k)
    BY <1>8, <1>10, <1>17
  <2>. QED
    BY <1>8, <1>10, <1>17, <2>1, <2>2
<1>22. \A i \in 1 .. k : /\ record'[s[i]].next = (IF i = k THEN r ELSE record[s[i]].next)
                         /\ record'[s[i]].parent = record[s[i]].parent
  <2>. SUFFICES ASSUME NEW i \in 1 .. k
                PROVE  /\ record'[s[i]].next = (IF i = k THEN r ELSE record[s[i]].next)
                       /\ record'[s[i]].parent = record[s[i]].parent
    OBVIOUS
  <2>1. record[s[i]] \in ObjectRecord /\ s[i] \in Record
    BY <1>5, <1>21 DEF ValTyped
  <2>2. record'[s[i]] = IF s[i] = before THEN [record[s[i]] EXCEPT !.next = r] ELSE record[s[i]]
    BY <1>11, <1>21
  <2>. QED
    BY <1>21, <2>1, <2>2 DEF ObjectRecord
<1>23. record'[r].next = 0 /\ record'[r].parent = l.cur
  BY <1>6, <1>11
<1>24. IsChain(record', t, list'[v].first)
  <2>1. t \in Seq(DOMAIN record')
    BY <1>14, <1>18
  <2>2. list'[v].first = Starts(t)
    <3>1. CASE k = 0
      <4>1. Len(s) = 0 /\ l.first = 0 /\ Len(t) = 1 /\ t[1] = r
        BY <1>7, <1>10, <1>17, <1>18, <3>1 DEF Starts
      <4>. QED
        BY <1>13, <4>1 DEF Starts
    <3>2. CASE k # 0
      <4>1. 1 \in 1 .. k /\ Len(s) # 0 /\ Len(t) # 0
        BY <1>10, <1>17, <1>18, <3>2
      <4>2. l.first = s[1] /\ s[1] # 0 /\ t[1] = s[1]
        BY <1>7, <1>9, <1>21, <4>1 DEF Starts
      <4>. QED
        BY <1>13, <4>1, <4>2 DEF Starts
    <3>. QED
      BY <3>1, <3>2
  <2>3. ASSUME NEW i \in 1 .. Len(t) PROVE record'[t[i]].next = Follows(t, i)
    <3>1. CASE i = k + 1
      BY <1>17, <1>18, <1>23, <3>1 DEF Follows
    <3>2. CASE i = k
      <4>1. i \in 1 .. k /\ i # Len(t) /\ i + 1 = k + 1 /\ k + 1 \in 1 .. k + 1
        BY <1>17, <1>18, <3>2
      <4>2. t[i + 1] = r /\ t[i] = s[i]
        BY <1>17, <1>21, <4>1
      <4>. QED
        BY <1>22, <3>2, <4>1, <4>2 DEF Follows
    <3>3. CASE i < k
      <4>1. i \in 1 .. k /\ i + 1 \in 1 .. k /\ i # Len(t) /\ i # Len(s) /\ i # k
        BY <1>10, <1>17, <1>18, <3>3
      <4>2. record[s[i]].next = s[i + 1]
        BY <1>5, <1>21, <4>1 DEF Listed, IsChain, Follows
      <4>. QED
        BY <1>21, <1>22, <4>1, <4>2 DEF Follows
    <3>. QED
      BY <1>17, <1>18, <3>1, <3>2, <3>3
  <2>. QED
    BY <1>20, <2>1, <2>2, <2>3 DEF IsChain
<1>25. ASSUME NEW i \in 1 .. Len(t)
       PROVE  /\ record'[t[i]].parent # Gone
              /\ record'[t[i]].parent = 0 \/ \E j \in 1 .. i - 1 : t[j] = record'[t[i]].parent
  <2>1. CASE i = k + 1
    <3>1. t[i] = r /\ record'[t[i]].parent = l.cur
      BY <1>17, <1>18, <1>23, <2>1
    <3>2. CASE l.cur = 0
      BY <3>1, <3>2 DEF Gone
    <3>3. CASE l.cur # 0
      <4>1. k \in 1 .. i - 1 /\ k \in 1 .. k /\ l.cur = s[k]
        BY <1>10, <1>17, <2>1, <3>3
      <4>2. t[k] = l.cur /\ l.cur \in Record
        BY <1>21, <4>1
      <4>3. Gone \notin Record
        BY <1>9 DEF Gone
      <4>. QED
        BY <3>1, <4>1, <4>2, <4>3
    <3>. QED
      BY <3>2, <3>3
  <2>2. CASE i # k + 1
    <3>1. i \in 1 .. k /\ i \in 1 .. Len(s)
      BY <1>17, <1>18, <2>2
    <3>2. record'[t[i]].parent = record[s[i]].parent
      BY <1>21, <1>22, <3>1
    <3>3. /\ record[s[i]].parent # Gone
          /\ record[s[i]].parent = 0 \/ \E j \in 1 .. i - 1 : s[j] = record[s[i]].parent
      BY <1>5, <3>1 DEF Listed, Whole, ParentsFirst
    <3>4. \A j \in 1 .. i - 1 : j \in 1 .. k
      BY <1>17, <3>1
    <3>. QED
      BY <1>21, <3>2, <3>3, <3>4
  <2>. QED
    BY <2>1, <2>2
<1>26. Ends(t) = r /\ r \in In(t)
  <2>1. k + 1 \in 1 .. Len(t) /\ t[k + 1] = r /\ Len(t) = k + 1 /\ Len(t) # 0
    BY <1>17, <1>18
  <2>. QED
    BY <2>1 DEF Ends, In
<1>27. Listed(record', list'[v], alive', v \notin diffed', t)
  <2>1. In(t) \subseteq alive'
    BY <1>5, <1>11, <1>19 DEF Listed
  <2>2. ParentsFirst(record', t)
    BY <1>25 DEF ParentsFirst
  <2>3. Whole(record', list'[v], t)
    BY <1>13, <1>25, <1>26 DEF Whole
  <2>. QED
    BY <1>24, <2>1, <2>2, <2>3 DEF Listed
<1>28. ASSUME NEW w \in ValidatorName \ {v}, NEW q \in In(ch[w])
       PROVE  record'[q] = record[q] /\ q \in alive' /\ q \notin In(t)
  <2>1. q \in alive /\ q \notin In(s) /\ q \in Record
    BY <1>1, <1>2, <1>5 DEF Lists, Listed, ValTyped
  <2>2. q # r /\ q \notin lost
    BY <1>6, <1>10, <2>1
  <2>3. q # before
    <3>1. k # 0 => k \in 1 .. Len(s)
      BY <1>8, <1>10
    <3>2. before = 0 \/ before \in In(s)
      BY <1>8, <1>10, <3>1
    <3>. QED
      BY <1>9, <2>1, <3>2
  <2>. QED
    BY <1>11, <1>19, <2>1, <2>2, <2>3
<1>29. \A w \in ValidatorName \ {v} :
         /\ \A q \in In(ch[w]) : record'[q] = record[q] /\ q \in alive' /\ q \notin In(t)
         /\ list'[w] = list[w] /\ (w \in diffed' <=> w \in diffed)
  BY <1>11, <1>12, <1>28
<1>. QED
  BY ONLY <1>1, <1>5, <1>15, <1>27, <1>29, v \in ValidatorName, OneListChanges

(* FirstLeft from one place and from the next.                             *)
LEMMA FirstLeftIs ==
  ASSUME NEW v, NEW B, NEW s, Chain(v) = s, Len(s) \in Nat
  PROVE  /\ FirstLeft(v, Len(s) + 1, B) = 0
         /\ \A i \in 1 .. Len(s) :
              FirstLeft(v, i, B) = IF s[i] \in B THEN FirstLeft(v, i + 1, B) ELSE s[i]
<1>. DEFINE left(i) == {k \in i .. Len(s) : s[k] \notin B}
<1>1. \A i : FirstLeft(v, i, B) = IF left(i) = {} THEN 0 ELSE s[Min(left(i))]
  BY DEF FirstLeft
<1>2. left(Len(s) + 1) = {}
  OBVIOUS
<1>3. ASSUME NEW i \in 1 .. Len(s)
      PROVE  FirstLeft(v, i, B) = IF s[i] \in B THEN FirstLeft(v, i + 1, B) ELSE s[i]
  <2>0. i .. Len(s) = {i} \union (i + 1 .. Len(s))
    OBVIOUS
  <2>1. CASE s[i] \in B
    <3>1. left(i) = left(i + 1)
      BY <2>0, <2>1
    <3>. HIDE DEF left
    <3>. QED
      BY <1>1, <2>1, <3>1
  <2>2. CASE s[i] \notin B
    <3>1. i \in left(i) /\ \A k \in left(i) : i <= k
      BY <2>2
    <3>2. left(i) \subseteq Nat
      OBVIOUS
    <3>. HIDE DEF left
    <3>3. Min(left(i)) = i
      <4>1. \A x, y \in left(i) : (\A z \in left(i) : x <= z) /\ (\A z \in left(i) : y <= z) => x = y
        <5>. SUFFICES ASSUME NEW x \in left(i), NEW y \in left(i), \A z \in left(i) : x <= z,
                             \A z \in left(i) : y <= z
                      PROVE  x = y
          OBVIOUS
        <5>1. x <= y /\ y <= x /\ x \in Nat /\ y \in Nat
          BY <3>2
        <5>. QED
          BY <5>1
      <4>. QED
        BY <3>1, <4>1 DEF Min
    <3>. QED
      BY <1>1, <2>2, <3>1, <3>3
  <2>. QED
    BY <2>1, <2>2
<1>. HIDE DEF left
<1>4. FirstLeft(v, Len(s) + 1, B) = 0
  BY <1>1, <1>2
<1>. QED
  BY <1>3, <1>4

(* What is left of the list is a chain: parents come first or are Gone.    *)
LEMMA ValDiffs ==
  ASSUME ValInv, NEW v \in ValidatorName, NEW other \in ValidatorName, DiffAgainst(v, other)
  PROVE  ValInv'
<1>1. PICK ch : Lists(ch)
  BY DEF ValInv
<1>2. PICK s : s = ch[v]
  OBVIOUS
<1>3. ValTyped /\ Listed(record, list[v], alive, v \notin diffed, s)
  BY <1>1, <1>2 DEF Lists, ValInv
<1>4. /\ Chain(v) = s /\ Range(Chain(v)) = In(s) /\ DOMAIN s = 1 .. Len(s)
      /\ Len(s) \in Nat /\ In(s) \subseteq Record
      /\ \A i \in 1 .. Len(s) : s[i] \in Record /\ s[i] \in In(s) /\ PlaceIn(v, s[i]) = i
      /\ \A q : q \notin In(s) => PlaceIn(v, q) = 0
  BY <1>3, ChainOfIs DEF Listed
<1>5. 0 \notin Record /\ Gone \notin Record
  BY ValidatorAssumption DEF Record, Gone
<1>6. PICK B : B = {r \in Range(Chain(v)) : FindObject(other, record[r].obj)}
  OBVIOUS
<1>7. B \subseteq In(s) /\ 0 \notin B /\ Gone \notin B
  BY <1>4, <1>5, <1>6
<1>8. PICK F : F = [i \in 1 .. Len(s) + 1 |-> FirstLeft(v, i, B)]
  OBVIOUS
<1>9. /\ F[Len(s) + 1] = 0 /\ F[1] = FirstLeft(v, 1, B)
      /\ \A i \in 1 .. Len(s) : /\ F[i] = IF s[i] \in B THEN F[i + 1] ELSE s[i]
                                /\ F[i + 1] = FirstLeft(v, i + 1, B)
  <2>1. /\ FirstLeft(v, Len(s) + 1, B) = 0
        /\ \A i \in 1 .. Len(s) :
              FirstLeft(v, i, B) = IF s[i] \in B THEN FirstLeft(v, i + 1, B) ELSE s[i]
    BY <1>4, FirstLeftIs
  <2>2. /\ 1 \in 1 .. Len(s) + 1 /\ Len(s) + 1 \in 1 .. Len(s) + 1
        /\ \A i \in 1 .. Len(s) : i \in 1 .. Len(s) + 1 /\ i + 1 \in 1 .. Len(s) + 1
    BY <1>4
  <2>. QED
    BY <1>8, <2>1, <2>2
<1>10. \A i \in 1 .. Len(s) + 1 : F[i] \in Record \union {0}
  <2>1. ASSUME NEW i \in 1 .. Len(s) + 1 PROVE FirstLeft(v, i, B) \in Record \union {0}
    <3>. DEFINE left == {k \in i .. Len(s) : s[k] \notin B}
    <3>1. left \in SUBSET Nat /\ left \subseteq 1 .. Len(s)
      BY <1>4
    <3>2. FirstLeft(v, i, B) = IF left = {} THEN 0 ELSE s[Min(left)]
      BY <1>4 DEF FirstLeft
    <3>. HIDE DEF left
    <3>3. left # {} => Min(left) \in 1 .. Len(s)
      BY <3>1, LeastIs
    <3>. QED
      BY <1>4, <3>2, <3>3
  <2>. QED
    BY <1>8, <2>1
<1>11. /\ alive' = alive \ B /\ diffed' = diffed \union {v}
       /\ record' = [q \in Record |->
            IF q \in B THEN Freed
            ELSE IF q \in In(s)
              THEN [record[q] EXCEPT !.next = FirstLeft(v, PlaceIn(v, q) + 1, B),
                                     !.parent = Left(@, B)]
            ELSE record[q]]
       /\ list' = [list EXCEPT ![v] =
            [first |-> FirstLeft(v, 1, B), last |-> Left(@.last, B), cur |-> Left(@.cur, B)]]
  BY <1>4, <1>6 DEF DiffAgainst
<1>12. list'[v] = [first |-> F[1], last |-> Left(list[v].last, B), cur |-> Left(list[v].cur, B)]
       /\ \A w \in ValidatorName \ {v} : list'[w] = list[w]
  BY <1>3, <1>9, <1>11 DEF ValTyped
<1>13. \A p \in Record \union {0, Gone} : Left(p, B) \in Record \union {0, Gone}
  BY DEF Left
<1>14. ASSUME NEW i \in 1 .. Len(s), s[i] \notin B
       PROVE  /\ record'[s[i]].next = F[i + 1]
              /\ record'[s[i]].parent = Left(record[s[i]].parent, B)
              /\ record'[s[i]] \in ObjectRecord
  <2>1. record[s[i]] \in ObjectRecord /\ s[i] \in Record /\ s[i] \in In(s)
    BY <1>3, <1>4 DEF ValTyped
  <2>2. record'[s[i]] = [record[s[i]] EXCEPT !.next = F[i + 1], !.parent = Left(@, B)]
    BY <1>4, <1>9, <1>11, <1>14, <2>1
  <2>3. F[i + 1] \in Record \union {0} /\ Left(record[s[i]].parent, B) \in Record \union {0, Gone}
    <3>1. i + 1 \in 1 .. Len(s) + 1
      BY <1>4
    <3>. QED
      BY <1>10, <1>13, <2>1, <3>1 DEF ObjectRecord
  <2>. QED
    BY <2>1, <2>2, <2>3 DEF ObjectRecord
<1>15. ValTyped'
  <2>1. record' \in [Record -> ObjectRecord]
    <3>1. ASSUME NEW q \in Record PROVE record'[q] \in ObjectRecord
      <4>1. CASE q \in B
        BY <1>11, <4>1 DEF Freed, ObjectRecord
      <4>2. CASE q \notin In(s)
        BY <1>3, <1>7, <1>11, <4>2 DEF ValTyped
      <4>3. CASE q \in In(s) /\ q \notin B
        BY <1>14, <4>3 DEF In
      <4>. QED
        BY <4>1, <4>2, <4>3
    <3>. QED
      BY <1>11, <3>1
  <2>2. list' \in [ValidatorName ->
                 [first : Record \union {0}, last : Record \union {0, Gone},
                  cur : Record \union {0, Gone}]]
    <3>1. DOMAIN list' = ValidatorName /\ list' = [w \in ValidatorName |-> list'[w]]
      BY <1>3, <1>11 DEF ValTyped
    <3>2. /\ F[1] \in Record \union {0} /\ Left(list[v].last, B) \in Record \union {0, Gone}
          /\ Left(list[v].cur, B) \in Record \union {0, Gone}
      <4>1. 1 \in 1 .. Len(s) + 1
        BY <1>4
      <4>. QED
        BY <1>3, <1>10, <1>13, <4>1 DEF ValTyped
    <3>3. \A w \in ValidatorName :
            list'[w] \in [first : Record \union {0}, last : Record \union {0, Gone},
                         cur : Record \union {0, Gone}]
      BY <1>3, <1>12, <3>2 DEF ValTyped
    <3>. QED
      BY <3>1, <3>3
  <2>3. alive' \subseteq Record /\ diffed' \subseteq ValidatorName
    BY <1>3, <1>11 DEF ValTyped
  <2>. QED
    BY <2>1, <2>2, <2>3 DEF ValTyped
<1>16. PICK t : IsChain(record', t, F[1]) /\ IsCulled(t, s, 1, B)
  <2>1. s \in Seq(DOMAIN record') /\ \A i, k \in 1 .. Len(s) : s[i] = s[k] => i = k
    BY <1>3, <1>15 DEF Listed, IsChain, ValTyped
  <2>2. \A i \in 1 .. Len(s) : F[i] = IF s[i] \in B THEN F[i + 1] ELSE s[i]
    BY <1>9
  <2>. QED
    BY <1>9, <1>14, <2>1, <2>2, ChainCull
<1>17. In(t) = In(s) \ B
  BY <1>16 DEF IsCulled, In
<1>18. ASSUME NEW i \in 1 .. Len(t)
       PROVE  \/ record'[t[i]].parent \in {0, Gone}
              \/ \E k \in 1 .. i - 1 : t[k] = record'[t[i]].parent
  <2>1. t[i] \in In(s) /\ t[i] \notin B
    BY <1>17 DEF In
  <2>2. PICK a \in 1 .. Len(s) : t[i] = s[a]
    BY <2>1 DEF In
  <2>3. record'[t[i]].parent = Left(record[s[a]].parent, B)
    BY <1>14, <2>1, <2>2
  <2>4. CASE record[s[a]].parent \in {0, Gone}
    BY <1>7, <2>3, <2>4 DEF Left
  <2>5. CASE record[s[a]].parent \in B
    BY <2>3, <2>5 DEF Left
  <2>6. CASE record[s[a]].parent \notin {0, Gone} /\ record[s[a]].parent \notin B
    <3>1. PICK b \in 1 .. a - 1 : s[b] = record[s[a]].parent
      BY <1>3, <2>6 DEF Listed, ParentsFirst
    <3>2. b \in 1 .. Len(s) /\ b < a /\ ~(a < b) /\ a # b
      BY <1>4, <3>1
    <3>3. record'[t[i]].parent = s[b] /\ s[b] \in In(t)
      BY <1>4, <1>17, <2>3, <2>6, <3>1, <3>2 DEF Left
    <3>4. PICK k \in 1 .. Len(t) : t[k] = s[b]
      BY <3>3 DEF In
    <3>5. ~(i < k)
      BY <1>16, <2>2, <3>2, <3>4 DEF IsCulled
    <3>6. k # i
      BY <1>4, <2>2, <3>2, <3>4
    <3>7. k \in 1 .. i - 1
      <4>1. Len(t) \in Nat
        BY <1>16, ChainParts
      <4>. QED
        BY <3>5, <3>6, <4>1
    <3>. QED
      BY <3>3, <3>4, <3>7
  <2>. QED
    BY <2>4, <2>5, <2>6
<1>19. Listed(record', list'[v], alive', v \notin diffed', t)
  <2>1. In(t) \subseteq alive'
    BY <1>3, <1>11, <1>17 DEF Listed
  <2>2. list'[v].first = F[1]
    BY <1>12
  <2>. QED
    BY <1>11, <1>16, <1>18, <2>1, <2>2 DEF Listed, ParentsFirst
<1>20. ASSUME NEW w \in ValidatorName \ {v}, NEW q \in In(ch[w])
       PROVE  record'[q] = record[q] /\ q \in alive' /\ q \notin In(t)
  <2>1. q \in alive /\ q \notin In(s) /\ q \in Record
    BY <1>1, <1>2, <1>3, SMTT(30) DEF Lists, Listed, ValTyped
  <2>. QED
    BY <1>7, <1>11, <1>17, <2>1
<1>21. \A w \in ValidatorName \ {v} :
         /\ \A q \in In(ch[w]) : record'[q] = record[q] /\ q \in alive' /\ q \notin In(t)
         /\ list'[w] = list[w] /\ (w \in diffed' <=> w \in diffed)
  BY <1>11, <1>12, <1>20
<1>. QED
  BY ONLY <1>1, <1>3, <1>15, <1>19, <1>21, v \in ValidatorName, OneListChanges

(* The copies are the new list, and their parents are found by place.      *)
LEMMA ValAssigns ==
  ASSUME ValInv, NEW v \in ValidatorName, NEW other \in ValidatorName, Assign(v, other)
  PROVE  ValInv'
<1>1. PICK ch : Lists(ch)
  BY DEF ValInv
<1>2. PICK s : s = ch[v]
  OBVIOUS
<1>3. PICK o : o = ch[other]
  OBVIOUS
<1>4. /\ ValTyped /\ IsChain(record, s, list[v].first)
      /\ IsChain(record, o, list[other].first) /\ ParentsFirst(record, o)
  BY <1>1, <1>2, <1>3 DEF Lists, Listed, ValInv
<1>5. Range(Chain(v)) = In(s)
  BY <1>4, ChainOfIs
<1>6. /\ Chain(other) = o /\ Len(o) \in Nat
      /\ \A i \in 1 .. Len(o) : o[i] \in Record /\ PlaceIn(other, o[i]) = i
      /\ \A q : PlaceIn(other, q) = 0 \/ PlaceIn(other, q) \in 1 .. Len(o)
      /\ \A q : q \notin Record => PlaceIn(other, q) = 0
  <2>1. /\ Chain(other) = o /\ Len(o) \in Nat
        /\ \A i \in 1 .. Len(o) : o[i] \in Record /\ PlaceIn(other, o[i]) = i
        /\ In(o) \subseteq Record
        /\ \A q : q \notin In(o) => PlaceIn(other, q) = 0
    BY <1>4, ChainOfIs
  <2>2. \A q \in In(o) : PlaceIn(other, q) \in 1 .. Len(o)
    BY <2>1 DEF In
  <2>. QED
    BY <2>1, <2>2
<1>7. 0 \notin Record /\ Gone \notin Record /\ Record \subseteq Nat
  BY ValidatorAssumption DEF Record, Gone
<1>8. PICK rest : rest = alive \ In(s)
  OBVIOUS
<1>9. PICK n \in 0 .. Len(o) : \E t \in [1 .. n -> Record \ rest] :
        LowestOf(Record \ rest, t) /\ alive' = rest \union Range(t) /\ Copied(v, other, t)
  BY <1>5, <1>6, <1>8 DEF Assign
<1>9a. PICK t \in [1 .. n -> Record \ rest] :
         LowestOf(Record \ rest, t) /\ alive' = rest \union Range(t) /\ Copied(v, other, t)
  BY <1>9
<1>10. diffed' = diffed \ {v}
  BY DEF Assign
<1>11. /\ n \in Nat /\ Len(t) = n /\ t \in Seq(Record) /\ DOMAIN t = 1 .. n
       /\ \A i \in 1 .. n : t[i] \in Record \ rest
  BY <1>6, <1>9, <1>9a
<1>12. Range(t) = In(t) /\ In(t) \subseteq Record \ rest
  BY <1>11 DEF Range, In
<1>13. \A i, k \in 1 .. n : t[i] = t[k] => i = k
  <2>. SUFFICES ASSUME NEW i \in 1 .. n, NEW k \in 1 .. n, t[i] = t[k] PROVE i = k
    OBVIOUS
  <2>1. i < k => t[i] < t[k]
    BY <1>9, <1>9a, <1>11 DEF LowestOf
  <2>2. k < i => t[k] < t[i]
    BY <1>9, <1>9a, <1>11 DEF LowestOf
  <2>3. t[i] \in Nat
    BY <1>7, <1>11
  <2>. QED
    BY <1>11, <2>1, <2>2, <2>3
<1>. DEFINE At(i) == IF i = 0 \/ i > n THEN 0 ELSE t[i]
<1>14. /\ record' = [q \in Record |-> record'[q]]
       /\ \A q \in Record \ In(t) : record'[q] = IF q \in In(s) THEN Freed ELSE record[q]
       /\ \A i \in 1 .. n : record'[t[i]] =
            [obj |-> record[o[i]].obj, next |-> At(i + 1),
             parent |-> At(PlaceIn(other, record[o[i]].parent))]
  <2>1. record' = [q \in Record |->
            IF q \in Range(t)
              THEN LET i == CHOOSE i \in DOMAIN t : t[i] = q
                   IN [obj |-> record[Chain(other)[i]].obj,
                       next |-> IF i + 1 = 0 \/ i + 1 > Len(t) THEN 0 ELSE t[i + 1],
                       parent |->
                         IF \/ PlaceIn(other, record[Chain(other)[i]].parent) = 0
                            \/ PlaceIn(other, record[Chain(other)[i]].parent) > Len(t)
                         THEN 0 ELSE t[PlaceIn(other, record[Chain(other)[i]].parent)]]
              ELSE IF q \in Range(Chain(v)) THEN Freed ELSE record[q]]
    BY <1>9a DEF Copied
  <2>2. ASSUME NEW i \in 1 .. n
        PROVE  record'[t[i]] = [obj |-> record[o[i]].obj, next |-> At(i + 1),
                                parent |-> At(PlaceIn(other, record[o[i]].parent))]
    <3>1. (CHOOSE k \in DOMAIN t : t[k] = t[i]) = i
      BY <1>11, <1>13
    <3>2. t[i] \in Range(t) /\ t[i] \in Record
      BY <1>11, <1>12 DEF In
    <3>. QED
      BY <1>6, <1>11, <2>1, <3>1, <3>2
  <2>3. \A q \in Record \ In(t) : record'[q] = IF q \in In(s) THEN Freed ELSE record[q]
    BY <1>5, <1>12, <2>1
  <2>. QED
    BY <2>1, <2>2, <2>3
<1>15. \A i \in Nat : At(i) \in Record \union {0}
  BY <1>11
<1>16. \A q : At(PlaceIn(other, q)) \in In(t) \union {0}
  <2>1. \A q : PlaceIn(other, q) = 0 \/ PlaceIn(other, q) \in 1 .. Len(o)
    BY <1>6
  <2>2. \A i \in 1 .. Len(o) : i > n \/ t[i] \in In(t)
    BY <1>6, <1>9, <1>9a, <1>11 DEF In
  <2>. QED
    BY <2>1, <2>2
<1>17. At(0) = 0 /\ At(1) = Starts(t) /\ At(n) = Ends(t)
       /\ \A i \in 1 .. n : At(i + 1) = Follows(t, i) /\ At(i) = t[i]
  BY <1>11 DEF Starts, Ends, Follows
<1>. HIDE DEF At
<1>18. ASSUME NEW i \in 1 .. n
       PROVE  /\ record'[t[i]].next = At(i + 1)
              /\ record'[t[i]].parent = At(PlaceIn(other, record[o[i]].parent))
              /\ record'[t[i]] \in ObjectRecord
  <2>3. record'[t[i]] = [obj |-> record[o[i]].obj, next |-> At(i + 1),
                         parent |-> At(PlaceIn(other, record[o[i]].parent))]
    BY <1>14
  <2>4. record[o[i]] \in ObjectRecord
    <3>1. i \in 1 .. Len(o)
      BY <1>6, <1>9
    <3>. QED
      BY <1>4, <1>6, <3>1 DEF ValTyped
  <2>5. At(i + 1) \in Record \union {0} /\ i + 1 \in Nat
    BY <1>15
  <2>6. At(PlaceIn(other, record[o[i]].parent)) \in Record \union {0}
    BY <1>12, <1>16
  <2>. QED
    BY <2>3, <2>4, <2>5, <2>6 DEF ObjectRecord
<1>19. /\ list'[v] = [list[other] EXCEPT !.first = At(1), !.last = At(n),
                                        !.cur = At(PlaceIn(other, @))]
       /\ \A w \in ValidatorName \ {v} : list'[w] = list[w]
       /\ list' = [w \in ValidatorName |-> list'[w]]
  <2>1. list' = [list EXCEPT ![v] = list'[v]]
    BY <1>4, <1>9a DEF Copied, ValTyped
  <2>2. list'[v] = [list[other] EXCEPT !.first = At(1), !.last = At(n),
                                       !.cur = At(PlaceIn(other, @))]
    BY <1>4, <1>9a, <1>11 DEF Copied, ValTyped, At
  <2>. QED
    BY <1>4, <2>1, <2>2 DEF ValTyped
<1>20. /\ list'[v].first = At(1) /\ list'[v].last = At(n)
       /\ list'[v].cur = At(PlaceIn(other, list[other].cur))
       /\ list'[v] \in [first : Record \union {0}, last : Record \union {0, Gone},
                        cur : Record \union {0, Gone}]
  <2>1. list[other] \in [first : Record \union {0}, last : Record \union {0, Gone},
                         cur : Record \union {0, Gone}]
    BY <1>4 DEF ValTyped
  <2>2. At(1) \in Record \union {0} /\ At(n) \in Record \union {0}
    BY <1>11, <1>15
  <2>3. At(PlaceIn(other, list[other].cur)) \in Record \union {0}
    BY <1>12, <1>16
  <2>. QED
    BY <1>19, <2>1, <2>2, <2>3
<1>21. ValTyped'
  <2>1. record' \in [Record -> ObjectRecord]
    <3>1. ASSUME NEW q \in Record PROVE record'[q] \in ObjectRecord
      <4>1. CASE q \in In(t)
        BY <1>11, <1>18, <4>1 DEF In
      <4>2. CASE q \notin In(t) /\ q \in In(s)
        BY <1>14, <4>2 DEF Freed, ObjectRecord
      <4>3. CASE q \notin In(t) /\ q \notin In(s)
        BY <1>4, <1>14, <4>3 DEF ValTyped
      <4>. QED
        BY <4>1, <4>2, <4>3
    <3>. QED
      BY <1>14, <3>1
  <2>2. list' \in [ValidatorName ->
                 [first : Record \union {0}, last : Record \union {0, Gone},
                  cur : Record \union {0, Gone}]]
    <3>1. DOMAIN list' = ValidatorName /\ list' = [w \in ValidatorName |-> list'[w]]
      BY <1>4, <1>19 DEF ValTyped
    <3>2. \A w \in ValidatorName :
            list'[w] \in [first : Record \union {0}, last : Record \union {0, Gone},
                         cur : Record \union {0, Gone}]
      BY <1>4, <1>19, <1>20 DEF ValTyped
    <3>. QED
      BY <3>1, <3>2
  <2>3. alive' \subseteq Record /\ diffed' \subseteq ValidatorName
    BY <1>4, <1>8, <1>9, <1>9a, <1>10, <1>12 DEF ValTyped
  <2>. QED
    BY <2>1, <2>2, <2>3 DEF ValTyped
<1>22. IsChain(record', t, list'[v].first)
  <2>1. t \in Seq(DOMAIN record')
    BY <1>11, <1>21 DEF ValTyped
  <2>. QED
    BY <1>11, <1>13, <1>17, <1>18, <1>20, <2>1 DEF IsChain
<1>23. ASSUME NEW i \in 1 .. n
       PROVE  /\ record'[t[i]].parent # Gone
              /\ record'[t[i]].parent = 0 \/ \E k \in 1 .. i - 1 : t[k] = record'[t[i]].parent
  <2>0. i \in 1 .. Len(o)
    BY <1>6, <1>9
  <2>1. CASE record[o[i]].parent \in {0, Gone}
    <3>1. PlaceIn(other, record[o[i]].parent) = 0
      BY <1>6, <1>7, <2>1
    <3>2. record'[t[i]].parent = 0
      BY <1>17, <1>18, <3>1
    <3>. QED
      BY <3>2 DEF Gone
  <2>2. CASE record[o[i]].parent \notin {0, Gone}
    <3>1. PICK k \in 1 .. i - 1 : o[k] = record[o[i]].parent
      BY <1>4, <2>0, <2>2 DEF ParentsFirst
    <3>2. k \in 1 .. Len(o) /\ k \in 1 .. n
      BY <1>6, <1>11, <2>0, <3>1
    <3>3. record'[t[i]].parent = t[k] /\ t[k] # Gone
      BY <1>6, <1>7, <1>11, <1>17, <1>18, <3>1, <3>2
    <3>. QED
      BY <3>1, <3>3
  <2>. QED
    BY <2>1, <2>2
<1>24. Listed(record', list'[v], alive', v \notin diffed', t)
  <2>1. In(t) \subseteq alive' /\ ParentsFirst(record', t)
    BY <1>9, <1>9a, <1>11, <1>12, <1>23 DEF ParentsFirst
  <2>2. Whole(record', list'[v], t)
    BY <1>11, <1>16, <1>17, <1>20, <1>23 DEF Whole
  <2>. QED
    BY <1>22, <2>1, <2>2 DEF Listed
<1>25. ASSUME NEW w \in ValidatorName \ {v}, NEW q \in In(ch[w])
       PROVE  record'[q] = record[q] /\ q \in alive' /\ q \notin In(t)
  <2>1. q \in alive /\ q \notin In(s) /\ q \in Record
    BY <1>1, <1>2, <1>4 DEF Lists, Listed, ValTyped
  <2>2. q \in rest /\ q \notin In(t)
    BY <1>8, <1>12, <2>1
  <2>. QED
    BY <1>9, <1>9a, <1>14, <2>1, <2>2
<1>26. \A w \in ValidatorName \ {v} :
         /\ \A q \in In(ch[w]) : record'[q] = record[q] /\ q \in alive' /\ q \notin In(t)
         /\ list'[w] = list[w] /\ (w \in diffed' <=> w \in diffed)
  BY <1>10, <1>19, <1>25
<1>. QED
  BY ONLY <1>1, <1>4, <1>21, <1>24, <1>26, v \in ValidatorName, OneListChanges

-----------------------------------------------------------------------------
(* Every step of the validators.                                           *)
LEMMA ValSteps == ValInv /\ [ValidatorNext]_validatorVars => ValInv'
<1>. SUFFICES ASSUME ValInv, [ValidatorNext]_validatorVars PROVE ValInv'
  OBVIOUS
<1>1. ASSUME NEW v \in ValidatorName, NEW obj \in Object, Push(v, obj) PROVE ValInv'
  BY <1>1, ValPushes
<1>2. ASSUME NEW v \in ValidatorName, Pop(v) PROVE ValInv'
  BY <1>2, ValPops
<1>3. ASSUME NEW v \in ValidatorName, NEW other \in ValidatorName, DiffAgainst(v, other)
      PROVE  ValInv'
  BY <1>3, ValDiffs
<1>4. ASSUME NEW v \in ValidatorName, NEW other \in ValidatorName, Assign(v, other)
      PROVE  ValInv'
  BY <1>4, ValAssigns
<1>5. CASE UNCHANGED validatorVars
  <2>1. PICK ch : Lists(ch)
    BY DEF ValInv
  <2>2. Lists(ch)'
    BY <1>5, <2>1 DEF validatorVars, Lists, Listed, IsChain, Whole, ParentsFirst
  <2>3. ValTyped'
    BY <1>5 DEF ValInv, validatorVars, ValTyped
  <2>. QED
    BY <2>2, <2>3 DEF ValInv
<1>. QED
  BY <1>1, <1>2, <1>3, <1>4, <1>5 DEF ValidatorNext

(* Every list of a validator ends and is its own, and while DiffAgainst    *)
(* was not run on it a parent comes before its children and what is open   *)
(* is in it: CValidator's operator= looks parents up that way.             *)
THEOREM RecordsAlwaysInOrder == ValidatorSpec => []RecordsInOrder
<1>1. ValidatorInit => ValInv
  BY ValStarts
<1>2. ValInv /\ [ValidatorNext]_validatorVars => ValInv'
  BY ValSteps
<1>3. ValInv => RecordsInOrder
  BY ValIsOrder
<1>. QED
  BY <1>1, <1>2, <1>3, PTL DEF ValidatorSpec

-----------------------------------------------------------------------------
(* The types of a file and of what its client read.                        *)
LineRead == [line : Seq(Character), end : Seq(Character), room : Nat, null : BOOLEAN]
TokenRead == [white : Seq(Character), token : Seq(Character)]

TextTyped ==
  /\ text \in Seq(Character)
  /\ pos \in Nat /\ mark \in Nat /\ parsed \in Nat
  /\ lines \in Seq(LineRead)
  /\ tokens \in Seq(TokenRead)

(* What was read lies in the file.                                         *)
InText ==
  /\ mark <= pos /\ (pos <= TextSize \/ mark = pos)
  /\ parsed <= TextSize

(* A line that ended with a CR took the LF behind it along.                *)
TookLF ==
  Len(lines) # 0 /\ lines[Len(lines)].end = <<CR>> => EndOfFile(pos) \/ ByteAt(pos) # LF

TextInv == TextTyped /\ InText /\ TookLF /\ TextInOrder

-----------------------------------------------------------------------------
(* Bytes and the bytes they are.                                           *)
LEMMA BytesAre ==
  ASSUME TextTyped, NEW p \in Nat, NEW q \in Nat, p <= q, q <= TextSize \/ p = q
  PROVE  /\ Bytes(p, q) \in Seq(Character) /\ Len(Bytes(p, q)) = q - p
         /\ \A i \in 1 .. q - p : Bytes(p, q)[i] = ByteAt(p + i - 1)
         /\ Range(Bytes(p, q)) = {ByteAt(p + m) : m \in 0 .. q - p - 1}
         /\ Bytes(p, q) = <<>> <=> p = q
<1>0. text \in Seq(Character) /\ Len(text) \in Nat
  BY DEF TextTyped
<1>1. PICK b : b = Bytes(p, q)
  OBVIOUS
<1>2. /\ b \in Seq(Character) /\ Len(b) = q - p
      /\ \A i \in 1 .. q - p : b[i] = text[p + i]
  BY <1>0, <1>1, PartIs DEF Bytes, TextSize
<1>3. \A i \in 1 .. q - p : b[i] = ByteAt(p + i - 1)
  <2>1. \A i \in 1 .. q - p : (p + i - 1) + 1 = p + i
    OBVIOUS
  <2>. QED
    BY <1>2, <2>1 DEF ByteAt
<1>4. DOMAIN b = 1 .. q - p
  BY <1>2, SeqIs
<1>5. Range(b) = {ByteAt(p + m) : m \in 0 .. q - p - 1}
  <2>1. ASSUME NEW i \in 1 .. q - p
        PROVE  b[i] \in {ByteAt(p + m) : m \in 0 .. q - p - 1}
    <3>1. i - 1 \in 0 .. q - p - 1 /\ p + (i - 1) = p + i - 1
      OBVIOUS
    <3>. QED
      BY <1>3, <3>1
  <2>2. ASSUME NEW m \in 0 .. q - p - 1
        PROVE  \E i \in 1 .. q - p : ByteAt(p + m) = b[i]
    <3>1. m + 1 \in 1 .. q - p /\ p + (m + 1) - 1 = p + m
      OBVIOUS
    <3>. QED
      BY <1>3, <3>1
  <2>. QED
    BY <1>4, <2>1, <2>2 DEF Range
<1>6. b = <<>> <=> p = q
  <2>1. b = <<>> <=> Len(b) = 0
    BY <1>2, EmptySeq
  <2>. QED
    BY <1>2, <2>1
<1>. QED
  BY <1>1, <1>2, <1>3, <1>5, <1>6

(* The bytes before the first that is searched for.                        *)
LEMMA TakenIs ==
  ASSUME TextTyped, NEW p \in Nat, NEW room \in Nat
  PROVE  LET n == TakenFrom(p, room)
         IN  /\ n \in 0 .. room
             /\ n = room \/ EndOfFile(p + n) \/ ByteAt(p + n) \in {CR, LF}
             /\ \A m \in 0 .. n - 1 : ~EndOfFile(p + m) /\ ByteAt(p + m) \notin {CR, LF}
<1>. DEFINE T == {n \in 0 .. room : n = room \/ EndOfFile(p + n) \/ ByteAt(p + n) \in {CR, LF}}
<1>1. PICK n : n = TakenFrom(p, room)
  OBVIOUS
<1>2. n = Min(T)
  BY <1>1 DEF TakenFrom
<1>3. T \in SUBSET Nat /\ room \in T
  OBVIOUS
<1>4. n \in T /\ \A y \in T : n <= y
  <2>. HIDE DEF T
  <2>. QED
    BY <1>2, <1>3, LeastIs
<1>5. n \in 0 .. room /\ (n = room \/ EndOfFile(p + n) \/ ByteAt(p + n) \in {CR, LF})
  BY <1>4
<1>6. ASSUME NEW m \in 0 .. n - 1 PROVE ~EndOfFile(p + m) /\ ByteAt(p + m) \notin {CR, LF}
  <2>1. m \in 0 .. room /\ ~(n <= m)
    BY <1>5
  <2>2. m \notin T
    BY <1>4, <2>1
  <2>. QED
    BY <2>1, <2>2
<1>. QED
  BY <1>1, <1>5, <1>6

(* The same of a run: the bytes before the first of those that end it.     *)
LEMMA RunIs ==
  ASSUME TextTyped, NEW p \in Nat, NEW ends
  PROVE  LET n == RunFrom(p, ends)
         IN  /\ n \in 0 .. TextSize
             /\ EndOfFile(p + n) \/ ByteAt(p + n) \in ends
             /\ \A m \in 0 .. n - 1 : ~EndOfFile(p + m) /\ ByteAt(p + m) \notin ends
<1>. DEFINE T == {n \in 0 .. TextSize : EndOfFile(p + n) \/ ByteAt(p + n) \in ends}
<1>0. TextSize \in Nat
  BY DEF TextSize, TextTyped
<1>1. PICK n : n = RunFrom(p, ends)
  OBVIOUS
<1>2. n = Min(T)
  BY <1>1 DEF RunFrom
<1>3. T \in SUBSET Nat /\ TextSize \in T
  BY <1>0 DEF EndOfFile
<1>4. n \in T /\ \A y \in T : n <= y
  <2>. HIDE DEF T
  <2>. QED
    BY <1>2, <1>3, LeastIs
<1>5. n \in 0 .. TextSize /\ (EndOfFile(p + n) \/ ByteAt(p + n) \in ends)
  BY <1>4
<1>6. ASSUME NEW m \in 0 .. n - 1 PROVE ~EndOfFile(p + m) /\ ByteAt(p + m) \notin ends
  <2>1. m \in 0 .. TextSize /\ ~(n <= m)
    BY <1>0, <1>5
  <2>2. m \notin T
    BY <1>4, <2>1
  <2>. QED
    BY <2>1, <2>2
<1>. QED
  BY <1>1, <1>5, <1>6

-----------------------------------------------------------------------------
(* Nothing was read yet.                                                   *)
LEMMA NoLines == TextTyped /\ lines = <<>> /\ mark = pos => LinesTileFile /\ TookLF
<1>. SUFFICES ASSUME TextTyped, lines = <<>>, mark = pos PROVE LinesTileFile /\ TookLF
  OBVIOUS
<1>1. Len(lines) = 0 /\ DOMAIN lines = {}
  OBVIOUS
<1>2. PICK q : q = [i \in DOMAIN lines |-> lines[i].line \o lines[i].end]
  OBVIOUS
<1>3. q = <<>>
  BY <1>1, <1>2
<1>4. FlattenSeq(q) = <<>>
  BY <1>3 DEF FlattenSeq
<1>5. Bytes(mark, pos) = <<>>
  BY BytesAre DEF TextTyped
<1>. QED
  BY <1>1, <1>2, <1>4, <1>5 DEF LinesTileFile, TookLF

(* No token was parsed yet.                                                *)
LEMMA NoTokens == TextTyped /\ tokens = <<>> /\ parsed = 0 => TokensTileFile
<1>. SUFFICES ASSUME TextTyped, tokens = <<>>, parsed = 0 PROVE TokensTileFile
  OBVIOUS
<1>1. DOMAIN tokens = {}
  OBVIOUS
<1>2. PICK q : q = [i \in DOMAIN tokens |-> tokens[i].white \o tokens[i].token]
  OBVIOUS
<1>3. q = <<>>
  BY <1>1, <1>2
<1>4. FlattenSeq(q) = <<>>
  BY <1>3 DEF FlattenSeq
<1>5. Bytes(0, parsed) = <<>>
  BY BytesAre DEF TextTyped
<1>. QED
  BY <1>1, <1>2, <1>4, <1>5 DEF TokensTileFile

(* The same of what a step makes so.                                       *)
LEMMA NoneThen ==
  /\ (TextTyped /\ lines = <<>> /\ mark = pos)' => (LinesTileFile /\ TookLF)'
  /\ (TextTyped /\ tokens = <<>> /\ parsed = 0)' => TokensTileFile'
BY NoLines, NoTokens, PTL

(* What ends a line is the bytes there, all of CR LF if that is there.     *)
LEMMA EndIs ==
  ASSUME TextTyped, NEW p \in Nat, EndOfFile(p) \/ ByteAt(p) \in {CR, LF}
  PROVE  LET e == EndsWith(p)
         IN  /\ e \in {<<>>, <<CR>>, <<LF>>, <<CR, LF>>} /\ e \in Seq(Character)
             /\ Len(e) \in Nat /\ e = Bytes(p, p + Len(e))
             /\ e = <<>> <=> EndOfFile(p)
             /\ e # <<>> => p + Len(e) <= TextSize
             /\ e = <<CR>> => EndOfFile(p + 1) \/ ByteAt(p + 1) # LF
             /\ e = <<LF>> => ByteAt(p) = LF
<1>0. TextSize \in Nat
  BY DEF TextSize, TextTyped
<1>. DEFINE e == EndsWith(p)
<1>1. CASE EndOfFile(p)
  <2>0. e = <<>>
    <3>1. EndOfFile(p + 1)
      BY <1>0, <1>1 DEF EndOfFile
    <3>. QED
      BY <1>1, <3>1 DEF EndsWith
  <2>1. e = <<>> /\ Len(e) = 0 /\ p + 0 = p
    <3>. HIDE DEF e
    <3>. QED
      BY <2>0
  <2>2. Bytes(p, p) = <<>>
    BY BytesAre
  <2>3. <<>> # <<CR>> /\ <<>> # <<LF>> /\ <<>> \in Seq(Character)
    OBVIOUS
  <2>. HIDE DEF e
  <2>. QED
    BY <1>1, <2>1, <2>2, <2>3 DEF e
<1>2. CASE ~EndOfFile(p) /\ ByteAt(p) = CR /\ ~EndOfFile(p + 1) /\ ByteAt(p + 1) = LF
  <2>1. e = <<CR, LF>> /\ Len(e) = 2
    BY <1>2 DEF EndsWith
  <2>2. p + 2 <= TextSize
    BY <1>0, <1>2 DEF EndOfFile
  <2>3. /\ Bytes(p, p + 2) \in Seq(Character) /\ Len(Bytes(p, p + 2)) = 2
        /\ Bytes(p, p + 2)[1] = CR /\ Bytes(p, p + 2)[2] = LF
    <3>1. (p + 2) - p = 2 /\ p + 1 - 1 = p /\ p + 2 - 1 = p + 1 /\ p + 2 \in Nat /\ p <= p + 2
      OBVIOUS
    <3>2. /\ Bytes(p, p + 2) \in Seq(Character) /\ Len(Bytes(p, p + 2)) = (p + 2) - p
          /\ \A i \in 1 .. (p + 2) - p : Bytes(p, p + 2)[i] = ByteAt(p + i - 1)
      BY <2>2, <3>1, BytesAre
    <3>3. \A i \in 1 .. 2 : Bytes(p, p + 2)[i] = ByteAt(p + i - 1)
      BY <3>1, <3>2
    <3>. QED
      BY <1>2, <3>1, <3>2, <3>3
  <2>4. <<CR, LF>> \in Seq(Character) /\ <<CR, LF>>[1] = CR /\ <<CR, LF>>[2] = LF
    BY DEF Character
  <2>5. Bytes(p, p + 2) = <<CR, LF>>
    <3>1. \A i \in 1 .. 2 : i = 1 \/ i = 2
      OBVIOUS
    <3>. QED
      BY <2>3, <2>4, <3>1, SeqEqual
  <2>6. <<CR, LF>> # <<CR>> /\ <<CR, LF>> # <<LF>> /\ <<CR, LF>> # <<>>
    OBVIOUS
  <2>. HIDE DEF e
  <2>. QED
    BY <1>2, <2>1, <2>2, <2>4, <2>5, <2>6 DEF e
<1>3. CASE ~EndOfFile(p) /\ ~(ByteAt(p) = CR /\ ~EndOfFile(p + 1) /\ ByteAt(p + 1) = LF)
  <2>1. e = <<ByteAt(p)>> /\ Len(e) = 1
    BY <1>3 DEF EndsWith
  <2>2. p + 1 <= TextSize /\ ByteAt(p) \in {CR, LF}
    BY <1>0, <1>3 DEF EndOfFile
  <2>3. /\ Bytes(p, p + 1) \in Seq(Character) /\ Len(Bytes(p, p + 1)) = 1
        /\ Bytes(p, p + 1)[1] = ByteAt(p)
    <3>1. (p + 1) - p = 1 /\ p + 1 - 1 = p /\ p + 1 \in Nat /\ p <= p + 1
      OBVIOUS
    <3>2. /\ Bytes(p, p + 1) \in Seq(Character) /\ Len(Bytes(p, p + 1)) = (p + 1) - p
          /\ \A i \in 1 .. (p + 1) - p : Bytes(p, p + 1)[i] = ByteAt(p + i - 1)
      BY <2>2, <3>1, BytesAre
    <3>3. \A i \in 1 .. 1 : Bytes(p, p + 1)[i] = ByteAt(p + i - 1)
      BY <3>1, <3>2
    <3>. QED
      BY <3>1, <3>2, <3>3
  <2>4. e \in Seq(Character) /\ e[1] = ByteAt(p)
    BY <2>1, <2>2 DEF Character
  <2>. HIDE DEF e
  <2>5. Bytes(p, p + 1) = e
    <3>1. \A i \in 1 .. 1 : i = 1
      OBVIOUS
    <3>. QED
      BY <2>1, <2>3, <2>4, <3>1, SeqEqual
  <2>6. e # <<>> /\ e # <<CR, LF>> /\ (e = <<CR>> => ByteAt(p) = CR) /\ (e = <<LF>> => ByteAt(p) = LF)
    BY <2>1
  <2>. QED
    BY <1>3, <2>1, <2>2, <2>4, <2>5, <2>6 DEF e
<1>. QED
  BY <1>1, <1>2, <1>3

(* Lines tile the file with one more line.                                 *)
LEMMA ReadsLine ==
  ASSUME TextInv, NEW maxChars \in LineSize, ReadLine(maxChars)
  PROVE  TextInv'
<1>. DEFINE room == maxChars - 1
            n == TakenFrom(pos, room)
            end == IF n = room THEN <<>> ELSE EndsWith(pos + n)
            next == pos + n + Len(end)
            read == [line |-> Bytes(pos, pos + n), end |-> end, room |-> room,
                     null |-> n = 0 /\ EndOfFile(next)]
            c == Len(lines)
<1>1. /\ pos' = next /\ lines' = Append(lines, read)
      /\ UNCHANGED <<text, mark, parsed, tokens>>
  BY DEF ReadLine
<1>2. TextTyped /\ InText /\ TookLF /\ LinesTileFile /\ TokensTileFile
  BY DEF TextInv, TextInOrder
<1>3. room \in Nat \ {0} /\ pos \in Nat /\ TextSize \in Nat /\ c \in Nat /\ mark \in Nat
  <2>1. maxChars \in Nat \ {0, 1}
    BY TextAssumption
  <2>. QED
    BY <1>2, <2>1 DEF TextTyped, TextSize
<1>4. /\ n \in 0 .. room
      /\ n = room \/ EndOfFile(pos + n) \/ ByteAt(pos + n) \in {CR, LF}
      /\ \A m \in 0 .. n - 1 : ~EndOfFile(pos + m) /\ ByteAt(pos + m) \notin {CR, LF}
  BY <1>2, <1>3, TakenIs
<1>. HIDE DEF n, room
<1>5. n \in Nat /\ pos + n \in Nat /\ (n # 0 => pos + n <= TextSize)
  <2>1. n # 0 => n - 1 \in 0 .. n - 1
    BY <1>3, <1>4
  <2>2. n # 0 => ~EndOfFile(pos + (n - 1))
    BY <1>4, <2>1
  <2>. QED
    BY <1>3, <1>4, <2>2 DEF EndOfFile
<1>6. /\ end \in {<<>>, <<CR>>, <<LF>>, <<CR, LF>>} /\ end \in Seq(Character)
      /\ Len(end) \in Nat /\ end = Bytes(pos + n, pos + n + Len(end))
      /\ end = <<>> <=> n = room \/ EndOfFile(pos + n)
      /\ end # <<>> => pos + n + Len(end) <= TextSize
      /\ end = <<CR>> => EndOfFile(pos + n + 1) \/ ByteAt(pos + n + 1) # LF
      /\ end = <<LF>> => ByteAt(pos + n) = LF
      /\ end = <<>> => Len(end) = 0
      /\ end = <<CR>> => Len(end) = 1
  <2>1. CASE n = room
    <3>1. end = <<>> /\ Len(end) = 0 /\ pos + n + 0 = pos + n
      BY <1>5, <2>1
    <3>2. Bytes(pos + n, pos + n) = <<>>
      BY <1>2, <1>5, BytesAre
    <3>3. <<>> # <<CR>> /\ <<>> # <<LF>> /\ <<>> \in Seq(Character)
      OBVIOUS
    <3>. HIDE DEF end
    <3>. QED
      BY <2>1, <3>1, <3>2, <3>3
  <2>2. CASE n # room
    <3>1. end = EndsWith(pos + n)
      BY <2>2
    <3>2. EndOfFile(pos + n) \/ ByteAt(pos + n) \in {CR, LF}
      BY <1>4, <2>2
    <3>. HIDE DEF end
    <3>3. /\ end \in {<<>>, <<CR>>, <<LF>>, <<CR, LF>>} /\ end \in Seq(Character)
          /\ Len(end) \in Nat /\ end = Bytes(pos + n, pos + n + Len(end))
          /\ end = <<>> <=> EndOfFile(pos + n)
          /\ end # <<>> => pos + n + Len(end) <= TextSize
          /\ end = <<CR>> => EndOfFile(pos + n + 1) \/ ByteAt(pos + n + 1) # LF
          /\ end = <<LF>> => ByteAt(pos + n) = LF
      BY <1>2, <1>5, <3>1, <3>2, EndIs
    <3>4. (end = <<>> => Len(end) = 0) /\ (end = <<CR>> => Len(end) = 1)
      OBVIOUS
    <3>. QED
      BY <2>2, <3>3, <3>4
  <2>. QED
    BY <2>1, <2>2
<1>. HIDE DEF end
<1>7. /\ next \in Nat /\ pos <= pos + n /\ pos + n <= next /\ pos <= next
      /\ next <= TextSize \/ next = pos
      /\ end = Bytes(pos + n, next)
  <2>1. end = <<>> => next = pos + n
    BY <1>5, <1>6
  <2>2. next \in Nat /\ pos <= pos + n /\ pos + n <= next /\ pos <= next
    BY <1>3, <1>5, <1>6
  <2>. QED
    BY <1>3, <1>5, <1>6, <2>1, <2>2
<1>8. /\ Bytes(pos, pos + n) \in Seq(Character) /\ Len(Bytes(pos, pos + n)) = n
      /\ Range(Bytes(pos, pos + n)) = {ByteAt(pos + m) : m \in 0 .. n - 1}
      /\ Bytes(pos, pos + n) = <<>> <=> n = 0
  <2>1. pos <= pos + n /\ (pos + n <= TextSize \/ pos = pos + n) /\ (pos + n) - pos = n
        /\ (pos = pos + n <=> n = 0)
    BY <1>3, <1>5
  <2>. QED
    BY <1>2, <1>3, <1>5, <2>1, BytesAre
<1>. HIDE DEF next
<1>9. Bytes(pos, pos + n) \o end = Bytes(pos, next)
  <2>1. text \in Seq(Character) /\ (next <= Len(text) \/ pos = next)
    BY <1>2, <1>7 DEF TextTyped, TextSize
  <2>2. SubSeq(text, pos + 1, pos + n) \o SubSeq(text, pos + n + 1, next)
          = SubSeq(text, pos + 1, next)
    BY <1>3, <1>5, <1>7, <2>1, PartsJoin
  <2>. QED
    BY <1>7, <2>2 DEF Bytes
<1>10. Bytes(mark, pos) \o Bytes(pos, next) = Bytes(mark, next)
  <2>1. text \in Seq(Character) /\ (next <= Len(text) \/ mark = next) /\ mark <= pos
    BY <1>2, <1>7 DEF TextTyped, TextSize, InText
  <2>2. SubSeq(text, mark + 1, pos) \o SubSeq(text, pos + 1, next) = SubSeq(text, mark + 1, next)
    BY <1>3, <1>7, <2>1, PartsJoin
  <2>. QED
    BY <2>2 DEF Bytes
<1>11. read \in LineRead
  BY <1>3, <1>6, <1>8 DEF LineRead
<1>12. read.line = Bytes(pos, pos + n) /\ read.end = end /\ read.room = room
       /\ (read.null <=> n = 0 /\ EndOfFile(next))
  OBVIOUS
<1>. HIDE DEF read
<1>13. /\ Len(lines') = c + 1 /\ DOMAIN lines' = 1 .. c + 1 /\ DOMAIN lines = 1 .. c
       /\ lines'[c + 1] = read /\ \A i \in 1 .. c : lines'[i] = lines[i] /\ lines[i] \in LineRead
       /\ lines' \in Seq(LineRead)
  BY <1>1, <1>2, <1>11 DEF TextTyped
<1>. HIDE DEF c
<1>14. TextTyped'
  BY <1>1, <1>2, <1>7, <1>13 DEF TextTyped
<1>15. InText'
  BY <1>1, <1>2, <1>3, <1>7 DEF InText, TextSize
<1>16. \A p : EndOfFile(p)' <=> EndOfFile(p)
  BY <1>1 DEF EndOfFile, TextSize
<1>17. \A p : ByteAt(p)' = ByteAt(p)
  BY <1>1 DEF ByteAt
<1>18. TookLF'
  <2>. SUFFICES ASSUME lines'[c + 1].end = <<CR>> PROVE EndOfFile(next) \/ ByteAt(next) # LF
    BY <1>1, <1>13 DEF TookLF, EndOfFile, TextSize, ByteAt
  <2>1. end = <<CR>> /\ Len(end) = 1
    BY <1>6, <1>12, <1>13
  <2>2. next = pos + n + 1
    BY <2>1 DEF next
  <2>. QED
    BY <1>6, <2>1, <2>2
<1>19. FlattenSeq([i \in DOMAIN lines |-> lines[i].line \o lines[i].end])' = Bytes(mark, pos)'
  <2>1. PICK q : q = [i \in DOMAIN lines |-> lines[i].line \o lines[i].end]
    OBVIOUS
  <2>2. FlattenSeq(q) = Bytes(mark, pos)
    BY <1>2, <2>1 DEF LinesTileFile
  <2>3. q \in Seq(Seq(Character)) /\ Len(q) = c
    <3>1. \A i \in 1 .. c : lines[i].line \o lines[i].end \in Seq(Character)
      BY <1>13, ConcatProperties DEF LineRead
    <3>2. q \in [1 .. c -> Seq(Character)]
      BY <1>13, <2>1, <3>1
    <3>. QED
      BY <1>3, <3>2 DEF c
  <2>4. PICK q2 : q2 = [i \in DOMAIN lines' |-> lines'[i].line \o lines'[i].end]
    OBVIOUS
  <2>5. PICK x : x = Bytes(pos, next)
    OBVIOUS
  <2>6. x \in Seq(Character)
    BY <1>2, <1>3, <1>7, <2>5, BytesAre
  <2>7. q2 = Append(q, x)
    <3>1. \A i \in 1 .. c : q2[i] = q[i]
      <4>1. \A i \in 1 .. c : i \in 1 .. c + 1
        BY <1>3 DEF c
      <4>. QED
        BY <1>13, <2>1, <2>4, <4>1
    <3>2. q2[c + 1] = x
      <4>1. c + 1 \in 1 .. c + 1
        BY <1>3 DEF c
      <4>. QED
        BY <1>9, <1>12, <1>13, <2>4, <2>5, <4>1
    <3>3. q2 \in [1 .. c + 1 -> Seq(Character)]
      <4>1. \A i \in 1 .. c + 1 : lines'[i] \in LineRead
        BY <1>13, SeqIs
      <4>2. \A i \in 1 .. c + 1 : lines'[i].line \o lines'[i].end \in Seq(Character)
        BY <4>1, ConcatProperties DEF LineRead
      <4>. QED
        BY <1>13, <2>4, <4>2
    <3>4. c \in Nat /\ c = Len(q)
      BY <1>3, <2>3 DEF c
    <3>. QED
      BY <2>3, <2>6, <3>1, <3>2, <3>3, <3>4, AppendedIs
  <2>8. FlattenSeq(q2) = Bytes(mark, next)
    BY <1>10, <2>2, <2>3, <2>5, <2>6, <2>7, FlattenAppend
  <2>. QED
    BY <1>1, <2>4, <2>8 DEF Bytes
<1>20. ASSUME NEW i \in 1 .. c + 1
       PROVE  /\ Range(lines'[i].line) \cap {CR, LF} = {}
              /\ lines'[i].end \in {<<>>, <<CR>>, <<LF>>, <<CR, LF>>}
              /\ lines'[i].end = <<>> /\ Len(lines'[i].line) < lines'[i].room => EndOfFile(next)
              /\ lines'[i].null => EndOfFile(next)
              /\ \A j \in i + 1 .. c + 1 :
                   /\ lines'[i].null => lines'[j].null
                   /\ j = i + 1 /\ lines'[i].end = <<CR>> =>
                        lines'[j].line # <<>> \/ lines'[j].end # <<LF>>
  <2>1. CASE i = c + 1
    <3>1. lines'[i] = read /\ \A j \in i + 1 .. c + 1 : FALSE
      BY <1>3, <1>13, <2>1 DEF c
    <3>2. Range(read.line) \cap {CR, LF} = {}
      BY <1>4, <1>8, <1>12
    <3>3. read.end = <<>> /\ Len(read.line) < read.room => EndOfFile(next)
      <4>1. read.end = <<>> /\ Len(read.line) < read.room => EndOfFile(pos + n) /\ next = pos + n
        <5>1. n < room => n # room
          BY <1>3, <1>5
        <5>. QED
          BY <1>5, <1>6, <1>8, <1>12, <5>1 DEF next
      <4>. QED
        BY <4>1
    <3>. QED
      BY <1>6, <1>12, <3>1, <3>2, <3>3
  <2>2. CASE i # c + 1
    <3>0. i \in 1 .. c /\ lines'[i] = lines[i]
      BY <1>3, <1>13, <2>2 DEF c
    <3>1. /\ Range(lines[i].line) \cap {CR, LF} = {}
          /\ lines[i].end \in {<<>>, <<CR>>, <<LF>>, <<CR, LF>>}
          /\ lines[i].end = <<>> /\ Len(lines[i].line) < lines[i].room => EndOfFile(pos)
          /\ lines[i].null => EndOfFile(pos)
          /\ \A j \in i + 1 .. c :
               /\ lines[i].null => lines[j].null
               /\ j = i + 1 /\ lines[i].end = <<CR>> => lines[j].line # <<>> \/ lines[j].end # <<LF>>
      BY <1>2, <1>13, <3>0 DEF LinesTileFile, c
    <3>2. EndOfFile(pos) => EndOfFile(next) /\ n = 0 /\ next = pos
      <4>1. ASSUME EndOfFile(pos) PROVE n = 0
        <5>1. n # 0 => 0 \in 0 .. n - 1 /\ pos + 0 = pos
          BY <1>3, <1>5
        <5>. QED
          BY <1>4, <4>1, <5>1
      <4>2. EndOfFile(pos) => end = <<>> /\ pos + 0 = pos
        BY <1>3, <1>6, <4>1
      <4>3. EndOfFile(pos) => next = pos
        BY <1>3, <1>6, <4>1, <4>2 DEF next
      <4>. QED
        BY <4>1, <4>3
    <3>3. \A j \in i + 1 .. c + 1 : (j \in i + 1 .. c /\ lines'[j] = lines[j]) \/ j = c + 1
      <4>1. \A j \in i + 1 .. c + 1 : j \in 1 .. c \/ j = c + 1
        BY <1>3, <3>0 DEF c
      <4>2. \A j \in i + 1 .. c + 1 : j \in i + 1 .. c \/ j = c + 1
        BY <1>3, <3>0 DEF c
      <4>. QED
        BY <1>13, <4>1, <4>2
    <3>4. lines[i].null => lines'[c + 1].null
      BY <1>12, <1>13, <3>1, <3>2
    <3>5. c + 1 = i + 1 /\ lines[i].end = <<CR>> =>
            lines'[c + 1].line # <<>> \/ lines'[c + 1].end # <<LF>>
      <4>. SUFFICES ASSUME c + 1 = i + 1, lines[i].end = <<CR>>, read.line = <<>>, read.end = <<LF>>
                    PROVE  FALSE
        BY <1>13
      <4>1. i = c /\ c # 0
        BY <1>3, <3>0 DEF c
      <4>2. EndOfFile(pos) \/ ByteAt(pos) # LF
        BY <1>2, <4>1 DEF TookLF, c
      <4>3. n = 0 /\ pos + n = pos /\ end = <<LF>>
        <5>1. n = 0 /\ end = <<LF>>
          BY <1>8, <1>12
        <5>. QED
          BY <1>3, <5>1
      <4>4. ByteAt(pos) = LF /\ ~EndOfFile(pos)
        BY <1>6, <4>3
      <4>. QED
        BY <4>2, <4>4
    <3>. QED
      BY <3>0, <3>1, <3>2, <3>3, <3>4, <3>5
  <2>. QED
    BY <2>1, <2>2
<1>21. LinesTileFile'
  <2>1. pos' = next /\ Len(lines') = c + 1 /\ DOMAIN lines' = 1 .. c + 1
    BY <1>1, <1>13
  <2>. QED
    BY <1>16, <1>19, <1>20, <2>1 DEF LinesTileFile
<1>22. TokensTileFile'
  BY <1>1, <1>2 DEF TokensTileFile, Bytes, EndOfFile, TextSize
<1>. QED
  BY <1>14, <1>15, <1>18, <1>21, <1>22 DEF TextInv, TextInOrder

-----------------------------------------------------------------------------
(* A byte of the file is one of the five.                                  *)
LEMMA ByteIs ==
  ASSUME TextTyped, NEW p \in Nat, ~EndOfFile(p)
  PROVE  ByteAt(p) \in Character
<1>1. text \in Seq(Character) /\ Len(text) \in Nat
  BY DEF TextTyped
<1>2. p + 1 \in 1 .. Len(text)
  BY <1>1 DEF EndOfFile, TextSize
<1>. QED
  BY <1>1, <1>2, SeqIs DEF ByteAt

(* A run ends in the file.                                                 *)
LEMMA RunEnds ==
  ASSUME TextTyped, NEW p \in Nat, p <= TextSize, NEW ends
  PROVE  p + RunFrom(p, ends) <= TextSize /\ RunFrom(p, ends) \in Nat
<1>0. TextSize \in Nat
  BY DEF TextSize, TextTyped
<1>1. PICK n : n = RunFrom(p, ends)
  OBVIOUS
<1>2. n \in 0 .. TextSize /\ \A m \in 0 .. n - 1 : ~EndOfFile(p + m)
  BY <1>1, RunIs
<1>3. n # 0 => n - 1 \in 0 .. n - 1
  BY <1>0, <1>2
<1>4. n # 0 => ~EndOfFile(p + (n - 1))
  BY <1>2, <1>3
<1>5. p + n <= TextSize /\ n \in Nat
  BY <1>0, <1>2, <1>4 DEF EndOfFile
<1>. QED
  BY <1>1, <1>5

(* What ParseFile returns.                                                 *)
LEMMA TokenIs ==
  ASSUME TextTyped, NEW p \in Nat, ~EndOfFile(p), ByteAt(p) \notin White,
         NEW k, k = TokenLength(p), NEW token, token = Bytes(p, p + k)
  PROVE  /\ k \in Nat \ {0} /\ p + k <= TextSize
         /\ token \in Seq(Character) /\ Len(token) = k
         /\ \/ token = <<Brace>>
            \/ Range(token) = {"c"}
            \/ /\ Head(token) = Quote /\ Len(token) > 1 /\ Last(token) = Quote
               /\ Quote \notin Range(SubSeq(token, 2, Len(token) - 1))
            \/ Head(token) = Quote /\ EndOfFile(p + k)
<1>0. TextSize \in Nat /\ p + 1 <= TextSize
  BY DEF TextSize, TextTyped, EndOfFile
<1>1. ASSUME k \in Nat \ {0}, p + k <= TextSize
      PROVE  /\ token \in Seq(Character) /\ Len(token) = k
             /\ \A i \in 1 .. k : token[i] = ByteAt(p + i - 1)
             /\ Range(token) = {ByteAt(p + m) : m \in 0 .. k - 1}
             /\ Head(token) = ByteAt(p) /\ Last(token) = ByteAt(p + k - 1)
  <2>1. p + k \in Nat /\ p <= p + k /\ (p + k) - p = k
    BY <1>1
  <2>2. /\ token \in Seq(Character) /\ Len(token) = (p + k) - p
        /\ \A i \in 1 .. (p + k) - p : token[i] = ByteAt(p + i - 1)
        /\ Range(token) = {ByteAt(p + m) : m \in 0 .. (p + k) - p - 1}
    BY <1>1, <2>1, BytesAre, ZenonT(60)
  <2>3. /\ token \in Seq(Character) /\ Len(token) = k
        /\ \A i \in 1 .. k : token[i] = ByteAt(p + i - 1)
        /\ Range(token) = {ByteAt(p + m) : m \in 0 .. k - 1}
    BY <2>1, <2>2
  <2>4. 1 \in 1 .. k /\ k \in 1 .. k /\ p + 1 - 1 = p
    BY <1>1
  <2>5. token[1] = ByteAt(p) /\ token[k] = ByteAt(p + k - 1)
    BY <2>3, <2>4
  <2>6. Head(token) = token[1] /\ Last(token) = token[k]
    BY <1>1, <2>3 DEF Last
  <2>. QED
    BY <2>3, <2>5, <2>6
<1>2. CASE ByteAt(p) = Quote
  <2>. DEFINE n == RunFrom(p + 1, {Quote})
  <2>1. /\ n \in Nat /\ p + 1 + n <= TextSize
        /\ EndOfFile(p + 1 + n) \/ ByteAt(p + 1 + n) = Quote
        /\ \A m \in 0 .. n - 1 : ByteAt(p + 1 + m) # Quote
    <3>1. PICK r \in Nat : r = p + 1
      OBVIOUS
    <3>2. RunFrom(r, {Quote}) \in Nat /\ r + RunFrom(r, {Quote}) <= TextSize
      BY <1>0, <3>1, RunEnds
    <3>3. /\ EndOfFile(r + RunFrom(r, {Quote})) \/ ByteAt(r + RunFrom(r, {Quote})) \in {Quote}
          /\ \A m \in 0 .. RunFrom(r, {Quote}) - 1 : ByteAt(r + m) \notin {Quote}
      BY RunIs
    <3>. QED
      BY <3>1, <3>2, <3>3
  <2>2. k = IF EndOfFile(p + 1 + n) THEN n + 1 ELSE n + 2
    <3>1. ByteAt(p) # Brace
      BY <1>2 DEF Quote, Brace
    <3>. QED
      BY <1>2, <3>1 DEF TokenLength
  <2>. HIDE DEF n
  <2>3. CASE EndOfFile(p + 1 + n)
    <3>1. k \in Nat \ {0} /\ p + k <= TextSize /\ p + k = p + 1 + n
      BY <1>0, <2>1, <2>2, <2>3
    <3>. QED
      BY <1>1, <1>2, <2>3, <3>1
  <2>4. CASE ~EndOfFile(p + 1 + n)
    <3>1. k \in Nat \ {0} /\ p + k <= TextSize /\ k = n + 2 /\ k > 1 /\ p + k - 1 = p + 1 + n
      BY <1>0, <2>1, <2>2, <2>4 DEF EndOfFile
    <3>2. /\ token \in Seq(Character) /\ Len(token) = k
          /\ \A i \in 1 .. k : token[i] = ByteAt(p + i - 1)
          /\ Head(token) = Quote /\ Last(token) = Quote
      BY <1>1, <1>2, <2>1, <2>4, <3>1
    <3>3. PICK inner : inner = SubSeq(token, 2, k - 1)
      OBVIOUS
    <3>4. inner \in Seq(Character) /\ Len(inner) = n /\ \A i \in 1 .. n : inner[i] = token[1 + i]
      <4>1. k - 1 \in Nat /\ k - 1 <= Len(token) /\ 1 <= k - 1 /\ (k - 1) - 1 = n /\ 1 + 1 = 2
        BY <2>1, <3>1, <3>2
      <4>2. /\ SubSeq(token, 1 + 1, k - 1) \in Seq(Character)
            /\ Len(SubSeq(token, 1 + 1, k - 1)) = IF 1 <= k - 1 THEN (k - 1) - 1 ELSE 0
            /\ \A i \in 1 .. (k - 1) - 1 : SubSeq(token, 1 + 1, k - 1)[i] = token[1 + i]
        BY <3>2, <4>1, PartIs, 1 \in Nat
      <4>. QED
        BY <3>3, <4>1, <4>2
    <3>5. ASSUME NEW i \in 1 .. n PROVE inner[i] # Quote
      <4>1. 1 + i \in 1 .. k /\ p + (1 + i) - 1 = p + 1 + (i - 1) /\ i - 1 \in 0 .. n - 1
        BY <2>1, <3>1
      <4>2. inner[i] = ByteAt(p + (1 + i) - 1)
        BY <3>2, <3>4, <4>1
      <4>. QED
        BY <2>1, <4>1, <4>2
    <3>6. Quote \notin Range(inner)
      <4>1. DOMAIN inner = 1 .. n
        BY <3>4, SeqIs
      <4>. QED
        BY <3>5, <4>1 DEF Range
    <3>. QED
      BY <3>1, <3>2, <3>3, <3>6
  <2>. QED
    BY <2>3, <2>4
<1>3. CASE ByteAt(p) = Brace
  <2>1. k = 1
    BY <1>3 DEF TokenLength, Brace, Quote
  <2>2. k \in Nat \ {0} /\ p + k <= TextSize
    BY <1>0, <2>1
  <2>3. token \in Seq(Character) /\ Len(token) = 1 /\ token[1] = Brace
    <3>1. 1 \in 1 .. k /\ p + 1 - 1 = p
      BY <2>1
    <3>. QED
      BY <1>1, <1>3, <2>1, <2>2, <3>1
  <2>4. token = <<Brace>>
    <3>1. <<Brace>> \in Seq(Character) /\ Len(<<Brace>>) = 1 /\ <<Brace>>[1] = Brace
      BY DEF Character
    <3>2. \A i \in 1 .. 1 : i = 1
      OBVIOUS
    <3>. QED
      BY <2>3, <3>1, <3>2, SeqEqual
  <2>. QED
    BY <1>1, <2>2, <2>4
<1>4. CASE ByteAt(p) # Quote /\ ByteAt(p) # Brace
  <2>. DEFINE n == RunFrom(p, White \union {Quote, Brace})
  <2>1. k = n
    BY <1>4 DEF TokenLength
  <2>2. /\ n \in Nat /\ p + n <= TextSize
        /\ EndOfFile(p + n) \/ ByteAt(p + n) \in White \union {Quote, Brace}
        /\ \A m \in 0 .. n - 1 :
             ~EndOfFile(p + m) /\ ByteAt(p + m) \notin White \union {Quote, Brace}
    BY <1>0, RunIs, RunEnds
  <2>. HIDE DEF n
  <2>3. n # 0
    <3>. SUFFICES ASSUME n = 0 PROVE FALSE
      OBVIOUS
    <3>1. p + n = p
      OBVIOUS
    <3>. QED
      BY <1>4, <2>2, <3>1
  <2>4. k \in Nat \ {0} /\ p + k <= TextSize
    BY <2>1, <2>2, <2>3
  <2>5. ASSUME NEW m \in 0 .. n - 1 PROVE ByteAt(p + m) = "c"
    <3>1. ByteAt(p + m) \in Character
      BY <2>2, ByteIs
    <3>. QED
      BY <2>2, <3>1 DEF Character, White
  <2>6. Range(token) = {"c"}
    <3>1. 0 \in 0 .. n - 1
      BY <2>2, <2>3
    <3>. QED
      BY <1>1, <2>1, <2>4, <2>5, <3>1
  <2>. QED
    BY <1>1, <2>4, <2>6
<1>. QED
  BY <1>2, <1>3, <1>4

(* Tokens tile the buffer with one more token.                             *)
LEMMA ParsesToken ==
  ASSUME TextInv, ParseFile
  PROVE  TextInv'
<1>. DEFINE w == RunFrom(parsed, Character \ White)
            p == parsed + w
            k == TokenLength(p)
            token == Bytes(p, p + k)
            read == [white |-> Bytes(parsed, p), token |-> token]
            c == Len(tokens)
<1>1. /\ ~EndOfFile(p) /\ parsed' = p + k /\ tokens' = Append(tokens, read)
      /\ UNCHANGED <<text, pos, mark, lines>>
  BY DEF ParseFile
<1>. HIDE DEF k, w
<1>2. TextTyped /\ InText /\ TookLF /\ LinesTileFile /\ TokensTileFile
  BY DEF TextInv, TextInOrder
<1>3. parsed \in Nat /\ parsed <= TextSize /\ TextSize \in Nat /\ c \in Nat
  BY <1>2 DEF TextTyped, InText, TextSize
<1>4. /\ w \in Nat /\ p \in Nat /\ parsed <= p /\ p <= TextSize
      /\ ByteAt(p) \in Character \ White
      /\ \A m \in 0 .. w - 1 :
           ~EndOfFile(parsed + m) /\ ByteAt(parsed + m) \notin Character \ White
  <2>1. w \in Nat /\ parsed + w <= TextSize
    BY <1>2, <1>3, RunEnds DEF w
  <2>2. /\ EndOfFile(parsed + w) \/ ByteAt(parsed + w) \in Character \ White
        /\ \A m \in 0 .. w - 1 :
             ~EndOfFile(parsed + m) /\ ByteAt(parsed + m) \notin Character \ White
    BY <1>2, <1>3, RunIs DEF w
  <2>. QED
    BY <1>1, <1>3, <2>1, <2>2
<1>5. /\ Bytes(parsed, p) \in Seq(Character)
      /\ Range(Bytes(parsed, p)) \subseteq White
  <2>1. p - parsed = w
    BY <1>3, <1>4
  <2>2. /\ Bytes(parsed, p) \in Seq(Character)
        /\ Range(Bytes(parsed, p)) = {ByteAt(parsed + m) : m \in 0 .. p - parsed - 1}
    BY <1>2, <1>3, <1>4, BytesAre, ZenonT(60)
  <2>3. ASSUME NEW m \in 0 .. w - 1 PROVE ByteAt(parsed + m) \in White
    <3>1. parsed + m \in Nat
      BY <1>3, <1>4
    <3>. QED
      BY <1>2, <1>4, <3>1, ByteIs
  <2>. QED
    BY <2>1, <2>2, <2>3
<1>. HIDE DEF p
<1>6. /\ k \in Nat \ {0} /\ p + k <= TextSize
      /\ token \in Seq(Character) /\ Len(token) = k
      /\ \/ token = <<Brace>>
         \/ Range(token) = {"c"}
         \/ /\ Head(token) = Quote /\ Len(token) > 1 /\ Last(token) = Quote
            /\ Quote \notin Range(SubSeq(token, 2, Len(token) - 1))
         \/ Head(token) = Quote /\ EndOfFile(p + k)
  BY <1>1, <1>2, <1>4, TokenIs DEF k
<1>7. Bytes(parsed, p) \o token = Bytes(parsed, p + k)
      /\ Bytes(0, parsed) \o Bytes(parsed, p + k) = Bytes(0, p + k)
      /\ Bytes(parsed, p + k) \in Seq(Character)
  <2>1. text \in Seq(Character) /\ p + k <= Len(text)
    BY <1>2, <1>6 DEF TextTyped, TextSize
  <2>2. p + k \in Nat /\ p <= p + k /\ parsed <= p + k /\ 0 <= parsed
    BY <1>3, <1>4, <1>6
  <2>3. SubSeq(text, parsed + 1, p) \o SubSeq(text, p + 1, p + k) = SubSeq(text, parsed + 1, p + k)
    BY <1>3, <1>4, <2>1, <2>2, PartsJoin, SMTT(30)
  <2>4. SubSeq(text, 0 + 1, parsed) \o SubSeq(text, parsed + 1, p + k) = SubSeq(text, 0 + 1, p + k)
    BY <1>3, <2>1, <2>2, PartsJoin, 0 \in Nat
  <2>5. Bytes(parsed, p + k) \in Seq(Character)
    BY <1>2, <1>3, <1>6, <2>2, BytesAre
  <2>. QED
    BY <2>3, <2>4, <2>5 DEF Bytes
<1>8. token # <<>>
  <2>1. Len(token) # 0
    BY <1>6
  <2>. QED
    BY <2>1, EmptySeq
<1>. HIDE DEF token
<1>9. read \in TokenRead /\ read.white = Bytes(parsed, p) /\ read.token = token
  BY <1>5, <1>6 DEF TokenRead
<1>. HIDE DEF read
<1>10. /\ Len(tokens') = c + 1 /\ DOMAIN tokens' = 1 .. c + 1 /\ DOMAIN tokens = 1 .. c
       /\ tokens'[c + 1] = read
       /\ \A i \in 1 .. c : tokens'[i] = tokens[i] /\ tokens[i] \in TokenRead
       /\ tokens' \in Seq(TokenRead)
  BY <1>1, <1>2, <1>9 DEF TextTyped
<1>. HIDE DEF c
<1>11. TextTyped'
  BY <1>1, <1>2, <1>4, <1>6, <1>10 DEF TextTyped
<1>12. InText' /\ TookLF' /\ LinesTileFile'
  BY <1>1, <1>2, <1>6 DEF InText, TookLF, LinesTileFile, TextSize, EndOfFile, ByteAt, Bytes
<1>13. FlattenSeq([i \in DOMAIN tokens |-> tokens[i].white \o tokens[i].token])'
         = Bytes(0, parsed)'
  <2>1. PICK q : q = [i \in DOMAIN tokens |-> tokens[i].white \o tokens[i].token]
    OBVIOUS
  <2>2. FlattenSeq(q) = Bytes(0, parsed)
    BY <1>2, <2>1 DEF TokensTileFile
  <2>3. q \in Seq(Seq(Character)) /\ Len(q) = c
    <3>1. \A i \in 1 .. c : tokens[i].white \o tokens[i].token \in Seq(Character)
      BY <1>10, ConcatProperties DEF TokenRead
    <3>2. q \in [1 .. c -> Seq(Character)]
      BY <1>10, <2>1, <3>1
    <3>. QED
      BY <1>3, <3>2
  <2>4. PICK q2 : q2 = [i \in DOMAIN tokens' |-> tokens'[i].white \o tokens'[i].token]
    OBVIOUS
  <2>5. PICK x : x = Bytes(parsed, p + k)
    OBVIOUS
  <2>6. x \in Seq(Character)
    BY <1>7, <2>5
  <2>7. q2 = Append(q, x)
    <3>1. \A i \in 1 .. c : q2[i] = q[i]
      <4>1. \A i \in 1 .. c : i \in 1 .. c + 1
        BY <1>3
      <4>. QED
        BY <1>10, <2>1, <2>4, <4>1
    <3>2. q2[c + 1] = x
      <4>1. c + 1 \in 1 .. c + 1
        BY <1>3
      <4>. QED
        BY <1>7, <1>9, <1>10, <2>4, <2>5, <4>1
    <3>3. q2 \in [1 .. c + 1 -> Seq(Character)]
      <4>1. \A i \in 1 .. c + 1 : tokens'[i] \in TokenRead
        BY <1>10, SeqIs
      <4>2. \A i \in 1 .. c + 1 : tokens'[i].white \o tokens'[i].token \in Seq(Character)
        BY <4>1, ConcatProperties DEF TokenRead
      <4>. QED
        BY <1>10, <2>4, <4>2
    <3>4. c \in Nat /\ c = Len(q)
      BY <1>3, <2>3
    <3>. QED
      BY <2>3, <2>6, <3>1, <3>2, <3>3, <3>4, AppendedIs
  <2>8. FlattenSeq(q2) = Bytes(0, p + k)
    BY <1>7, <2>2, <2>3, <2>5, <2>6, <2>7, FlattenAppend
  <2>. QED
    BY <1>1, <2>4, <2>8 DEF Bytes
<1>14. ASSUME NEW i \in 1 .. c + 1
       PROVE  LET t == tokens'[i].token
                  inner == Range(SubSeq(t, 2, Len(t) - 1)) IN
              /\ Range(tokens'[i].white) \subseteq White
              /\ t # <<>>
              /\ \/ t = <<Brace>>
                 \/ Range(t) = {"c"}
                 \/ Head(t) = Quote /\ Len(t) > 1 /\ Last(t) = Quote /\ Quote \notin inner
                 \/ Head(t) = Quote /\ i = c + 1 /\ EndOfFile(p + k)
  <2>1. CASE i = c + 1
    BY <1>5, <1>6, <1>8, <1>9, <1>10, <2>1
  <2>2. CASE i # c + 1
    <3>1. i \in 1 .. c /\ tokens'[i] = tokens[i]
      BY <1>3, <1>10, <2>2
    <3>2. ~EndOfFile(parsed)
      BY <1>1, <1>3, <1>4 DEF EndOfFile
    <3>. QED
      BY <1>2, <1>10, <3>1, <3>2 DEF TokensTileFile
  <2>. QED
    BY <2>1, <2>2
<1>15. TokensTileFile'
  <2>1. parsed' = p + k /\ Len(tokens') = c + 1 /\ DOMAIN tokens' = 1 .. c + 1
    BY <1>1, <1>10
  <2>2. \A x : EndOfFile(x)' <=> EndOfFile(x)
    BY <1>1 DEF EndOfFile, TextSize
  <2>. QED
    BY <1>13, <1>14, <2>1, <2>2 DEF TokensTileFile
<1>. QED
  BY <1>11, <1>12, <1>15 DEF TextInv, TextInOrder

-----------------------------------------------------------------------------
(* The client is elsewhere in the file, or the file is another.            *)
LEMMA Marks ==
  ASSUME TextInv, NEW p \in Nat, MarkAt(p), text' \in Seq(Character),
         \/ UNCHANGED <<text, parsed, tokens>>
         \/ parsed' = 0 /\ tokens' = <<>>
  PROVE  TextInv'
<1>1. pos' = p /\ mark' = p /\ lines' = <<>>
  BY DEF MarkAt
<1>2. TextTyped /\ InText /\ TokensTileFile
  BY DEF TextInv, TextInOrder
<1>3. TextTyped'
  <2>1. pos' \in Nat /\ mark' \in Nat /\ lines' \in Seq(LineRead)
    BY <1>1
  <2>2. parsed' \in Nat /\ tokens' \in Seq(TokenRead)
    <3>1. CASE UNCHANGED <<text, parsed, tokens>>
      BY <1>2, <3>1 DEF TextTyped
    <3>2. CASE parsed' = 0 /\ tokens' = <<>>
      BY <3>2
    <3>. QED
      BY <3>1, <3>2
  <2>. QED
    BY <2>1, <2>2 DEF TextTyped
<1>4. TextSize' \in Nat
  BY DEF TextSize
<1>5. InText'
  <2>1. parsed' <= TextSize'
    BY <1>2, <1>4 DEF InText, TextSize
  <2>. QED
    BY <1>1, <2>1 DEF InText
<1>6. LinesTileFile' /\ TookLF'
  <2>1. mark' = pos' /\ lines' = <<>>
    BY <1>1
  <2>. QED
    BY <1>3, <2>1, NoneThen
<1>7. TokensTileFile'
  <2>1. CASE UNCHANGED <<text, parsed, tokens>>
    <3>1. TokensTileFile' <=> TokensTileFile
      BY <2>1 DEF TokensTileFile, Bytes, EndOfFile, TextSize
    <3>. QED
      BY <1>2, <3>1
  <2>2. CASE parsed' = 0 /\ tokens' = <<>>
    BY <1>3, <2>2, NoneThen
  <2>. QED
    BY <2>1, <2>2
<1>. QED
  BY <1>3, <1>5, <1>6, <1>7 DEF TextInv, TextInOrder

(* A file that was opened.                                                 *)
LEMMA TextStarts == TextInit => TextInv
<1>. SUFFICES ASSUME TextInit PROVE TextInv
  OBVIOUS
<1>1. text \in Seq(Character)
  BY TextAssumption DEF TextInit, SeqOf
<1>2. TextTyped
  <2>1. <<>> \in Seq(LineRead) /\ <<>> \in Seq(TokenRead)
    OBVIOUS
  <2>. QED
    BY <1>1, <2>1 DEF TextInit, TextTyped
<1>3. InText
  BY <1>1 DEF TextInit, InText, TextSize
<1>4. LinesTileFile /\ TookLF
  BY <1>2, NoLines DEF TextInit
<1>5. TokensTileFile
  BY <1>2, NoTokens DEF TextInit
<1>. QED
  BY <1>2, <1>3, <1>4, <1>5 DEF TextInv, TextInOrder

(* Bytes are written over those that are there, or behind them.            *)
LEMMA Writes ==
  ASSUME TextInv, NEW size \in Nat, WriteText(size)
  PROVE  TextInv'
<1>1. /\ text \in Seq(Character) /\ pos \in Nat /\ Len(text) \in Nat
  BY DEF TextInv, TextTyped
<1>2. PICK n : n = Max({pos + size, TextSize})
  OBVIOUS
<1>3. n \in Nat
  <2>1. Max({pos + size, TextSize}) \in {pos + size, TextSize}
    <3>1. \E x \in {pos + size, TextSize} : \A y \in {pos + size, TextSize} : x >= y
      BY <1>1 DEF TextSize
    <3>. QED
      BY <3>1 DEF Max
  <2>. QED
    BY <1>1, <1>2, <2>1 DEF TextSize
<1>4. text' \in Seq(Character)
  <2>1. text' = [i \in 1 .. n |->
          IF i \in 1 .. TextSize /\ i \notin pos + 1 .. pos + size THEN text[i] ELSE "c"]
    BY <1>2 DEF WriteText
  <2>2. \A i \in 1 .. TextSize : text[i] \in Character
    BY <1>1, SeqIs DEF TextSize
  <2>3. "c" \in Character
    BY DEF Character
  <2>4. text' \in [1 .. n -> Character]
    BY <2>1, <2>2, <2>3
  <2>. QED
    BY <1>3, <2>4
<1>5. pos + size \in Nat /\ MarkAt(pos + size) /\ parsed' = 0 /\ tokens' = <<>>
  BY <1>1 DEF WriteText
<1>. QED
  BY <1>4, <1>5, Marks

(* Every call of the client.                                               *)
LEMMA TextSteps == TextInv /\ [TextNext]_textVars => TextInv'
<1>. SUFFICES ASSUME TextInv, [TextNext]_textVars PROVE TextInv'
  OBVIOUS
<1>0. /\ text \in Seq(Character) /\ pos \in Nat /\ Len(text) \in Nat /\ MaxText \in Nat
      /\ PrintSize \in Nat \ {0, 1}
  BY TextAssumption DEF TextInv, TextTyped
<1>1. ASSUME NEW p \in 0 .. MaxText, SeekText(p) PROVE TextInv'
  <2>1. p \in Nat /\ MarkAt(p) /\ UNCHANGED <<text, parsed, tokens>>
    BY <1>0, <1>1 DEF SeekText
  <2>. QED
    BY <1>0, <2>1, Marks
<1>2. ASSUME NEW size \in 1 .. 2, ReadText(size) PROVE TextInv'
  <2>1. PICK p : p = IF EndOfFile(pos) THEN pos ELSE Min({pos + size, TextSize})
    OBVIOUS
  <2>2. {pos + size, TextSize} \in SUBSET Nat /\ {pos + size, TextSize} # {}
    BY <1>0 DEF TextSize
  <2>3. Min({pos + size, TextSize}) \in {pos + size, TextSize}
    BY <2>2, LeastIs
  <2>4. p \in Nat
    BY <1>0, <2>1, <2>2, <2>3
  <2>5. MarkAt(p) /\ UNCHANGED <<text, parsed, tokens>>
    BY <1>2, <2>1 DEF ReadText
  <2>. QED
    BY <1>0, <2>4, <2>5, Marks
<1>3. ASSUME NEW size \in 1 .. 2, WriteText(size) PROVE TextInv'
  BY <1>3, Writes, size \in Nat
<1>4. ASSUME NEW length \in 1 .. PrintSize, FPrintf(length) PROVE TextInv'
  <2>1. {length, PrintSize - 1} \in SUBSET Nat /\ {length, PrintSize - 1} # {}
    BY <1>0
  <2>2. Min({length, PrintSize - 1}) \in Nat
    BY <2>1, LeastIs
  <2>. QED
    BY <1>4, <2>2, Writes DEF FPrintf
<1>5. CASE BufferText
  <2>1. /\ pos' = pos /\ parsed' = 0 /\ tokens' = <<>>
        /\ UNCHANGED <<text, mark, lines>>
    BY <1>5 DEF BufferText
  <2>2. TextTyped'
    <3>1. parsed' \in Nat /\ tokens' \in Seq(TokenRead)
      BY <2>1
    <3>. QED
      BY <2>1, <3>1 DEF TextInv, TextTyped
  <2>3. InText' /\ TookLF' /\ LinesTileFile'
    <3>1. InText'
      BY <1>0, <2>1 DEF TextInv, InText, TextSize
    <3>2. TookLF'
      BY <2>1 DEF TextInv, TookLF, TextSize, EndOfFile, ByteAt
    <3>3. LinesTileFile'
      BY <2>1 DEF TextInv, TextInOrder, LinesTileFile, TextSize, EndOfFile, Bytes
    <3>. QED
      BY <3>1, <3>2, <3>3
  <2>4. TokensTileFile'
    BY <2>1, <2>2, NoneThen
  <2>. QED
    BY <2>2, <2>3, <2>4 DEF TextInv, TextInOrder
<1>6. ASSUME NEW maxChars \in LineSize, ReadLine(maxChars) PROVE TextInv'
  BY <1>6, ReadsLine
<1>7. CASE ParseFile
  BY <1>7, ParsesToken
<1>8. CASE UNCHANGED textVars
  BY <1>8 DEF textVars, TextInv, TextTyped, TextInOrder, InText, TookLF, LinesTileFile,
              TokensTileFile, TextSize, EndOfFile, ByteAt, Bytes
<1>. QED
  BY <1>1, <1>2, <1>3, <1>4, <1>5, <1>6, <1>7, <1>8 DEF TextNext

(* The lines read one after another are the file between where reading     *)
(* began and the position, and the tokens parsed are the buffer up to      *)
(* where ParseFile is: ReadLine and ParseFile lose no byte and read none   *)
(* twice (CFileSystem, filesystem.cpp).                                    *)
THEOREM TextAlwaysInOrder == TextSpec => []TextInOrder
<1>1. TextInit => TextInv
  BY TextStarts
<1>2. TextInv /\ [TextNext]_textVars => TextInv'
  BY TextSteps
<1>3. TextInv => TextInOrder
  BY DEF TextInv
<1>. QED
  BY <1>1, <1>2, <1>3, PTL DEF TextSpec

=============================================================================
