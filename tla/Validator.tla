------------------------------ MODULE Validator ------------------------------
(***************************************************************************)
(* The memory validator CValidator (src/tier0/validator.cpp): a list of    *)
(* records of the objects that were pushed, each with the one it was       *)
(* pushed inside as its parent.  There are several validators; their       *)
(* records come from one heap, which gives the lowest free one.  A pointer *)
(* to a freed record is Gone: it is not followed, and compared only with   *)
(* records that were there before that one was freed.  The counts printed  *)
(* at the end and the locks given back then are left out.                  *)
(*                                                                         *)
(* The client does not push to, pop from or claim for a validator it has   *)
(* run DiffAgainst on, until it assigns another to it: DiffAgainst does    *)
(* not look at the last and the current record.                            *)
(***************************************************************************)
EXTENDS Integers, Links, SequencesExt

CONSTANTS
  ValidatorName, \* the validators
  MaxRecords,    \* bound: records in the heap
  Object         \* objects that are pushed

ASSUME ValidatorAssumption == MaxRecords \in Nat

Record == 1 .. MaxRecords

VARIABLES
  record,  \* CValObject: the object, the parent, the next; 0 for NULL
  alive,   \* the records that are allocated
  list,    \* m_pValObjectFirst, m_pValObjectLast, m_pValObjectCur
  diffed   \* validators DiffAgainst was run on since they were assigned to

validatorVars == <<record, alive, list, diffed>>

Empty == [first |-> 0, last |-> 0, cur |-> 0]

(* What is left of the address of a freed record.                          *)
Gone == -1

Freed == [obj |-> 0, parent |-> 0, next |-> 0]

ValidatorInit ==
  /\ record = [r \in Record |-> Freed]
  /\ alive = {}
  /\ list = [v \in ValidatorName |-> Empty]
  /\ diffed = {}

(* The records of a validator, in order.                                   *)
Chain(v) == ChainFrom(record, MaxRecords, list[v].first)

(* Where r comes in the list of v, 0 when it is not there.                 *)
PlaceIn(v, r) ==
  LET chain == Chain(v) IN
  IF r \in Range(chain) THEN CHOOSE i \in DOMAIN chain : chain[i] = r ELSE 0

-----------------------------------------------------------------------------
(* Push and Pop.  The new record follows the current one, whose own next   *)
(* it takes: what came after it is in no list any more, stays allocated    *)
(* and is never looked at again; its contents are forgotten here.          *)

After(v, r) ==
  IF r = 0 THEN {} ELSE {q \in Range(Chain(v)) : PlaceIn(v, q) > PlaceIn(v, r)}

Push(v, obj) ==
  /\ v \notin diffed
  /\ alive # Record
  /\ LET r == Min(Record \ alive)
           l == list[v]
           lost == After(v, l.cur)
           before == IF l.cur # 0 THEN l.cur
                     ELSE IF l.last # 0 /\ record[l.last].next = 0 THEN l.last ELSE 0
     IN /\ alive' = alive \cup {r}
          /\ record' = [q \in Record |->
               IF q = r THEN [obj |-> obj, parent |-> l.cur, next |-> 0]
               ELSE IF q = before THEN [record[q] EXCEPT !.next = r]
               ELSE IF q \in lost THEN Freed
               ELSE record[q]]
          /\ list' = [list EXCEPT
               ![v] = [first |-> IF l.first = 0 THEN r ELSE l.first, last |-> r, cur |-> r]]
  /\ UNCHANGED diffed

Pop(v) ==
  /\ v \notin diffed
  /\ list' = [list EXCEPT ![v].cur = IF @ = 0 THEN 0 ELSE record[@].parent]
  /\ UNCHANGED <<record, alive, diffed>>

-----------------------------------------------------------------------------
(* DiffAgainst: free the records of objects the other one has as well.     *)

FindObject(v, obj) == \E r \in Range(Chain(v)) : record[r].obj = obj

(* What a pointer is once the records freed are gone.                      *)
Left(r, freed) == IF r \in freed THEN Gone ELSE r

(* The first record of v from the i-th on that is not freed.               *)
FirstLeft(v, i, freed) ==
  LET chain == Chain(v)
      left == {k \in i .. Len(chain) : chain[k] \notin freed}
  IN  IF left = {} THEN 0 ELSE chain[Min(left)]

DiffAgainst(v, other) ==
  LET both == {r \in Range(Chain(v)) : FindObject(other, record[r].obj)}
  IN /\ v # other
     /\ alive' = alive \ both
     /\ record' = [q \in Record |->
          IF q \in both THEN Freed
          ELSE IF q \in Range(Chain(v))
            THEN [record[q] EXCEPT !.next = FirstLeft(v, PlaceIn(v, q) + 1, both),
                                   !.parent = Left(@, both)]
          ELSE record[q]]
     /\ list' = [list EXCEPT ![v] =
          [first |-> FirstLeft(v, 1, both),
           last |-> Left(@.last, both), cur |-> Left(@.cur, both)]]
     /\ diffed' = diffed \cup {v}

-----------------------------------------------------------------------------
(* operator=: free the own records, and copy the other's as far as memory  *)
(* goes.  A parent is looked up by its place in the other's list.          *)

(* Faulty: the parents of the copies are the other's records.              *)
CopiedParents(v, other, copies) ==
  LET src == Chain(other)
      At(i) == IF i = 0 \/ i > Len(copies) THEN 0 ELSE copies[i]
  IN /\ record' = [q \in Record |->
          IF q \in Range(copies)
            THEN LET i == CHOOSE i \in DOMAIN copies : copies[i] = q
                 IN [record[src[i]] EXCEPT !.next = At(i + 1)]
            ELSE IF q \in Range(Chain(v)) THEN Freed ELSE record[q]]
     /\ list' = [list EXCEPT
          ![v] = [list[other] EXCEPT !.first = At(1), !.last = At(Len(copies)),
                                     !.cur = At(PlaceIn(other, @))]]

Copied(v, other, copies) ==
  LET src == Chain(other)
      At(i) == IF i = 0 \/ i > Len(copies) THEN 0 ELSE copies[i]
  IN /\ record' = [q \in Record |->
          IF q \in Range(copies)
            THEN LET i == CHOOSE i \in DOMAIN copies : copies[i] = q
                 IN [obj |-> record[src[i]].obj, next |-> At(i + 1),
                     parent |-> At(PlaceIn(other, record[src[i]].parent))]
            ELSE IF q \in Range(Chain(v)) THEN Freed ELSE record[q]]
     /\ list' = [list EXCEPT
          ![v] = [list[other] EXCEPT !.first = At(1), !.last = At(Len(copies)),
                                     !.cur = At(PlaceIn(other, @))]]

(* The heap gives the lowest of the records in room, in this order.        *)
LowestOf(room, copies) ==
  /\ \A i, j \in DOMAIN copies : i < j => copies[i] < copies[j]
  /\ \A r \in room \ Range(copies) : \A i \in DOMAIN copies : copies[i] < r

Assign(v, other) ==
  /\ v # other
  /\ LET rest == alive \ Range(Chain(v))
     IN \E n \in 0 .. Len(Chain(other)) : \E copies \in [1 .. n -> Record \ rest] :
          /\ LowestOf(Record \ rest, copies)
          /\ alive' = rest \cup Range(copies)
          /\ Copied(v, other, copies)
  /\ diffed' = diffed \ {v}

-----------------------------------------------------------------------------
ValidatorNext == \E v \in ValidatorName :
  \/ \E obj \in Object : Push(v, obj)
  \/ Pop(v)
  \/ \E other \in ValidatorName : DiffAgainst(v, other) \/ Assign(v, other)

ValidatorSpec == ValidatorInit /\ [][ValidatorNext]_validatorVars

-----------------------------------------------------------------------------
(* Every list ends, all its records are allocated, and no record is in two *)
(* lists: the destructors free each once.                                  *)
ListsAreOwn ==
  \A v \in ValidatorName :
    /\ Range(Chain(v)) \subseteq alive
    /\ Chain(v) # <<>> => record[Last(Chain(v))].next = 0
    /\ \A w \in ValidatorName \ {v} : Range(Chain(v)) \cap Range(Chain(w)) = {}

(* "A parent is always an earlier node of the same list"                   *)
(* (validator.cpp:382), the current record is one of them and the last is  *)
(* the list's last, as long as DiffAgainst has not been run on the list.   *)
ParentIsEarlier ==
  \A v \in ValidatorName \ diffed :
    /\ list[v].last = (IF Chain(v) = <<>> THEN 0 ELSE Last(Chain(v)))
    /\ list[v].cur = 0 \/ PlaceIn(v, list[v].cur) > 0
    /\ \A i \in DOMAIN Chain(v) :
         LET p == record[Chain(v)[i]].parent IN p = 0 \/ PlaceIn(v, p) \in 1 .. i - 1

(* "NULL != ..." (validator.cpp:57): nothing follows the record that a new *)
(* one is put after, so that no record is dropped from the list.           *)
NoneIsOverwritten ==
  [][\A v \in ValidatorName : \A obj \in Object :
       Push(v, obj) /\ list[v].cur # 0 => record[list[v].cur].next = 0]_validatorVars

(* Validators own their lists, and a list's own records are its parents.   *)
RecordsInOrder == ListsAreOwn /\ ParentIsEarlier

=============================================================================
