---------------------------- MODULE SlabMap_proofs ----------------------------
(***************************************************************************)
(* What holds of the page map for any number of readers, slabs, nodes and  *)
(* tables.  First: what a lookup without the lock answers, whatever the    *)
(* nodes it reads contain (Answers).  Then: the map is exact under the     *)
(* lock (MapExact), and lookups stay inside it (LookupsInBounds,           *)
(* LookupsSafe).  For those the invariant names the chains of the newest   *)
(* table and the list of retired nodes, which the code has only as links:  *)
(* ch[j] is the sequence of the nodes of the chain of key j, pl that of    *)
(* the retired ones.                                                       *)
(***************************************************************************)
EXTENDS SlabMap, Links_proofs

(* The slab that is being indexed or removed counts as dead.               *)
WorkIsDead == wpc # "idle" => live[slab.c] = NoBucket /\ slab.b \in Bucket

(* A lookup has no answer before it is done.                               *)
Pending == \A r \in Reader : rpc[r] # "done" => ans[r] = NoBucket

AInv ==
  /\ live \in [Base -> Bucket \union {NoBucket}]
  /\ DOMAIN rpc = Reader
  /\ rpc = [r \in Reader |-> rpc[r]]
  /\ DOMAIN addr = Reader
  /\ addr = [r \in Reader |-> addr[r]]
  /\ DOMAIN ans = Reader
  /\ ans = [r \in Reader |-> ans[r]]
  /\ WorkIsDead
  /\ Pending
  /\ AnswerRight

-----------------------------------------------------------------------------
(* A slab that is in the header's way is found by its base.                *)
LEMMA OwnBase ==
  ASSUME NEW c \in Base, NEW b \in Bucket
  PROVE  c \in Span(c, b)
BY SizeAssumption DEF Span

(* Readers' answers stay right while slabs that they do not ask about come *)
(* and go.                                                                 *)
LEMMA AnswersKept ==
  ASSUME AInv, UNCHANGED <<rpc, addr, ans>>,
         \A c \in Base :
           live'[c] = live[c] \/ live[c] = NoBucket \/ Unasked(c, live[c])
  PROVE  AnswerRight'
<1>. SUFFICES ASSUME NEW r \in Reader, rpc[r] = "done"
              PROVE  ans[r] \in Header(addr[r])' \union {NoBucket}
  BY DEF AnswerRight
<1>1. CASE ans[r] = NoBucket
  BY <1>1
<1>2. CASE ans[r] # NoBucket
  <2>1. PICK c \in SlabsAt(addr[r]) : ans[r] = live[c]
    BY <1>2 DEF AInv, AnswerRight, Header
  <2>2. c \in Base /\ live[c] # NoBucket /\ addr[r] \in Span(c, live[c])
    BY <2>1 DEF SlabsAt
  <2>3. live'[c] = live[c]
    BY <2>2 DEF Unasked
  <2>4. c \in SlabsAt(addr[r])'
    BY <2>2, <2>3 DEF SlabsAt, Span
  <2>. QED
    BY <2>1, <2>3, <2>4 DEF Header
<1>. QED
  BY <1>1, <1>2

(* Ending or going on with the work on a slab.                             *)
LEMMA NextPageStep ==
  ASSUME AInv, wpc # "idle", UNCHANGED <<rpc, addr, ans>>,
         NEW first, first # "idle", NEW done \in Bucket \union {NoBucket},
         NextPage(first, done)
  PROVE  AInv'
<1>1. /\ live' \in [Base -> Bucket \union {NoBucket}]
      /\ \A c \in Base : live'[c] = live[c] \/ live[c] = NoBucket
  BY DEF AInv, NextPage, WorkIsDead
<1>2. WorkIsDead'
  BY DEF AInv, NextPage, WorkIsDead
<1>3. AnswerRight'
  BY <1>1, AnswersKept
<1>. QED
  BY <1>1, <1>2, <1>3 DEF AInv, Pending

(* A step of the owner of m_cs that changes no slab.                       *)
LEMMA WriterStep ==
  ASSUME AInv, wpc # "idle", UNCHANGED <<live, slab, rpc, addr, ans>>
  PROVE  AInv'
<1>1. AnswerRight'
  BY AnswersKept
<1>. QED
  BY <1>1 DEF AInv, WorkIsDead, Pending

(* A step of a reader that has no answer yet, or a checked one.            *)
LEMMA ReaderStep ==
  ASSUME AInv, UNCHANGED writer,
         NEW r \in Reader, NEW l, rpc' = [rpc EXCEPT ![r] = l],
         NEW b, ans' = [ans EXCEPT ![r] = b],
         NEW a, addr' = [addr EXCEPT ![r] = a],
         b = NoBucket \/ (l = "done" /\ b \in Header(addr'[r]))
  PROVE  AInv'
<1>1. \A x : Header(x)' = Header(x)
  BY DEF Header, SlabsAt, writer
<1>2. ASSUME NEW s \in Reader, rpc'[s] = "done"
      PROVE  ans'[s] \in Header(addr[s])' \union {NoBucket}
  <2>1. CASE s = r
    BY <1>1, <1>2, <2>1 DEF AInv, Header, SlabsAt, writer
  <2>2. CASE s # r
    <3>1. rpc[s] = "done" /\ ans'[s] = ans[s] /\ addr'[s] = addr[s]
      BY <1>2, <2>2 DEF AInv
    <3>. QED
      BY <3>1 DEF AInv, AnswerRight, Header, SlabsAt, writer
  <2>. QED
    BY <2>1, <2>2
<1>. QED
  BY <1>2 DEF AInv, AnswerRight, WorkIsDead, Pending, writer

-----------------------------------------------------------------------------
LEMMA InitA == Init => AInv
BY DEF Init, AInv, WorkIsDead, Pending, AnswerRight

LEMMA WriteA == AInv /\ Write => AInv'
<1>. SUFFICES ASSUME AInv, Write PROVE AInv'
  OBVIOUS
<1>. USE DEF table, nodes, reader
<1>1. ASSUME NEW c \in Base, NEW b \in Bucket, Carve(c, b) PROVE AInv'
  <2>1. live[c] = NoBucket
    <3>1. SUFFICES ASSUME live[c] # NoBucket PROVE FALSE
      OBVIOUS
    <3>2. live[c] \in Bucket
      BY <3>1 DEF AInv
    <3>3. c \in Span(c, live[c]) \cap Span(c, b)
      BY <3>2, OwnBase
    <3>. QED
      BY <1>1, <3>1, <3>3 DEF Carve
  <2>2. WorkIsDead'
    BY <1>1, <2>1 DEF Carve, WorkIsDead
  <2>3. AnswerRight'
    BY <1>1, AnswersKept DEF Carve
  <2>. QED
    BY <1>1, <2>2, <2>3 DEF AInv, Carve, Pending
<1>2. ASSUME NEW c \in Base, Destroy(c) PROVE AInv'
  <2>1. \A d \in Base :
          live'[d] = live[d] \/ live[d] = NoBucket \/ Unasked(d, live[d])
    BY <1>2 DEF Destroy, AInv
  <2>2. AnswerRight'
    BY <1>2, <2>1, AnswersKept DEF Destroy
  <2>3. WorkIsDead'
    BY <1>2 DEF Destroy, WorkIsDead, AInv
  <2>. QED
    BY <1>2, <2>2, <2>3 DEF AInv, Destroy, Pending
<1>3. ASSUME NoGrow PROVE AInv'
  BY <1>3, WriterStep DEF NoGrow
<1>4. ASSUME Grow PROVE AInv'
  BY <1>4, WriterStep DEF Grow
<1>5. ASSUME StoreFirst PROVE AInv'
  BY <1>5, WriterStep DEF StoreFirst
<1>6. ASSUME StoreSecond PROVE AInv'
  BY <1>6, WriterStep DEF StoreSecond
<1>7. ASSUME SetBase \/ SetEnd \/ SetBucket \/ SetNext PROVE AInv'
  BY <1>7, WriterStep DEF SetBase, SetEnd, SetBucket, SetNext, SetField
<1>8. ASSUME NEW k \in 1 .. MaxNode, Unlink(k) PROVE AInv'
  BY <1>8, WriterStep DEF Unlink
<1>9. ASSUME wpc # "idle", Inserted, UNCHANGED <<rpc, addr, ans>> PROVE AInv'
  BY <1>9, NextPageStep DEF Inserted, AInv, WorkIsDead
<1>10. ASSUME wpc # "idle", Removed, UNCHANGED <<rpc, addr, ans>> PROVE AInv'
  BY <1>10, NextPageStep DEF Removed
<1>11. ASSUME GrowFails PROVE AInv'
  BY <1>9, <1>11 DEF GrowFails
<1>12. ASSUME GetNode PROVE AInv'
  BY <1>9, <1>12, WriterStep DEF GetNode
<1>13. ASSUME Link PROVE AInv'
  BY <1>9, <1>13 DEF Link
<1>14. ASSUME NotIndexed PROVE AInv'
  BY <1>10, <1>14 DEF NotIndexed
<1>15. ASSUME PutNode PROVE AInv'
  BY <1>10, <1>15 DEF PutNode
<1>. QED
  BY <1>1, <1>2, <1>3, <1>4, <1>5, <1>6, <1>7, <1>8, <1>11, <1>12, <1>13,
     <1>14, <1>15 DEF Write

(* A reader that goes on without an answer.                                *)
LEMMA GoesOn ==
  ASSUME AInv, NEW r \in Reader, rpc[r] # "done", NEW l, NEW new,
         Step(r, l, new), UNCHANGED ans
  PROVE  AInv'
<1>1. ans[r] = NoBucket /\ ans' = [ans EXCEPT ![r] = NoBucket]
  BY DEF AInv, Pending
<1>2. addr' = [addr EXCEPT ![r] = addr[r]]
  BY DEF AInv, Step
<1>. QED
  BY <1>1, <1>2, ReaderStep DEF Step

LEMMA ReadA == ASSUME AInv, NEW r \in Reader, Read(r) PROVE AInv'
<1>1. ASSUME LoadMask(r) PROVE AInv'
  BY <1>1, GoesOn DEF LoadMask
<1>2. ASSUME LoadTab(r) PROVE AInv'
  BY <1>2, GoesOn DEF LoadTab
<1>3. ASSUME LoadHead(r) PROVE AInv'
  BY <1>3, GoesOn DEF LoadHead
<1>4. ASSUME TestBase(r) PROVE AInv'
  BY <1>4, GoesOn DEF TestBase
<1>5. ASSUME TestEnd(r) PROVE AInv'
  BY <1>5, GoesOn DEF TestEnd
<1>6. ASSUME Follow(r) PROVE AInv'
  BY <1>6, GoesOn DEF Follow
<1>7. ASSUME CheckHeader(r) PROVE AInv'
  <2>1. /\ addr' = [addr EXCEPT ![r] = addr[r]] /\ addr'[r] = addr[r]
        /\ UNCHANGED writer /\ rpc' = [rpc EXCEPT ![r] = "done"]
    BY <1>7 DEF CheckHeader, Step, AInv
  <2>2. PICK b : /\ ans' = [ans EXCEPT ![r] = b]
                 /\ b = NoBucket \/ b \in Header(addr'[r])
    BY <1>7, <2>1 DEF CheckHeader
  <2>. QED
    BY <2>1, <2>2, ReaderStep
<1>8. ASSUME Return(r) PROVE AInv'
  <2>1. /\ ans' = [ans EXCEPT ![r] = NoBucket] /\ UNCHANGED writer
        /\ rpc' = [rpc EXCEPT ![r] = "idle"]
        /\ addr' = [addr EXCEPT ![r] = 0]
    BY <1>8 DEF Return
  <2>. QED
    BY <2>1, ReaderStep
<1>. QED
  BY <1>1, <1>2, <1>3, <1>4, <1>5, <1>6, <1>7, <1>8 DEF Read

LEMMA ClassifyA ==
  ASSUME AInv, NEW r \in Reader, NEW a, Classify(r, a) PROVE AInv'
<1>1. /\ ans[r] = NoBucket /\ ans' = [ans EXCEPT ![r] = NoBucket]
      /\ rpc' = [rpc EXCEPT ![r] = "mask"] /\ UNCHANGED writer
      /\ addr' = [addr EXCEPT ![r] = a]
  BY DEF Classify, AInv, Pending
<1>. QED
  BY <1>1, ReaderStep

LEMMA NextA == AInv /\ [Next]_vars => AInv'
<1>. SUFFICES ASSUME AInv, [Next]_vars PROVE AInv'
  OBVIOUS
<1>1. CASE UNCHANGED vars
  BY <1>1 DEF vars, table, nodes, writer, reader, AInv, WorkIsDead, Pending,
     AnswerRight, Header, SlabsAt
<1>2. CASE Next
  BY <1>2, WriteA, ReadA, ClassifyA DEF Next
<1>. QED
  BY <1>1, <1>2

(* FindBucket may read nodes at any moment of their lives, and SBAFast-    *)
(* Classify still never answers with a bucket that is not the block's own. *)
THEOREM Answers == Spec => []AnswerRight
<1>1. AInv => AnswerRight
  BY DEF AInv
<1>. QED
  BY InitA, NextA, <1>1, PTL DEF Spec

-----------------------------------------------------------------------------
(* What is chained is what Chain finds.                                    *)
LEMMA ChainIs ==
  ASSUME Len(node) \in Nat, DOMAIN node = 1 .. Len(node),
         \A m \in 1 .. Len(node) : node[m].next \in 0 .. Len(node),
         NEW s, NEW n, IsChain(node, s, n)
  PROVE  Chain(n) = s
BY ChainFromIs DEF Chain

(* Sizes of tables.                                                        *)
LEMMA CapIs ==
  /\ Cap[0] = 0 /\ Cap[1] = Cap0
  /\ \A t \in Nat : t > 1 => Cap[t] = 2 * Cap[t - 1]
<1>. DEFINE G == [x \in Nat \X Nat |-> IF x[1] <= 1 THEN x[1] * Cap0 ELSE 2 * x[2]]
<1>0. Cap0 \in Nat \ {0}
  BY SizeAssumption
<1>a. \A k, v \in Nat : G[<<k, v>>] = IF k <= 1 THEN k * Cap0 ELSE 2 * v
  OBVIOUS
<1>. HIDE DEF G
<1>1. PICK f : /\ f = [k \in Nat |-> f[k]] /\ f[0] = 0
               /\ \A k \in Nat : f[k + 1] = G[<<k + 1, f[k]>>]
  <2>1. \E f : IteratesFrom(f, 0, G)
    BY Iterates
  <2>. QED
    BY <2>1, Zenon DEF IteratesFrom
<1>2. \A k \in Nat : f[k] \in Nat
  <2>. DEFINE T == {k \in Nat : f[k] \in Nat}
  <2>1. 0 \in T
    BY <1>1
  <2>2. ASSUME NEW k \in T PROVE k + 1 \in T
    <3>1. f[k + 1] = G[<<k + 1, f[k]>>]
      BY <1>1
    <3>2. G[<<k + 1, f[k]>>] \in Nat
      <4>1. k + 1 <= 1 => k + 1 = 1
        OBVIOUS
      <4>. QED
        BY <1>0, <1>a, <4>1
    <3>. QED
      BY <3>1, <3>2
  <2>3. T = Nat
    <3>1. T \in SUBSET Nat
      OBVIOUS
    <3>. HIDE DEF T
    <3>. QED
      BY <2>1, <2>2, <3>1, Induct
  <2>. QED
    BY <2>3
<1>3. \A k \in Nat : f[k] = IF k <= 1 THEN k * Cap0 ELSE 2 * f[k - 1]
  <2>. SUFFICES ASSUME NEW k \in Nat PROVE f[k] = IF k <= 1 THEN k * Cap0 ELSE 2 * f[k - 1]
    OBVIOUS
  <2>1. CASE k = 0
    BY <1>0, <1>1, <2>1
  <2>2. CASE k # 0
    <3>0. k - 1 \in Nat /\ (k - 1) + 1 = k
      BY <2>2
    <3>1. f[k] = G[<<k, f[k - 1]>>] /\ k - 1 \in Nat /\ f[k - 1] \in Nat
      BY <1>1, <1>2, <3>0
    <3>. QED
      BY <1>a, <3>1
  <2>. QED
    BY <2>1, <2>2
<1>4. f = [k \in Nat |-> IF k <= 1 THEN k * Cap0 ELSE 2 * f[k - 1]]
  <2>1. f = [k \in Nat |-> f[k]]
    BY <1>1
  <2>. QED
    BY <1>3, <2>1
<1>5. Cap = [k \in Nat |-> IF k <= 1 THEN k * Cap0 ELSE 2 * Cap[k - 1]]
  BY <1>4 DEF Cap
<1>6. Cap[0] = 0 * Cap0 /\ Cap[1] = 1 * Cap0
  BY <1>5
<1>7. \A t \in Nat : t > 1 => Cap[t] = 2 * Cap[t - 1]
  BY <1>5
<1>. QED
  BY <1>0, <1>6, <1>7

LEMMA CapsGrow ==
  /\ \A t \in Nat : Cap[t] \in Nat /\ (t > 0 => Cap[t] > 0)
  /\ \A m, t \in Nat : m <= t => Cap[m] <= Cap[t]
<1>0. Cap0 \in Nat \ {0}
  BY SizeAssumption
<1>. DEFINE T == {t \in Nat : /\ Cap[t] \in Nat /\ (t > 0 => Cap[t] > 0)
                              /\ \A m \in 0 .. t : Cap[m] \in Nat /\ Cap[m] <= Cap[t]}
<1>1. 0 \in T
  BY CapIs
<1>2. ASSUME NEW t \in T PROVE t + 1 \in T
  <2>1. Cap[t + 1] \in Nat /\ Cap[t + 1] > 0 /\ Cap[t] <= Cap[t + 1] /\ Cap[t] \in Nat
    <3>1. CASE t = 0
      BY <1>0, <3>1, CapIs
    <3>2. CASE t > 0
      <4>1. t + 1 > 1 /\ (t + 1) - 1 = t
        BY <3>2
      <4>2. Cap[t + 1] = 2 * Cap[t]
        BY <4>1, CapIs
      <4>. QED
        BY <3>2, <4>2
    <3>. QED
      BY <3>1, <3>2
  <2>4. \A m \in 0 .. t : Cap[m] \in Nat /\ Cap[m] <= Cap[t + 1]
    BY <2>1
  <2>5. \A m \in 0 .. t + 1 : m \in 0 .. t \/ m = t + 1
    OBVIOUS
  <2>. QED
    BY <2>1, <2>4, <2>5
<1>3. T = Nat
  <2>1. T \in SUBSET Nat
    OBVIOUS
  <2>. HIDE DEF T
  <2>. QED
    BY <1>1, <1>2, <2>1, Induct
<1>. QED
  BY <1>3

-----------------------------------------------------------------------------
(* The invariant of the map.                                               *)

(* The table that is the newest, published or about to be, and its keys.   *)
Top == Len(heads)
Keys == 0 .. Cap[Top] - 1

(* The nodes that are in some chain.                                       *)
All(ch) == UNION {In(ch[j]) : j \in DOMAIN ch}

(* What a node and a table can hold.                                       *)
NodeFields == [base : Nat, end : Nat, bucket : Bucket \union {NoBucket}, page : Nat,
               next : Nat]
Tables == UNION {[0 .. Cap[t] - 1 -> Nat] : t \in Nat}

(* Where the owner holds a node that is not in a chain, where it removes a *)
(* slab, and where it works on one.                                        *)
Held == {"base", "end", "bucket", "next", "link", "put"}
Leaves == {"unlink", "put"}
Work == {"grow", "first", "second", "node", "unlink"} \union Held

(* The types of the tables and nodes, and of the owner's work.             *)
NodesTyped ==
  /\ heads \in Seq(Tables) /\ Len(heads) <= MaxTable
  /\ \A t \in 1 .. Len(heads) : heads[t] \in [0 .. Cap[t] - 1 -> 0 .. Len(node)]
  /\ node \in Seq(NodeFields) /\ Len(node) <= MaxNode
  /\ \A n \in 1 .. Len(node) : node[n].next \in 0 .. Len(node)

WorkTyped ==
  /\ live \in [Base -> Bucket \union {NoBucket}]
  /\ wpc \in Work \union {"idle"}
  /\ job \in [page : Nat, n : Nat]
  /\ slab = [c |-> slab.c, b |-> slab.b]
  /\ used \in Nat

(* Both words are those of the newest table, but while it is published.    *)
Phase ==
  /\ tab = IF wpc = "first" THEN Top - 1 ELSE Top
  /\ mask = IF wpc \in {"first", "second"} THEN Top - 1 ELSE Top
  /\ wpc \in Held \union {"first", "second", "node"} => Top > 0
  /\ wpc # "idle" =>
       /\ slab.c \in Base /\ slab.b \in Bucket /\ live[slab.c] = NoBucket
       /\ job.page \in Pages(slab.c, slab.b)

(* The chains of the newest table are ch, and pl is the list of the nodes  *)
(* that are retired.                                                       *)
Chained(ch, pl) ==
  /\ ch = [j \in Keys |-> ch[j]]
  /\ \A j \in Keys :
       /\ IsChain(node, ch[j], heads[Top][j])
       /\ \A n \in In(ch[j]) : Key(node[n].page, Top) = j
  /\ IsChain(node, pl, pool)
  /\ All(ch) \cap In(pl) = {}

(* The node that is being filled in or taken away is in neither.           *)
InHand(ch, pl) ==
  /\ wpc \in Held => job.n \in DOMAIN node /\ job.n \notin All(ch) /\ job.n \notin In(pl)
  /\ wpc \in Held \ {"base", "put"} => node[job.n].base = slab.c
  /\ wpc \in {"bucket", "next", "link"} => node[job.n].end = slab.c + Size[slab.b]
  /\ wpc \in {"next", "link"} => node[job.n].page = job.page /\ node[job.n].bucket = slab.b
  /\ wpc = "link" => node[job.n].next = heads[Top][Key(job.page, Top)]

(* The count of nodes in use is that of the chains, until PutNode is done. *)
Counted(ch) == used = Cardinality(All(ch)) + (IF wpc = "put" THEN 1 ELSE 0)

(* What a node that is chained says: of a live slab, or of the slab that   *)
(* is carved or destroyed.                                                 *)
Sound(r) ==
  /\ r.base \in Base /\ r.bucket \in Bucket
  /\ r.page \in Pages(r.base, r.bucket) /\ r.end = r.base + Size[r.bucket]

Owned(r, w, sl, jb, lv) ==
  IF w # "idle" /\ r.base = sl.c
    THEN r.bucket = sl.b /\ (w \notin Leaves => r.page < jb.page)
    ELSE lv[r.base] = r.bucket

Entries(ch) ==
  \A n \in All(ch) : Sound(node[n]) /\ Owned(node[n], wpc, slab, job, live)

(* No two nodes are for the same page of a slab.                           *)
Alone(ch) == \A n, m \in All(ch) :
  node[n].page = node[m].page /\ node[n].base = node[m].base => n = m

(* DestroySlab looks in the chain of each page for any node of the slab:   *)
(* in every chain there are at most as many as pages left to look there.   *)
Mine(nd, s, c) == {n \in In(s) : nd[n].base = c}

Due(sl, w, jb, t, k) ==
  {p \in Pages(sl.c, sl.b) :
     Key(p, t) = k /\ (p > jb.page \/ (p = jb.page /\ w = "unlink"))}

Leaving(ch) == wpc \in Leaves =>
  \A k \in DOMAIN ch :
    Cardinality(Mine(node, ch[k], slab.c)) <= Cardinality(Due(slab, wpc, job, Top, k))

(* The chains ch and the list pl hold the index.                           *)
Indexed(ch, pl) ==
  Chained(ch, pl) /\ InHand(ch, pl) /\ Counted(ch) /\ Entries(ch) /\ Alone(ch) /\ Leaving(ch)

MapInv == NodesTyped /\ WorkTyped /\ Phase /\ \E ch, pl : Indexed(ch, pl)

-----------------------------------------------------------------------------
(* Pages of a slab.                                                        *)
LEMMA PagesAre ==
  ASSUME NEW c \in Base, NEW b \in Bucket
  PROVE  /\ Pages(c, b) \subseteq Nat /\ Page(c) \in Pages(c, b)
         /\ \A p \in Pages(c, b) : Page(c) <= p
         /\ \A p, q \in Pages(c, b) : p < q => p + 1 \in Pages(c, b)
         /\ IsFiniteSet(Pages(c, b))
<1>1. c \in Nat /\ Size[b] \in Nat /\ Size[b] > 0
  BY SizeAssumption
<1>2. \A a \in Nat : Page(a) \in Nat /\ 2 * Page(a) <= a /\ a <= 2 * Page(a) + 1
  BY DEF Page
<1>3. \A p \in Nat : p \in Pages(c, b) <=> \E a \in c .. c + Size[b] - 1 : p = Page(a)
  BY DEF Pages, Span
<1>4. ASSUME NEW p \in Pages(c, b) PROVE p \in Nat /\ Page(c) <= p /\ p <= c + Size[b]
  <2>1. PICK a \in c .. c + Size[b] - 1 : p = Page(a)
    BY DEF Pages, Span
  <2>2. a \in Nat /\ c <= a /\ a <= c + Size[b] - 1
    BY <1>1
  <2>3. /\ Page(a) \in Nat /\ 2 * Page(a) <= a /\ a <= 2 * Page(a) + 1
        /\ Page(c) \in Nat /\ 2 * Page(c) <= c /\ c <= 2 * Page(c) + 1
    BY <1>1, <1>2, <2>2
  <2>4. Page(c) <= Page(a) /\ Page(a) <= c + Size[b]
    BY <1>1, <2>2, <2>3
  <2>. QED
    BY <2>1, <2>3, <2>4
<1>5. Page(c) \in Pages(c, b)
  <2>1. c \in c .. c + Size[b] - 1
    BY <1>1
  <2>. QED
    BY <1>1, <1>2, <1>3, <2>1
<1>6. ASSUME NEW p \in Pages(c, b), NEW q \in Pages(c, b), p < q PROVE p + 1 \in Pages(c, b)
  <2>1. PICK a \in c .. c + Size[b] - 1 : q = Page(a)
    BY DEF Pages, Span
  <2>2. p \in Nat /\ q \in Nat /\ Page(c) <= p
    BY <1>4
  <2>3. p + 1 <= q /\ 2 * (p + 1) \in Nat
    BY <1>6, <2>2
  <2>4. Page(2 * (p + 1)) = p + 1
    BY <1>2, <2>2
  <2>5. 2 * (p + 1) <= a /\ c <= 2 * (p + 1)
    <3>1. a \in Nat /\ 2 * q <= a
      BY <1>1, <1>2, <2>1
    <3>2. c <= 2 * Page(c) + 1 /\ Page(c) \in Nat
      BY <1>1, <1>2
    <3>. QED
      BY <1>1, <2>2, <2>3, <3>1, <3>2
  <2>6. 2 * (p + 1) \in c .. c + Size[b] - 1
    BY <1>1, <2>1, <2>2, <2>5
  <2>. QED
    BY <1>3, <2>2, <2>4, <2>6
<1>7. IsFiniteSet(Pages(c, b))
  <2>1. Pages(c, b) \in SUBSET Nat /\ \A p \in Pages(c, b) : p <= c + Size[b]
    BY <1>4
  <2>. QED
    <3>1. c + Size[b] \in Nat
      BY <1>1
    <3>. QED
      BY <2>1, <3>1, FS_BoundedSetOfNaturals
<1>. QED
  BY <1>4, <1>5, <1>6, <1>7

(* A key lies in its table.                                                *)
LEMMA KeyIn ==
  ASSUME NEW p \in Nat, NEW t \in Nat, t > 0
  PROVE  Key(p, t) \in 0 .. Cap[t] - 1
<1>1. Cap[t] \in Nat /\ Cap[t] > 0
  BY CapsGrow
<1>. DEFINE m == Cap[t]
<1>. HIDE DEF m
<1>2. m \in Nat /\ m > 0 => p % m \in 0 .. m - 1
  OBVIOUS
<1>. QED
  BY <1>1, <1>2 DEF Key, m

(* The fields of the nodes.                                                *)
LEMMA NodeIs ==
  ASSUME NodesTyped
  PROVE  /\ Len(node) \in Nat /\ DOMAIN node = 1 .. Len(node)
         /\ \A n \in 1 .. Len(node) : /\ node[n] \in NodeFields
                                      /\ node[n].next \in 0 .. Len(node)
         /\ Len(heads) \in Nat /\ DOMAIN heads = 1 .. Len(heads)
<1>1. node \in Seq(NodeFields) /\ heads \in Seq(Tables)
  BY DEF NodesTyped
<1>. QED
  BY <1>1, SeqIs DEF NodesTyped

(* What is in the chains.                                                  *)
LEMMA AllIs ==
  ASSUME NodesTyped, NEW ch, NEW pl, Chained(ch, pl)
  PROVE  /\ DOMAIN ch = Keys
         /\ \A n : n \in All(ch) <=> \E j \in Keys : n \in In(ch[j])
         /\ All(ch) \subseteq 1 .. Len(node) /\ In(pl) \subseteq 1 .. Len(node)
         /\ IsFiniteSet(All(ch)) /\ Cardinality(All(ch)) \in Nat
         /\ \A j \in Keys : In(ch[j]) \subseteq 1 .. Len(node)
         /\ \A j, k \in Keys : j # k => In(ch[j]) \cap In(ch[k]) = {}
<1>1. DOMAIN ch = Keys
  BY DEF Chained
<1>2. \A n : n \in All(ch) <=> \E j \in Keys : n \in In(ch[j])
  BY <1>1 DEF All
<1>3. \A j \in Keys : In(ch[j]) \subseteq 1 .. Len(node)
  BY NodeIs, ChainParts DEF Chained
<1>4. In(pl) \subseteq 1 .. Len(node)
  BY NodeIs, ChainParts DEF Chained
<1>5. All(ch) \in SUBSET (1 .. Len(node))
  BY <1>2, <1>3
<1>6. IsFiniteSet(1 .. Len(node))
  BY NodeIs, FS_Interval
<1>7. IsFiniteSet(All(ch))
  BY <1>5, <1>6, FS_Subset
<1>8. \A j, k \in Keys : j # k => In(ch[j]) \cap In(ch[k]) = {}
  BY DEF Chained
<1>. QED
  BY <1>1, <1>2, <1>3, <1>4, <1>5, <1>7, <1>8, FS_CardinalityType

-----------------------------------------------------------------------------
(* Going on after a page.                                                  *)

(* The two ways to go on after a page.                                     *)
LEMMA NextPageIs ==
  ASSUME WorkTyped, Phase, wpc # "idle", NEW first, NEW done, NextPage(first, done)
  PROVE  \/ /\ wpc' = first /\ job' = [page |-> job.page + 1, n |-> 0]
            /\ job.page + 1 \in Pages(slab.c, slab.b)
            /\ live' = live /\ slab' = slab
         \/ /\ wpc' = "idle" /\ slab' = NoSlab /\ job' = NoJob
            /\ live' = [live EXCEPT ![slab.c] = done]
            /\ \A p \in Pages(slab.c, slab.b) : p <= job.page
<1>1. slab.c \in Base /\ slab.b \in Bucket /\ job.page \in Pages(slab.c, slab.b)
  BY DEF Phase
<1>2. \A p, q \in Pages(slab.c, slab.b) : p < q => p + 1 \in Pages(slab.c, slab.b)
  BY <1>1, PagesAre
<1>3. Pages(slab.c, slab.b) \subseteq Nat
  BY <1>1, PagesAre
<1>4. CASE job.page + 1 \in Pages(slab.c, slab.b)
  <2>1. job = [page |-> job.page, n |-> job.n]
    BY DEF WorkTyped
  <2>. QED
    BY <1>4, <2>1 DEF NextPage
<1>5. CASE job.page + 1 \notin Pages(slab.c, slab.b)
  <2>1. \A p \in Pages(slab.c, slab.b) : ~(job.page < p)
    BY <1>1, <1>2, <1>5
  <2>2. \A p \in Pages(slab.c, slab.b) : p <= job.page
    BY <1>1, <1>3, <2>1
  <2>. QED
    BY <1>5, <2>2 DEF NextPage
<1>. QED
  BY <1>4, <1>5

(* Then the work is again in order, and the map if its nodes are.          *)
LEMMA WorkGoesOn ==
  ASSUME WorkTyped, Phase, wpc # "idle", NEW first \in {"grow", "unlink"},
         NEW done \in Bucket \union {NoBucket}, NextPage(first, done),
         tab = Top, mask = Top, UNCHANGED <<tab, mask>>, Top' = Top, used' \in Nat
  PROVE  WorkTyped' /\ Phase'
<1>1. /\ slab.c \in Base /\ slab.b \in Bucket /\ live[slab.c] = NoBucket
      /\ job.page \in Nat
  BY DEF Phase, WorkTyped
<1>2. CASE /\ wpc' = first /\ job' = [page |-> job.page + 1, n |-> 0]
           /\ job.page + 1 \in Pages(slab.c, slab.b)
           /\ live' = live /\ slab' = slab
  BY <1>1, <1>2 DEF WorkTyped, Phase, Work, Held, Top
<1>3. CASE /\ wpc' = "idle" /\ slab' = NoSlab /\ job' = NoJob
           /\ live' = [live EXCEPT ![slab.c] = done]
  BY <1>1, <1>3 DEF WorkTyped, Phase, Work, Held, Top, NoSlab, NoJob
<1>. QED
  BY <1>2, <1>3, NextPageIs

LEMMA InsertEnds ==
  ASSUME WorkTyped, Phase, wpc # "idle", Inserted,
         NEW ch, NEW pl, Chained(ch, pl)', Alone(ch)',
         used' \in Nat, used' = Cardinality(All(ch)),
         \A n \in All(ch) :
           /\ Sound(node'[n])
           /\ IF node'[n].base = slab.c
                THEN node'[n].bucket = slab.b /\ node'[n].page <= job.page
                ELSE live[node'[n].base] = node'[n].bucket
  PROVE  Indexed(ch, pl)'
<1>0. /\ slab.c \in Base /\ slab.b \in Bucket /\ live[slab.c] = NoBucket
      /\ live \in [Base -> Bucket \union {NoBucket}]
      /\ job.page \in Nat
  BY DEF Phase, WorkTyped
<1>1. wpc' \in {"grow", "idle"}
  BY NextPageIs DEF Inserted
<1>2. InHand(ch, pl)' /\ Counted(ch)' /\ Leaving(ch)'
  BY <1>1 DEF InHand, Counted, Leaving, Held, Leaves
<1>3. ASSUME NEW n \in All(ch) PROVE (Sound(node[n]) /\ Owned(node[n], wpc, slab, job, live))'
  <2>. DEFINE r == node'[n]
  <2>1. /\ Sound(r)
        /\ IF r.base = slab.c THEN r.bucket = slab.b /\ r.page <= job.page
                              ELSE live[r.base] = r.bucket
    OBVIOUS
  <2>2. r.base \in Base /\ r.page \in Nat
    BY <2>1, PagesAre DEF Sound
  <2>. HIDE DEF r
  <2>3. CASE /\ wpc' = "grow" /\ job' = [page |-> job.page + 1, n |-> 0]
             /\ live' = live /\ slab' = slab
    <3>1. r.page <= job.page => r.page < job'.page
      BY <1>0, <2>2, <2>3
    <3>2. Owned(r, wpc', slab', job', live')
      BY <2>1, <2>3, <3>1 DEF Owned, Leaves
    <3>. QED
      BY <2>1, <3>2 DEF r, Sound
  <2>4. CASE wpc' = "idle" /\ live' = [live EXCEPT ![slab.c] = slab.b]
    <3>1. Owned(r, wpc', slab', job', live')
      BY <1>0, <2>1, <2>2, <2>4 DEF Owned
    <3>. QED
      BY <2>1, <3>1 DEF r, Sound
  <2>. QED
    BY <2>3, <2>4, NextPageIs DEF Inserted
<1>4. Entries(ch)'
  BY <1>3 DEF Entries
<1>. QED
  BY <1>2, <1>4 DEF Indexed

LEMMA RemoveEnds ==
  ASSUME WorkTyped, Phase, wpc # "idle", Removed, Top' = Top,
         NEW ch, NEW pl, Chained(ch, pl)', Alone(ch)',
         used' \in Nat, IsFiniteSet(All(ch)), used' = Cardinality(All(ch)),
         \A n \in All(ch) :
           /\ Sound(node'[n])
           /\ IF node'[n].base = slab.c THEN node'[n].bucket = slab.b
                                        ELSE live[node'[n].base] = node'[n].bucket,
         \A k \in DOMAIN ch :
           Cardinality(Mine(node', ch[k], slab.c)) <= Cardinality(Due(slab, "put", job, Top, k))
  PROVE  Indexed(ch, pl)'
<1>0. /\ slab.c \in Base /\ slab.b \in Bucket /\ live[slab.c] = NoBucket
      /\ live \in [Base -> Bucket \union {NoBucket}]
      /\ job.page \in Nat /\ Pages(slab.c, slab.b) \subseteq Nat
  BY PagesAre DEF Phase, WorkTyped
<1>1. wpc' \in {"unlink", "idle"}
  BY NextPageIs DEF Removed
<1>2. InHand(ch, pl)' /\ Counted(ch)'
  BY <1>1 DEF InHand, Counted, Held
<1>3. CASE /\ wpc' = "unlink" /\ job' = [page |-> job.page + 1, n |-> 0]
           /\ live' = live /\ slab' = slab
  <2>1. \A n \in All(ch) : Sound(node'[n]) /\ Owned(node'[n], wpc', slab', job', live')
    BY <1>3 DEF Owned, Leaves
  <2>2. Entries(ch)'
    BY <2>1 DEF Entries, Sound
  <2>3. \A k : Due(slab', wpc', job', Top, k) = Due(slab, "put", job, Top, k)
    <3>1. \A p \in Pages(slab.c, slab.b) :
            p > job.page <=> (p > job.page + 1 \/ p = job.page + 1)
      BY <1>0
    <3>. QED
      BY <1>3, <3>1 DEF Due
  <2>4. Leaving(ch)'
    BY <1>3, <2>3 DEF Leaving
  <2>. QED
    BY <1>2, <2>2, <2>4 DEF Indexed
<1>4. CASE /\ wpc' = "idle" /\ live' = [live EXCEPT ![slab.c] = NoBucket]
           /\ \A p \in Pages(slab.c, slab.b) : p <= job.page
  <2>1. \A k : Due(slab, "put", job, Top, k) = {}
    <3>1. \A p \in Pages(slab.c, slab.b) : ~(p > job.page)
      BY <1>0, <1>4
    <3>. QED
      BY <3>1 DEF Due
  <2>2. ASSUME NEW n \in All(ch) PROVE node'[n].base # slab.c
    <3>. SUFFICES ASSUME node'[n].base = slab.c PROVE FALSE
      OBVIOUS
    <3>1. PICK k \in DOMAIN ch : n \in In(ch[k])
      BY DEF All
    <3>2. n \in Mine(node', ch[k], slab.c)
      BY <3>1 DEF Mine
    <3>4. Mine(node', ch[k], slab.c) \in SUBSET All(ch)
      BY DEF Mine, All
    <3>5. IsFiniteSet(Mine(node', ch[k], slab.c))
      BY <3>4, FS_Subset
    <3>6. Cardinality(Mine(node', ch[k], slab.c)) # 0
      BY <3>2, <3>5, FS_EmptySet
    <3>7. Cardinality(Mine(node', ch[k], slab.c)) \in Nat
      BY <3>5, FS_CardinalityType
    <3>8. Cardinality(Mine(node', ch[k], slab.c)) <= 0
      BY <2>1, FS_EmptySet
    <3>. QED
      BY <3>6, <3>7, <3>8
  <2>3. \A n \in All(ch) : Sound(node'[n]) /\ Owned(node'[n], wpc', slab', job', live')
    BY <1>0, <1>4, <2>2 DEF Owned, Sound
  <2>4. Entries(ch)' /\ Leaving(ch)'
    BY <1>4, <2>3 DEF Entries, Sound, Leaving, Leaves
  <2>. QED
    BY <1>2, <2>4 DEF Indexed
<1>. QED
  BY <1>3, <1>4, NextPageIs DEF Removed

-----------------------------------------------------------------------------
(* Slabs come and go, and the owner moves on.                              *)

LEMMA MapUnchanged ==
  ASSUME MapInv, UNCHANGED <<table, nodes, writer>>
  PROVE  MapInv'
<1>1. UNCHANGED <<tab, mask, heads, node, pool, used, live, wpc, slab, job>>
  BY DEF table, nodes, writer
<1>2. NodesTyped' /\ WorkTyped' /\ Phase'
  BY <1>1 DEF MapInv, NodesTyped, WorkTyped, Phase, Top
<1>3. PICK ch, pl : Indexed(ch, pl)
  BY DEF MapInv
<1>4. Indexed(ch, pl)'
  BY <1>1, <1>3 DEF Indexed, Chained, InHand, Counted, Entries, Alone, Leaving, Top, Keys,
                    IsChain
<1>. QED
  BY <1>2, <1>4 DEF MapInv

(* Nothing of the map changes but the owner's place in its work.           *)
LEMMA ChainedKept ==
  ASSUME NEW ch, NEW pl, Chained(ch, pl), UNCHANGED <<heads, node, pool>>
  PROVE  Chained(ch, pl)'
BY DEF Chained, IsChain, Top, Keys

LEMMA CarveMaps ==
  ASSUME MapInv, NEW c \in Base, NEW b \in Bucket, Carve(c, b)
  PROVE  MapInv'
<1>0. /\ wpc = "idle" /\ wpc' = "grow" /\ slab' = [c |-> c, b |-> b]
      /\ job' = [page |-> Page(c), n |-> 0]
      /\ UNCHANGED <<tab, mask, heads, node, pool, used, live>>
  BY DEF Carve, table, nodes
<1>1. NodesTyped'
  BY <1>0 DEF MapInv, NodesTyped
<1>2. live[c] = NoBucket
  <2>. SUFFICES ASSUME live[c] # NoBucket PROVE FALSE
    OBVIOUS
  <2>1. live[c] \in Bucket
    BY DEF MapInv, WorkTyped
  <2>2. c \in Nat /\ Size[b] \in Nat /\ Size[b] > 0 /\ Size[live[c]] \in Nat /\ Size[live[c]] > 0
    BY <2>1, SizeAssumption
  <2>3. c \in Span(c, b) /\ c \in Span(c, live[c])
    BY <2>2 DEF Span
  <2>4. Span(c, live[c]) \cap Span(c, b) = {}
    BY DEF Carve
  <2>. QED
    BY <2>3, <2>4
<1>3. WorkTyped' /\ Phase'
  <2>1. Page(c) \in Pages(c, b) /\ Page(c) \in Nat
    BY PagesAre
  <2>. QED
    BY <1>0, <1>2, <2>1 DEF MapInv, WorkTyped, Phase, Work, Held, Top
<1>4. PICK ch, pl : Indexed(ch, pl)
  BY DEF MapInv
<1>5. Chained(ch, pl)' /\ Alone(ch)' /\ Counted(ch)'
  BY <1>0, <1>4, ChainedKept DEF Indexed, Alone, Counted
<1>6. InHand(ch, pl)' /\ Leaving(ch)'
  BY <1>0 DEF InHand, Leaving, Held, Leaves
<1>7. Entries(ch)'
  <2>1. \A n \in All(ch) : Sound(node[n]) /\ live[node[n].base] = node[n].bucket
    BY <1>0, <1>4 DEF Indexed, Entries, Owned
  <2>2. \A n \in All(ch) : node[n].base # c
    BY <1>2, <2>1, BucketAssumption DEF Sound
  <2>. QED
    BY <1>0, <2>1, <2>2 DEF Entries, Owned, Sound
<1>8. Indexed(ch, pl)'
  BY <1>5, <1>6, <1>7 DEF Indexed
<1>. QED
  BY <1>1, <1>3, <1>8 DEF MapInv

LEMMA DestroyMaps ==
  ASSUME MapInv, NEW c \in Base, Destroy(c)
  PROVE  MapInv'
<1>. DEFINE b == live[c]
<1>0. /\ wpc = "idle" /\ b # NoBucket /\ wpc' = "unlink" /\ slab' = [c |-> c, b |-> b]
      /\ job' = [page |-> Page(c), n |-> 0] /\ live' = [live EXCEPT ![c] = NoBucket]
      /\ UNCHANGED <<tab, mask, heads, node, pool, used>>
  BY DEF Destroy, table, nodes
<1>1. NodesTyped' /\ NodesTyped
  BY <1>0 DEF MapInv, NodesTyped
<1>2. b \in Bucket /\ live \in [Base -> Bucket \union {NoBucket}]
  BY <1>0 DEF MapInv, WorkTyped
<1>3. /\ Page(c) \in Pages(c, b) /\ Pages(c, b) \subseteq Nat /\ IsFiniteSet(Pages(c, b))
      /\ \A p \in Pages(c, b) : Page(c) <= p
  BY <1>2, PagesAre
<1>. HIDE DEF b
<1>4. WorkTyped' /\ Phase'
  BY <1>0, <1>2, <1>3 DEF MapInv, WorkTyped, Phase, Work, Held, Top
<1>5. PICK ch, pl : Indexed(ch, pl)
  BY DEF MapInv
<1>6. Chained(ch, pl)' /\ Alone(ch)' /\ Counted(ch)' /\ Chained(ch, pl) /\ Alone(ch)
  BY <1>0, <1>5, ChainedKept DEF Indexed, Alone, Counted
<1>7. InHand(ch, pl)'
  <2>1. job' = [job' EXCEPT !.n = 0]
    BY <1>0
  <2>. QED
    BY <1>0 DEF InHand, Held
<1>8. \A n \in All(ch) : Sound(node[n]) /\ live[node[n].base] = node[n].bucket
  BY <1>0, <1>5 DEF Indexed, Entries, Owned
<1>9. Entries(ch)'
  <2>1. \A n \in All(ch) : Sound(node'[n]) /\ Owned(node'[n], wpc', slab', job', live')
    BY <1>0, <1>2, <1>8 DEF Owned, Sound, Leaves, b
  <2>. QED
    BY <2>1 DEF Entries, Sound
<1>10. Leaving(ch)'
  <2>. SUFFICES ASSUME NEW k \in DOMAIN ch
                PROVE  Cardinality(Mine(node, ch[k], c)) <= Cardinality(Due(slab', "unlink", job', Top, k))
    BY <1>0 DEF Leaving, Top
  <2>. DEFINE M == Mine(node, ch[k], c)
              U == Due(slab', "unlink", job', Top, k)
  <2>1. U = {p \in Pages(c, b) : Key(p, Top) = k}
    <3>1. \A p \in Pages(c, b) : p > Page(c) \/ p = Page(c)
      BY <1>3
    <3>. QED
      BY <1>0, <3>1 DEF Due
  <2>2. IsFiniteSet(U)
    <3>1. U \in SUBSET Pages(c, b)
      BY <2>1
    <3>. QED
      BY <1>3, <3>1, FS_Subset
  <2>3. \A n \in M : n \in All(ch) /\ node[n].base = c /\ Key(node[n].page, Top) = k
    BY <1>6 DEF Mine, All, Chained
  <2>4. \A n \in M : node[n].page \in U
    BY <1>8, <2>1, <2>3 DEF Sound, b
  <2>. DEFINE f == [n \in M |-> node[n].page]
  <2>5. f \in Injection(M, U)
    <3>1. \A n, m \in M : node[n].page = node[m].page => n = m
      BY <1>6, <2>3 DEF Alone
    <3>. HIDE DEF M, U
    <3>. QED
      BY <2>4, <3>1 DEF Injection, IsInjective
  <2>. HIDE DEF M, U, f
  <2>6. Cardinality(M) <= Cardinality(U)
    BY <2>2, <2>5, FS_Injection
  <2>. QED
    BY <2>6 DEF M, U
<1>11. Indexed(ch, pl)'
  BY <1>6, <1>7, <1>9, <1>10 DEF Indexed
<1>. QED
  BY <1>1, <1>4, <1>11 DEF MapInv

(* Steps that only bring the owner to another place.                       *)
LEMMA StepMaps ==
  ASSUME MapInv, NoGrow \/ StoreFirst \/ StoreSecond
  PROVE  MapInv'
<1>0. /\ UNCHANGED <<heads, node, pool, used, live, slab, job>>
      /\ wpc \in {"grow", "first", "second"} /\ wpc' \in {"second", "node"}
  BY DEF NoGrow, StoreFirst, StoreSecond, table, nodes
<1>1. NodesTyped' /\ WorkTyped'
  BY <1>0 DEF MapInv, NodesTyped, WorkTyped, Work
<1>2. Phase'
  <2>1. CASE NoGrow
    <3>1. Top > 0
      <4>. SUFFICES ASSUME ~(Top > 0) PROVE FALSE
        OBVIOUS
      <4>1. Top = 0 /\ tab = 0
        BY <1>0, <2>1, NodeIs DEF MapInv, Phase, Top, NoGrow
      <4>2. Full
        BY <4>1, CapIs DEF Full, MapInv, WorkTyped
      <4>. QED
        BY <2>1, <4>2 DEF NoGrow
    <3>. QED
      BY <1>0, <2>1, <3>1 DEF MapInv, Phase, Top, NoGrow, table, Held
  <2>2. CASE StoreFirst
    <3>. QED
      BY <1>0, <2>2 DEF MapInv, Phase, Top, StoreFirst, Store, Published, Held
  <2>3. CASE StoreSecond
    BY <1>0, <2>3 DEF MapInv, Phase, Top, StoreSecond, Store, Published, Held
  <2>. QED
    BY <2>1, <2>2, <2>3
<1>3. PICK ch, pl : Indexed(ch, pl)
  BY DEF MapInv
<1>4. Chained(ch, pl)' /\ Alone(ch)' /\ Counted(ch)'
  BY <1>0, <1>3, ChainedKept DEF Indexed, Alone, Counted
<1>5. InHand(ch, pl)' /\ Leaving(ch)'
  BY <1>0 DEF InHand, Leaving, Held, Leaves
<1>6. Entries(ch)'
  BY <1>0, <1>3 DEF Indexed, Entries, Owned, Sound, Leaves
<1>7. Indexed(ch, pl)'
  BY <1>4, <1>5, <1>6 DEF Indexed
<1>. QED
  BY <1>1, <1>2, <1>7 DEF MapInv

(* Filling in a field of the node in hand.                                 *)
LEMMA SetFieldMaps ==
  ASSUME MapInv, NEW at \in Held \ {"put", "link"}, NEW then \in Held \ {"put", "base"},
         NEW new \in NodeFields, new.next \in 0 .. Len(node), SetField(at, then, new),
         then # "base" => new.base = slab.c,
         then \in {"bucket", "next", "link"} => new.end = slab.c + Size[slab.b],
         then \in {"next", "link"} => new.page = job.page /\ new.bucket = slab.b,
         then = "link" => new.next = heads[Top][Key(job.page, Top)]
  PROVE  MapInv'
<1>0. /\ wpc = at /\ wpc' = then /\ node' = [node EXCEPT ![job.n] = new]
      /\ UNCHANGED <<tab, mask, heads, pool, used, live, slab, job>>
  BY DEF SetField, table
<1>1. PICK ch, pl : Indexed(ch, pl)
  BY DEF MapInv
<1>2. /\ job.n \in DOMAIN node /\ job.n \notin All(ch) /\ job.n \notin In(pl)
  BY <1>0, <1>1 DEF Indexed, InHand
<1>3. NodesTyped /\ Chained(ch, pl)
  BY <1>1 DEF MapInv, Indexed
<1>4. /\ node' \in Seq(NodeFields) /\ Len(node') = Len(node) /\ DOMAIN node' = DOMAIN node
      /\ \A n \in DOMAIN node : node'[n] = IF n = job.n THEN new ELSE node[n]
  <2>1. node \in Seq(NodeFields) /\ job.n \in 1 .. Len(node)
    BY <1>2, <1>3, NodeIs DEF NodesTyped
  <2>. QED
    BY <1>0, <2>1, ExceptSeq, SeqIs
<1>5. NodesTyped'
  BY <1>0, <1>3, <1>4, NodeIs DEF NodesTyped
<1>6. WorkTyped' /\ Phase'
  BY <1>0 DEF MapInv, WorkTyped, Phase, Work, Held, Top
<1>7. \A n \in All(ch) \union In(pl) : n \in DOMAIN node /\ node'[n] = node[n]
  BY <1>2, <1>3, <1>4, AllIs, NodeIs
<1>8. Chained(ch, pl)'
  <2>1. ASSUME NEW s, NEW n, IsChain(node, s, n), In(s) \subseteq All(ch) \union In(pl)
        PROVE  IsChain(node', s, n)
    BY <1>4, <1>7, <2>1, ChainKept
  <2>2. \A j \in Keys : In(ch[j]) \subseteq All(ch)
    BY <1>3, AllIs
  <2>3. \A j \in Keys : IsChain(node', ch[j], heads[Top][j])
    BY <1>3, <2>1, <2>2 DEF Chained
  <2>4. IsChain(node', pl, pool)
    BY <1>3, <2>1 DEF Chained
  <2>5. \A j \in Keys : \A n \in In(ch[j]) : Key(node'[n].page, Top) = j
    BY <1>3, <1>7, <2>2 DEF Chained
  <2>6. Keys' = Keys /\ Top' = Top
    BY <1>0 DEF Keys, Top
  <2>7. ch = [j \in Keys' |-> ch[j]] /\ All(ch) \cap In(pl) = {}
    BY <1>3, <2>6 DEF Chained
  <2>8. \A j \in Keys' :
          /\ IsChain(node', ch[j], heads'[Top'][j])
          /\ \A n \in In(ch[j]) : Key(node'[n].page, Top') = j
    BY <1>0, <2>3, <2>5, <2>6, ZenonT(60)
  <2>9. IsChain(node', pl, pool')
    BY <1>0, <2>4
  <2>. QED
    BY <2>7, <2>8, <2>9 DEF Chained
<1>9. InHand(ch, pl)'
  <2>1. node'[job.n] = new
    BY <1>2, <1>4
  <2>. QED
    BY <1>0, <1>2, <1>4, <2>1 DEF InHand, Held, Top
<1>10. Counted(ch)' /\ Leaving(ch)'
  BY <1>0, <1>1 DEF Indexed, Counted, Leaving, Held, Leaves
<1>11. Entries(ch)' /\ Alone(ch)'
  BY <1>0, <1>1, <1>7 DEF Indexed, Entries, Alone, Owned, Sound, Held, Leaves
<1>12. Indexed(ch, pl)'
  BY <1>8, <1>9, <1>10, <1>11 DEF Indexed
<1>. QED
  BY <1>5, <1>6, <1>12 DEF MapInv

-----------------------------------------------------------------------------
(* A node is taken, and its fields are filled in.                          *)

(* Pages that are not indexed for want of memory.                          *)
LEMMA InsertAsIs ==
  ASSUME MapInv, wpc \in {"grow", "node"}, Inserted,
         UNCHANGED <<tab, mask, heads, node, pool, used>>
  PROVE  MapInv'
<1>1. NodesTyped' /\ NodesTyped /\ WorkTyped /\ Phase /\ used' = used
  BY DEF MapInv, NodesTyped
<1>2. tab = Top /\ mask = Top /\ Top' = Top /\ wpc # "idle" /\ slab.b \in Bucket
  BY DEF MapInv, Phase, Top
<1>3. PICK ch, pl : Indexed(ch, pl)
  BY DEF MapInv
<1>4. Chained(ch, pl)' /\ Alone(ch)' /\ used = Cardinality(All(ch)) /\ Chained(ch, pl)
      /\ used \in Nat
  <2>1. used = Cardinality(All(ch)) + 0
    BY <1>3 DEF Indexed, Counted
  <2>. QED
    BY <1>1, <1>3, <2>1, AllIs, ChainedKept DEF Indexed, Alone, Counted
<1>5. \A n \in All(ch) :
        /\ Sound(node'[n])
        /\ IF node'[n].base = slab.c
             THEN node'[n].bucket = slab.b /\ node'[n].page <= job.page
             ELSE live[node'[n].base] = node'[n].bucket
  <2>. SUFFICES ASSUME NEW n \in All(ch)
                PROVE  /\ Sound(node[n])
                       /\ IF node[n].base = slab.c
                            THEN node[n].bucket = slab.b /\ node[n].page <= job.page
                            ELSE live[node[n].base] = node[n].bucket
    OBVIOUS
  <2>1. Sound(node[n]) /\ Owned(node[n], wpc, slab, job, live)
    BY <1>3 DEF Indexed, Entries
  <2>2. node[n].page \in Nat /\ job.page \in Nat
    BY <2>1, PagesAre DEF Sound, MapInv, WorkTyped
  <2>3. node[n].page < job.page => node[n].page <= job.page
    BY <2>2
  <2>. QED
    BY <1>2, <2>1, <2>3 DEF Owned, Leaves
<1>6. WorkTyped' /\ Phase'
  <2>1. NextPage("grow", slab.b) /\ used' \in Nat
    BY <1>1 DEF Inserted, WorkTyped
  <2>2. slab.b \in Bucket \union {NoBucket} /\ "grow" \in {"grow", "unlink"}
    BY <1>2
  <2>. QED
    BY <1>1, <1>2, <2>1, <2>2, WorkGoesOn
<1>7. Indexed(ch, pl)'
  BY <1>1, <1>2, <1>4, <1>5, InsertEnds
<1>. QED
  BY <1>1, <1>6, <1>7 DEF MapInv

LEMMA GetNodeMaps ==
  ASSUME MapInv, GetNode
  PROVE  MapInv'
<1>0. wpc = "node" /\ UNCHANGED <<tab, mask, heads, used>>
  BY DEF GetNode, table
<1>1. PICK ch, pl : Indexed(ch, pl)
  BY DEF MapInv
<1>2. NodesTyped /\ WorkTyped /\ Phase /\ Chained(ch, pl)
  BY <1>1 DEF MapInv, Indexed
<1>3. CASE /\ pool # 0 /\ job' = [job EXCEPT !.n = pool] /\ pool' = node[pool].next
           /\ wpc' = "base" /\ UNCHANGED <<node, live, slab>>
  <2>1. IsChain(node, pl, pool) /\ Len(pl) # 0
    BY <1>2, <1>3 DEF Chained, IsChain, Starts
  <2>2. IsChain(node, Without(pl, 1), node[pool].next) /\ pool \in In(pl) /\ pl[1] = pool
    BY <2>1, ChainPop
  <2>3. In(Without(pl, 1)) = In(pl) \ {pool}
    <3>1. 1 \in 1 .. Len(pl)
      BY <2>1, ChainParts
    <3>. QED
      BY <2>1, <2>2, <3>1, WithoutIs
  <2>4. pool \in 1 .. Len(node) /\ pool \notin All(ch)
    BY <1>2, <2>2, AllIs DEF Chained
  <2>5. PICK p2 : p2 = Without(pl, 1)
    OBVIOUS
  <2>6. NodesTyped'
    BY <1>0, <1>2, <1>3 DEF NodesTyped
  <2>7. WorkTyped' /\ Phase'
    BY <1>0, <1>2, <1>3, <2>4 DEF WorkTyped, Phase, Work, Held, Top
  <2>8. Chained(ch, p2)'
    BY <1>0, <1>2, <1>3, <2>2, <2>3, <2>5 DEF Chained, Keys, Top
  <2>9. InHand(ch, p2)'
    BY <1>2, <1>3, <2>3, <2>4, <2>5, NodeIs DEF InHand, Held, WorkTyped
  <2>10. Entries(ch)' /\ Alone(ch)' /\ Counted(ch)' /\ Leaving(ch)'
    BY <1>0, <1>1, <1>2, <1>3 DEF Indexed, Entries, Owned, Sound, Alone, Counted, Leaving,
                                  Leaves, WorkTyped
  <2>11. Indexed(ch, p2)'
    BY <2>8, <2>9, <2>10 DEF Indexed
  <2>. QED
    BY <2>6, <2>7, <2>11 DEF MapInv
<1>4. CASE /\ pool = 0 /\ Len(node) < MaxNode /\ node' = Append(node, Fresh)
           /\ job' = [job EXCEPT !.n = Len(node) + 1]
           /\ wpc' = "base" /\ UNCHANGED <<pool, live, slab>>
  <2>. DEFINE L == Len(node)
  <2>1. Fresh \in NodeFields /\ Fresh.next = 0
    BY DEF Fresh, NodeFields
  <2>2. L \in Nat /\ DOMAIN node = 1 .. L /\ node \in Seq(NodeFields)
    BY <1>2, NodeIs DEF NodesTyped
  <2>3. /\ node' \in Seq(NodeFields) /\ Len(node') = L + 1 /\ DOMAIN node' = 1 .. L + 1
        /\ \A n \in 1 .. L : node'[n] = node[n]
        /\ node'[L + 1] = Fresh
    BY <1>4, <2>1, <2>2
  <2>. HIDE DEF L
  <2>4. NodesTyped'
    <3>1. L + 1 <= MaxNode
      BY <1>4, <2>2, SizeAssumption DEF L
    <3>2. \A n \in 1 .. L + 1 : node'[n].next \in 0 .. L + 1
      <4>. SUFFICES ASSUME NEW n \in 1 .. L + 1 PROVE node'[n].next \in 0 .. L + 1
        OBVIOUS
      <4>1. CASE n = L + 1
        BY <2>1, <2>2, <2>3, <4>1
      <4>2. CASE n # L + 1
        <5>1. n \in 1 .. L
          BY <2>2, <4>2
        <5>2. node[n].next \in 0 .. L
          BY <1>2, <5>1 DEF NodesTyped, L
        <5>. QED
          BY <2>2, <2>3, <5>1, <5>2
      <4>. QED
        BY <4>1, <4>2
    <3>3. \A t \in 1 .. Len(heads) : heads[t] \in [0 .. Cap[t] - 1 -> 0 .. L + 1]
      <4>1. \A x \in 0 .. L : x \in 0 .. L + 1
        BY <2>2
      <4>2. \A t \in 1 .. Len(heads) : heads[t] \in [0 .. Cap[t] - 1 -> 0 .. L]
        BY <1>2 DEF NodesTyped, L
      <4>. QED
        BY <4>1, <4>2
    <3>. QED
      BY <1>0, <1>2, <2>3, <3>1, <3>2, <3>3 DEF NodesTyped
  <2>5. WorkTyped' /\ Phase'
    BY <1>0, <1>2, <1>4, <2>2 DEF WorkTyped, Phase, Work, Held, Top, L
  <2>6. \A n \in All(ch) \union In(pl) : n \in 1 .. L /\ node'[n] = node[n]
    BY <1>2, <2>3, AllIs DEF L
  <2>7. Chained(ch, pl)'
    <3>1. ASSUME NEW s, NEW n, IsChain(node, s, n), In(s) \subseteq All(ch) \union In(pl)
          PROVE  IsChain(node', s, n)
      <4>1. DOMAIN node \subseteq DOMAIN node'
        BY <2>2, <2>3
      <4>. QED
        BY <2>6, <3>1, <4>1, ChainKept
    <3>2. \A j \in Keys : In(ch[j]) \subseteq All(ch)
      BY <1>2, AllIs
    <3>3. \A j \in Keys : /\ IsChain(node', ch[j], heads[Top][j])
                          /\ \A n \in In(ch[j]) : Key(node'[n].page, Top) = j
      BY <1>2, <2>6, <3>1, <3>2 DEF Chained
    <3>4. IsChain(node', pl, pool)
      BY <1>2, <3>1 DEF Chained
    <3>. QED
      BY <1>0, <1>2, <1>4, <3>3, <3>4 DEF Chained, Keys, Top
  <2>8. InHand(ch, pl)'
    <3>1. L + 1 \notin All(ch) /\ L + 1 \notin In(pl) /\ L + 1 \in DOMAIN node'
      BY <2>2, <2>3, <2>6
    <3>. QED
      BY <1>2, <1>4, <3>1 DEF InHand, Held, WorkTyped, L
  <2>9. Entries(ch)' /\ Alone(ch)' /\ Counted(ch)' /\ Leaving(ch)'
    BY <1>0, <1>1, <1>2, <1>4, <2>6 DEF Indexed, Entries, Owned, Sound, Alone, Counted,
                                  Leaving, Leaves, WorkTyped
  <2>10. Indexed(ch, pl)'
    BY <2>7, <2>8, <2>9 DEF Indexed
  <2>. QED
    BY <2>4, <2>5, <2>10 DEF MapInv
<1>5. CASE Inserted /\ UNCHANGED <<node, pool>>
  BY <1>0, <1>5, InsertAsIs
<1>. QED
  BY <1>3, <1>4, <1>5 DEF GetNode

LEMMA FieldsMap ==
  ASSUME MapInv, SetBase \/ SetEnd \/ SetBucket \/ SetNext
  PROVE  MapInv'
<1>1. PICK ch, pl : Indexed(ch, pl)
  BY DEF MapInv
<1>2. wpc \in Held \ {"put"}
  BY DEF SetBase, SetEnd, SetBucket, SetNext, SetField, Held
<1>3. job.n \in 1 .. Len(node) /\ InHand(ch, pl) /\ NodesTyped
  BY <1>1, <1>2, NodeIs DEF Indexed, InHand, MapInv
<1>. DEFINE r == node[job.n]
<1>4. r \in NodeFields /\ r.next \in 0 .. Len(node) /\ Len(node) \in Nat
  BY <1>3, NodeIs, SMTT(30)
<1>5. /\ tab = Top /\ mask = Top /\ slab.c \in Base /\ slab.c \in Nat
      /\ slab.b \in Bucket /\ Size[slab.b] \in Nat /\ job.page \in Nat /\ Top > 0 /\ Top \in Nat
  BY <1>2, NodeIs, SizeAssumption DEF MapInv, Phase, WorkTyped, Held, Top
<1>. HIDE DEF r
<1>6. CASE SetBase
  <2>1. [r EXCEPT !.base = slab.c] \in NodeFields /\ [r EXCEPT !.base = slab.c].base = slab.c
        /\ [r EXCEPT !.base = slab.c].next = r.next
    BY <1>4, <1>5 DEF NodeFields
  <2>. QED
    BY <1>4, <1>6, <2>1, SetFieldMaps DEF SetBase, Held, r
<1>7. CASE SetEnd
  <2>. DEFINE q == [r EXCEPT !.end = slab.c + Size[slab.b]]
  <2>1. q \in NodeFields /\ q.base = r.base /\ q.next = r.next /\ q.end = slab.c + Size[slab.b]
    BY <1>4, <1>5 DEF NodeFields
  <2>2. r.base = slab.c /\ SetField("end", "bucket", q)
    BY <1>3, <1>7 DEF InHand, Held, SetEnd, SetField, r
  <2>. HIDE DEF q
  <2>. QED
    BY <1>4, <2>1, <2>2, SetFieldMaps DEF Held
<1>8. CASE SetBucket
  <2>. DEFINE q == [r EXCEPT !.page = job.page, !.bucket = slab.b]
  <2>1. q \in NodeFields /\ q.base = r.base /\ q.next = r.next /\ q.end = r.end
        /\ q.page = job.page /\ q.bucket = slab.b
    BY <1>4, <1>5 DEF NodeFields
  <2>2. r.base = slab.c /\ r.end = slab.c + Size[slab.b] /\ SetField("bucket", "next", q)
    BY <1>3, <1>8 DEF InHand, Held, SetBucket, SetField, r
  <2>. HIDE DEF q
  <2>. QED
    BY <1>4, <2>1, <2>2, SetFieldMaps DEF Held
<1>9. CASE SetNext
  <2>. DEFINE h == heads[tab][Key(job.page, mask)]
              q == [r EXCEPT !.next = h]
  <2>1. h = heads[Top][Key(job.page, Top)] /\ h \in 0 .. Len(node)
    <3>1. Key(job.page, Top) \in 0 .. Cap[Top] - 1
      BY <1>5, KeyIn
    <3>2. Top \in 1 .. Len(heads)
      BY <1>5 DEF Top
    <3>3. heads[Top] \in [0 .. Cap[Top] - 1 -> 0 .. Len(node)]
      BY <1>3, <3>2 DEF NodesTyped
    <3>. QED
      BY <1>5, <3>1, <3>3
  <2>. HIDE DEF h
  <2>2. q \in NodeFields /\ q.base = r.base /\ q.next = h /\ q.end = r.end
        /\ q.page = r.page /\ q.bucket = r.bucket
    BY <1>4, <1>5, <2>1, SMTT(30) DEF NodeFields
  <2>3. r.base = slab.c /\ r.end = slab.c + Size[slab.b]
        /\ r.page = job.page /\ r.bucket = slab.b /\ SetField("next", "link", q)
    BY <1>3, <1>9 DEF InHand, Held, SetNext, SetField, r, h
  <2>. HIDE DEF q
  <2>. QED
    BY <1>4, <2>1, <2>2, <2>3, SetFieldMaps DEF Held
<1>. QED
  BY <1>6, <1>7, <1>8, <1>9

-----------------------------------------------------------------------------
(* A node is linked into its chain.                                        *)

(* The chain the owner works on.                                           *)
LEMMA KeyIs ==
  ASSUME MapInv, wpc \in Held \union {"unlink"}, Top > 0
  PROVE  /\ tab = Top /\ mask = Top /\ Top \in Nat /\ Key(job.page, Top) \in Keys
         /\ Top \in 1 .. Len(heads) /\ job.page \in Nat
         /\ heads[Top] \in [Keys -> 0 .. Len(node)] /\ slab.c \in Base /\ slab.b \in Bucket
<1>1. /\ tab = Top /\ mask = Top /\ job.page \in Nat /\ Top \in Nat
      /\ slab.c \in Base /\ slab.b \in Bucket
  BY NodeIs DEF MapInv, Phase, Held, WorkTyped, Top
<1>2. Key(job.page, Top) \in Keys
  BY <1>1, KeyIn DEF Keys
<1>3. Top \in 1 .. Len(heads)
  BY <1>1 DEF Top
<1>4. heads[Top] \in [Keys -> 0 .. Len(node)]
  BY <1>3 DEF MapInv, NodesTyped, Keys
<1>. QED
  BY <1>1, <1>2, <1>3, <1>4

(* Another first node of one chain of the newest table.                    *)
LEMMA HeadStored ==
  ASSUME NodesTyped, Top > 0, NEW j \in Keys, NEW m \in 0 .. Len(node),
         heads' = [heads EXCEPT ![Top][j] = m], Len(node') = Len(node)
  PROVE  /\ heads' \in Seq(Tables) /\ Top' = Top /\ Keys' = Keys
         /\ \A k \in Keys : heads'[Top][k] = IF k = j THEN m ELSE heads[Top][k]
         /\ \A t \in 1 .. Len(heads') : heads'[t] \in [0 .. Cap[t] - 1 -> 0 .. Len(node')]
<1>0. Len(heads) \in Nat /\ Top \in 1 .. Len(heads) /\ heads \in Seq(Tables) /\ Top \in Nat
  BY NodeIs DEF Top, NodesTyped
<1>. DEFINE h == [heads[Top] EXCEPT ![j] = m]
<1>1. heads' = [heads EXCEPT ![Top] = h]
  OBVIOUS
<1>2. heads[Top] \in [Keys -> 0 .. Len(node)]
  BY <1>0 DEF NodesTyped, Keys
<1>3. h \in [Keys -> 0 .. Len(node)] /\ \A k \in Keys : h[k] = IF k = j THEN m ELSE heads[Top][k]
  BY <1>2
<1>4. h \in Tables
  <2>1. h \in [0 .. Cap[Top] - 1 -> Nat]
    BY <1>3, NodeIs DEF Keys
  <2>. QED
    BY <1>0, <2>1 DEF Tables
<1>. HIDE DEF h
<1>5. /\ heads' \in Seq(Tables) /\ Len(heads') = Len(heads)
      /\ \A t \in 1 .. Len(heads) : heads'[t] = IF t = Top THEN h ELSE heads[t]
  BY <1>0, <1>1, <1>4, ExceptSeq
<1>6. Top' = Top /\ Keys' = Keys
  BY <1>5 DEF Top, Keys
<1>7. \A t \in 1 .. Len(heads') : heads'[t] \in [0 .. Cap[t] - 1 -> 0 .. Len(node')]
  BY <1>3, <1>5 DEF NodesTyped, Keys
<1>. QED
  BY <1>0, <1>3, <1>5, <1>6, <1>7

LEMMA LinkMaps ==
  ASSUME MapInv, Link
  PROVE  MapInv'
<1>. DEFINE j == Key(job.page, Top)
            m == job.n
<1>0. wpc = "link" /\ used' = used + 1 /\ Inserted /\ UNCHANGED <<tab, mask, node, pool>>
  BY DEF Link
<1>1. NodesTyped /\ WorkTyped /\ Phase /\ Top > 0 /\ wpc \in Held /\ used \in Nat
  BY <1>0 DEF MapInv, Phase, Held, WorkTyped
<1>2. /\ tab = Top /\ mask = Top /\ Top \in Nat /\ j \in Keys /\ Top \in 1 .. Len(heads)
      /\ job.page \in Nat /\ slab.c \in Base /\ slab.b \in Bucket
  BY <1>1, KeyIs
<1>3. PICK ch, pl : Indexed(ch, pl)
  BY DEF MapInv
<1>4. /\ m \in DOMAIN node /\ m \notin All(ch) /\ m \notin In(pl)
      /\ node[m].base = slab.c /\ node[m].end = slab.c + Size[slab.b]
      /\ node[m].page = job.page /\ node[m].bucket = slab.b
      /\ node[m].next = heads[Top][j]
  BY <1>0, <1>3 DEF Indexed, InHand, Held
<1>5. Chained(ch, pl) /\ Len(node) \in Nat /\ DOMAIN node = 1 .. Len(node)
  BY <1>1, <1>3, NodeIs DEF Indexed
<1>6. heads' = [heads EXCEPT ![Top][j] = m]
  BY <1>2 DEF Link
<1>7. /\ heads' \in Seq(Tables) /\ Top' = Top /\ Keys' = Keys
      /\ \A k \in Keys : heads'[Top][k] = IF k = j THEN m ELSE heads[Top][k]
      /\ \A t \in 1 .. Len(heads') : heads'[t] \in [0 .. Cap[t] - 1 -> 0 .. Len(node')]
  <2>1. m \in 0 .. Len(node) /\ Len(node') = Len(node)
    BY <1>0, <1>4, <1>5
  <2>. HIDE DEF j, m
  <2>. QED
    BY <1>1, <1>2, <1>6, <2>1, HeadStored
<1>8. NodesTyped'
  BY <1>0, <1>1, <1>7 DEF NodesTyped, Top
<1>9. PICK c2 : c2 = [ch EXCEPT ![j] = <<m>> \o ch[j]]
  OBVIOUS
<1>10. m \notin In(ch[j])
  BY <1>1, <1>2, <1>4, <1>5, AllIs
<1>11. IsChain(node, <<m>> \o ch[j], m) /\ In(<<m>> \o ch[j]) = In(ch[j]) \union {m}
  <2>1. IsChain(node, ch[j], heads[Top][j])
    BY <1>2, <1>5 DEF Chained
  <2>2. m \in DOMAIN node /\ m \notin In(ch[j]) /\ node[m].next = heads[Top][j]
    BY <1>4, <1>10
  <2>. HIDE DEF j, m
  <2>. QED
    BY ONLY <2>1, <2>2, ChainPush
<1>12. /\ c2 = [k \in Keys |-> c2[k]]
       /\ \A k \in Keys : c2[k] = IF k = j THEN <<m>> \o ch[j] ELSE ch[k]
  BY <1>2, <1>5, <1>9 DEF Chained
<1>13. \A k \in Keys : In(c2[k]) = IF k = j THEN In(ch[j]) \union {m} ELSE In(ch[k])
  BY <1>11, <1>12
<1>14. All(c2) = All(ch) \union {m}
  <2>1. DOMAIN c2 = Keys
    BY <1>12
  <2>2. \A n : n \in All(c2) <=> \E k \in Keys : n \in In(c2[k])
    BY <2>1 DEF All
  <2>3. \A n : n \in All(ch) <=> \E k \in Keys : n \in In(ch[k])
    BY <1>1, <1>5, AllIs
  <2>4. \A n : n \in All(c2) <=> n \in All(ch) \union {m}
    BY <1>2, <1>13, <2>2, <2>3
  <2>. QED
    BY <2>4
<1>. HIDE DEF j, m
<1>15. Chained(c2, pl)'
  <2>1. \A k \in Keys : IsChain(node, c2[k], heads'[Top][k])
    BY <1>5, <1>7, <1>11, <1>12 DEF Chained
  <2>2. \A k \in Keys : \A n \in In(c2[k]) : Key(node[n].page, Top) = k
    <3>1. \A k \in Keys : \A n \in In(ch[k]) : Key(node[n].page, Top) = k
      BY <1>5 DEF Chained
    <3>2. Key(node[m].page, Top) = j
      BY <1>4 DEF j
    <3>. QED
      BY <1>13, <3>1, <3>2
  <2>3. All(c2) \cap In(pl) = {} /\ IsChain(node, pl, pool)
    BY <1>4, <1>5, <1>14 DEF Chained
  <2>4. \A k \in Keys' : IsChain(node', c2[k], heads'[Top'][k])
                         /\ \A n \in In(c2[k]) : Key(node'[n].page, Top') = k
    BY <1>0, <1>7, <2>1, <2>2
  <2>5. c2 = [k \in Keys' |-> c2[k]] /\ IsChain(node', pl, pool')
    BY <1>0, <1>7, <1>12, <2>3
  <2>. QED
    BY <2>3, <2>4, <2>5 DEF Chained
<1>16. \A n \in All(ch) : Sound(node[n]) /\ (IF node[n].base = slab.c
               THEN node[n].bucket = slab.b /\ node[n].page < job.page
               ELSE live[node[n].base] = node[n].bucket)
  BY <1>0, <1>3 DEF Indexed, Entries, Owned, Leaves
<1>17. Alone(c2)'
  <2>1. \A n \in All(ch) : node[n].base = slab.c => node[n].page # job.page
    <3>1. \A n \in All(ch) : node[n].page \in Nat
      BY <1>16, PagesAre DEF Sound
    <3>. QED
      BY <1>2, <1>16, <3>1
  <2>2. \A n, q \in All(ch) : node[n].page = node[q].page /\ node[n].base = node[q].base => n = q
    BY <1>3 DEF Indexed, Alone
  <2>. QED
    BY <1>0, <1>4, <1>14, <2>1, <2>2 DEF Alone
<1>18. ASSUME NEW n \in All(c2)
       PROVE  /\ Sound(node'[n])
              /\ IF node'[n].base = slab.c
                   THEN node'[n].bucket = slab.b /\ node'[n].page <= job.page
                   ELSE live[node'[n].base] = node'[n].bucket
  <2>1. CASE n = m
    <3>1. job.page \in Pages(slab.c, slab.b)
      BY <1>0 DEF MapInv, Phase
    <3>. QED
      BY <1>0, <1>2, <1>4, <2>1, <3>1 DEF Sound
  <2>2. CASE n # m
    <3>1. n \in All(ch)
      BY <1>14, <2>2
    <3>2. node[n].page \in Nat
      BY <1>16, <3>1, PagesAre DEF Sound
    <3>3. node[n].page < job.page => node[n].page <= job.page
      BY <1>2, <3>2
    <3>. QED
      BY <1>0, <1>16, <3>1, <3>3
  <2>. QED
    BY <2>1, <2>2
<1>19. used' = Cardinality(All(c2)) /\ used' \in Nat
  <2>1. IsFiniteSet(All(ch)) /\ Cardinality(All(ch)) \in Nat
    BY <1>1, <1>5, AllIs
  <2>2. Cardinality(All(c2)) = Cardinality(All(ch)) + 1
    BY <1>4, <1>14, <2>1, FS_AddElement
  <2>3. used = Cardinality(All(ch)) + 0
    BY <1>0, <1>3 DEF Indexed, Counted
  <2>. QED
    BY <1>0, <2>1, <2>2, <2>3
<1>20. WorkTyped' /\ Phase'
  <2>1. NextPage("grow", slab.b)
    BY <1>0 DEF Inserted
  <2>2. slab.b \in Bucket \union {NoBucket} /\ "grow" \in {"grow", "unlink"} /\ wpc # "idle"
    BY <1>0, <1>2
  <2>. QED
    BY <1>0, <1>1, <1>2, <1>7, <1>19, <2>1, <2>2, WorkGoesOn
<1>21. Indexed(c2, pl)'
  BY <1>0, <1>1, <1>15, <1>17, <1>18, <1>19, InsertEnds
<1>. QED
  BY <1>8, <1>20, <1>21 DEF MapInv

-----------------------------------------------------------------------------
(* A node is taken out of its chain, and retired.                          *)

(* Under the lock the walk of a list finds its chain.                      *)
LEMMA HereIs ==
  ASSUME MapInv, wpc = "unlink", NEW ch, NEW pl, Chained(ch, pl)
  PROVE  /\ Top = 0 => Here = <<>> /\ Keys = {}
         /\ Top > 0 => Here = ch[Key(job.page, Top)] /\ Key(job.page, Top) \in Keys
         /\ Top \in Nat
<1>1. tab = Top /\ mask = Top /\ Top \in Nat
  BY NodeIs DEF MapInv, Phase, Top
<1>2. CASE Top = 0
  <2>1. Keys = {}
    BY <1>2, CapIs DEF Keys
  <2>. QED
    BY <1>1, <1>2, <2>1 DEF Here
<1>3. CASE Top > 0
  <2>1. Key(job.page, Top) \in Keys
    BY <1>3, KeyIs
  <2>2. IsChain(node, ch[Key(job.page, Top)], heads[Top][Key(job.page, Top)])
    BY <2>1 DEF Chained
  <2>3. Chain(heads[Top][Key(job.page, Top)]) = ch[Key(job.page, Top)]
    BY <2>2, NodeIs, ChainIs DEF MapInv
  <2>. QED
    BY <1>1, <1>3, <2>1, <2>3 DEF Here
<1>. QED
  BY <1>1, <1>2, <1>3

(* The pages whose chain DestroySlab has still to look into are finite,    *)
(* and the present one is among them.                                      *)
LEMMA DueIs ==
  ASSUME MapInv, wpc = "unlink", NEW k
  PROVE  /\ IsFiniteSet(Due(slab, "unlink", job, Top, k))
         /\ Due(slab, "put", job, Top, k) = Due(slab, "unlink", job, Top, k) \ {job.page}
         /\ job.page \in Due(slab, "unlink", job, Top, k) <=> Key(job.page, Top) = k
<1>1. slab.c \in Base /\ slab.b \in Bucket /\ job.page \in Pages(slab.c, slab.b)
  BY DEF MapInv, Phase
<1>2. IsFiniteSet(Pages(slab.c, slab.b)) /\ Pages(slab.c, slab.b) \subseteq Nat
  BY <1>1, PagesAre
<1>3. Due(slab, "unlink", job, Top, k) \in SUBSET Pages(slab.c, slab.b)
  BY DEF Due
<1>4. IsFiniteSet(Due(slab, "unlink", job, Top, k))
  BY <1>2, <1>3, FS_Subset
<1>5. \A p \in Pages(slab.c, slab.b) : p > job.page => p # job.page
  BY <1>1, <1>2
<1>. QED
  BY <1>1, <1>4, <1>5 DEF Due

LEMMA NotIndexedMaps ==
  ASSUME MapInv, NotIndexed
  PROVE  MapInv'
<1>0. wpc = "unlink" /\ Removed /\ UNCHANGED <<tab, mask, heads, node, pool, used>>
  BY DEF NotIndexed, table, nodes
<1>1. NodesTyped' /\ NodesTyped /\ WorkTyped /\ Phase /\ used' = used
  BY <1>0 DEF MapInv, NodesTyped
<1>2. tab = Top /\ mask = Top /\ Top' = Top /\ wpc # "idle"
  BY <1>0 DEF MapInv, Phase, Top
<1>3. PICK ch, pl : Indexed(ch, pl)
  BY DEF MapInv
<1>4. /\ Chained(ch, pl)' /\ Alone(ch)' /\ used = Cardinality(All(ch)) /\ Chained(ch, pl)
      /\ used \in Nat /\ IsFiniteSet(All(ch)) /\ DOMAIN ch = Keys
  <2>1. used = Cardinality(All(ch)) + 0
    BY <1>0, <1>3 DEF Indexed, Counted
  <2>. QED
    BY <1>0, <1>1, <1>3, <2>1, AllIs, ChainedKept DEF Indexed, Alone, Counted
<1>5. \A n \in All(ch) :
        /\ Sound(node'[n])
        /\ IF node'[n].base = slab.c THEN node'[n].bucket = slab.b
                                     ELSE live[node'[n].base] = node'[n].bucket
  BY <1>0, <1>3 DEF Indexed, Entries, Owned, Leaves
<1>6. ASSUME NEW k \in DOMAIN ch
      PROVE  Cardinality(Mine(node', ch[k], slab.c)) <= Cardinality(Due(slab, "put", job, Top, k))
  <2>1. Cardinality(Mine(node, ch[k], slab.c)) <= Cardinality(Due(slab, "unlink", job, Top, k))
    BY <1>0, <1>3 DEF Indexed, Leaving, Leaves
  <2>2. CASE Key(job.page, Top) = k
    <3>1. Top > 0
      BY <1>0, <1>4, HereIs
    <3>2. Here = ch[k]
      BY <1>0, <1>4, <2>2, <3>1, HereIs
    <3>3. DOMAIN ch[k] = 1 .. Len(ch[k])
      BY <1>4, SeqIs DEF Chained, IsChain
    <3>4. Mine(node, ch[k], slab.c) = {}
      BY <3>2, <3>3 DEF NotIndexed, Mine, In
    <3>5. IsFiniteSet(Due(slab, "put", job, Top, k))
      <4>1. Due(slab, "put", job, Top, k) \in SUBSET Due(slab, "unlink", job, Top, k)
        BY <1>0, DueIs
      <4>. QED
        BY <1>0, <4>1, DueIs, FS_Subset
    <3>6. Cardinality(Due(slab, "put", job, Top, k)) \in Nat
      BY <3>5, FS_CardinalityType
    <3>. QED
      BY <1>0, <3>4, <3>6, FS_EmptySet
  <2>3. CASE Key(job.page, Top) # k
    <3>1. Due(slab, "put", job, Top, k) = Due(slab, "unlink", job, Top, k)
      BY <1>0, <2>3, DueIs
    <3>. QED
      BY <1>0, <2>1, <3>1
  <2>. QED
    BY <2>2, <2>3
<1>7. WorkTyped' /\ Phase'
  <2>1. NextPage("unlink", NoBucket) /\ used' \in Nat
    BY <1>0, <1>4 DEF Removed
  <2>2. NoBucket \in Bucket \union {NoBucket} /\ "unlink" \in {"grow", "unlink"}
    OBVIOUS
  <2>. QED
    BY <1>0, <1>1, <1>2, <2>1, <2>2, WorkGoesOn
<1>8. Indexed(ch, pl)'
  BY <1>0, <1>1, <1>2, <1>4, <1>5, <1>6, RemoveEnds
<1>. QED
  BY <1>1, <1>7, <1>8 DEF MapInv

LEMMA PutNodeMaps ==
  ASSUME MapInv, PutNode
  PROVE  MapInv'
<1>. DEFINE m == job.n
<1>0. /\ wpc = "put" /\ Removed /\ UNCHANGED <<tab, mask, heads>>
      /\ node' = [node EXCEPT ![m].next = pool] /\ pool' = m /\ used' = used - 1
  BY DEF PutNode, table
<1>1. NodesTyped /\ WorkTyped /\ Phase
  BY DEF MapInv
<1>2. tab = Top /\ mask = Top /\ Top' = Top /\ wpc # "idle" /\ Keys' = Keys
  BY <1>0 DEF MapInv, Phase, Top, Keys
<1>3. PICK ch, pl : Indexed(ch, pl)
  BY DEF MapInv
<1>4. Chained(ch, pl) /\ Alone(ch)
  BY <1>3 DEF Indexed
<1>5. m \in DOMAIN node /\ m \notin All(ch) /\ m \notin In(pl)
  BY <1>0, <1>3 DEF Indexed, InHand, Held
<1>6. /\ Len(node) \in Nat /\ DOMAIN node = 1 .. Len(node) /\ node \in Seq(NodeFields)
      /\ pool \in 0 .. Len(node) /\ node[m] \in NodeFields
  <2>1. pool \in 0 .. Len(node)
    <3>1. IsChain(node, pl, pool)
      BY <1>4 DEF Chained
    <3>2. pool = 0 \/ pool \in DOMAIN node
      BY <3>1, ChainParts DEF IsChain, Starts
    <3>. QED
      BY <1>1, <3>2, NodeIs
  <2>. QED
    BY <1>1, <1>5, <2>1, NodeIs DEF NodesTyped
<1>. DEFINE r == [node[m] EXCEPT !.next = pool]
<1>7. node' = [node EXCEPT ![m] = r] /\ r \in NodeFields /\ r.next = pool
  <2>1. node' = [node EXCEPT ![m] = r]
    BY <1>0
  <2>2. pool \in Nat
    BY <1>6
  <2>. HIDE DEF m
  <2>3. r \in NodeFields /\ r.next = pool
    BY <1>6, <2>2 DEF NodeFields
  <2>. QED
    BY <2>1, <2>3
<1>. HIDE DEF r, m
<1>8. /\ node' \in Seq(NodeFields) /\ Len(node') = Len(node) /\ DOMAIN node' = DOMAIN node
      /\ \A n \in DOMAIN node : node'[n] = IF n = m THEN r ELSE node[n]
  BY <1>5, <1>6, <1>7, ExceptSeq, SeqIs
<1>9. NodesTyped'
  BY <1>0, <1>1, <1>6, <1>7, <1>8 DEF NodesTyped
<1>10. \A n \in All(ch) \union In(pl) : n \in DOMAIN node /\ node'[n] = node[n]
  BY <1>1, <1>4, <1>5, <1>8, AllIs, NodeIs
<1>11. PICK p2 : p2 = <<m>> \o pl
  OBVIOUS
<1>12. ASSUME NEW s, NEW n, IsChain(node, s, n), In(s) \subseteq All(ch) \union In(pl)
       PROVE  IsChain(node', s, n)
  BY <1>8, <1>10, <1>12, ChainKept
<1>13. IsChain(node', p2, m) /\ In(p2) = In(pl) \union {m}
  <2>1. IsChain(node', pl, pool)
    BY <1>4, <1>12 DEF Chained
  <2>2. node'[m].next = pool /\ m \in DOMAIN node'
    BY <1>5, <1>7, <1>8
  <2>. QED
    BY <1>5, <1>11, <2>1, <2>2, ChainPush
<1>14. Chained(ch, p2)'
  <2>1. \A j \in Keys : In(ch[j]) \subseteq All(ch)
    BY <1>1, <1>4, AllIs
  <2>2. \A j \in Keys : /\ IsChain(node', ch[j], heads[Top][j])
                        /\ \A n \in In(ch[j]) : Key(node'[n].page, Top) = j
    BY <1>4, <1>10, <1>12, <2>1 DEF Chained
  <2>3. All(ch) \cap In(p2) = {} /\ ch = [j \in Keys' |-> ch[j]]
    BY <1>2, <1>4, <1>5, <1>13 DEF Chained
  <2>4. \A j \in Keys' : /\ IsChain(node', ch[j], heads'[Top'][j])
                         /\ \A n \in In(ch[j]) : Key(node'[n].page, Top') = j
    BY <1>0, <1>2, <2>2
  <2>5. IsChain(node', p2, pool')
    BY <1>0, <1>13 DEF m
  <2>. QED
    BY <2>3, <2>4, <2>5 DEF Chained
<1>15. /\ Alone(ch)' /\ used' = Cardinality(All(ch)) /\ used' \in Nat
       /\ IsFiniteSet(All(ch)) /\ DOMAIN ch = Keys
  <2>1. used = Cardinality(All(ch)) + 1 /\ Cardinality(All(ch)) \in Nat
    BY <1>0, <1>1, <1>3, <1>4, AllIs DEF Indexed, Counted
  <2>2. used' = Cardinality(All(ch))
    BY <1>0, <2>1
  <2>. QED
    BY <1>1, <1>4, <1>10, <2>1, <2>2, AllIs DEF Alone
<1>16. \A n \in All(ch) :
        /\ Sound(node'[n])
        /\ IF node'[n].base = slab.c THEN node'[n].bucket = slab.b
                                     ELSE live[node'[n].base] = node'[n].bucket
  BY <1>0, <1>3, <1>10 DEF Indexed, Entries, Owned, Leaves
<1>17. ASSUME NEW k \in DOMAIN ch
       PROVE  Cardinality(Mine(node', ch[k], slab.c)) <= Cardinality(Due(slab, "put", job, Top, k))
  <2>1. Cardinality(Mine(node, ch[k], slab.c)) <= Cardinality(Due(slab, "put", job, Top, k))
    BY <1>0, <1>3 DEF Indexed, Leaving, Leaves
  <2>2. Mine(node', ch[k], slab.c) = Mine(node, ch[k], slab.c)
    BY <1>10 DEF Mine, All
  <2>. QED
    BY <2>1, <2>2
<1>18. WorkTyped' /\ Phase'
  <2>1. NextPage("unlink", NoBucket) /\ used' \in Nat
    BY <1>0, <1>15 DEF Removed
  <2>2. NoBucket \in Bucket \union {NoBucket} /\ "unlink" \in {"grow", "unlink"}
    OBVIOUS
  <2>. QED
    BY <1>0, <1>1, <1>2, <2>1, <2>2, WorkGoesOn
<1>19. Indexed(ch, p2)'
  BY <1>0, <1>1, <1>2, <1>14, <1>15, <1>16, <1>17, RemoveEnds
<1>. QED
  BY <1>9, <1>18, <1>19 DEF MapInv

LEMMA UnlinkMaps ==
  ASSUME MapInv, NEW k, Unlink(k)
  PROVE  MapInv'
<1>. DEFINE j == Key(job.page, Top)
<1>0. /\ wpc = "unlink" /\ wpc' = "put" /\ k \in DOMAIN Here /\ job' = [job EXCEPT !.n = Here[k]]
      /\ node[Here[k]].base = slab.c
      /\ IF k = 1
           THEN heads' = [heads EXCEPT ![tab][Key(job.page, mask)] = node[Here[1]].next]
                /\ node' = node
           ELSE node' = [node EXCEPT ![Here[k - 1]].next = node[Here[k]].next]
                /\ heads' = heads
      /\ UNCHANGED <<tab, mask, pool, used, live, slab>>
  BY DEF Unlink
<1>1. NodesTyped /\ WorkTyped /\ Phase
  BY DEF MapInv
<1>2. PICK ch, pl : Indexed(ch, pl)
  BY DEF MapInv
<1>3. Chained(ch, pl) /\ Alone(ch) /\ DOMAIN ch = Keys
  BY <1>1, <1>2, AllIs DEF Indexed
<1>4. Top > 0
  <2>1. DOMAIN <<>> = {}
    OBVIOUS
  <2>2. Top # 0
    BY <1>0, <1>3, <2>1, HereIs
  <2>. QED
    BY <1>0, <1>3, <2>2, HereIs
<1>5. /\ tab = Top /\ mask = Top /\ j \in Keys /\ Top \in Nat /\ job.page \in Nat
      /\ slab.c \in Base /\ slab.b \in Bucket
  BY <1>0, <1>4, KeyIs
<1>6. PICK s : s = ch[j]
  OBVIOUS
<1>7. /\ Here = s /\ IsChain(node, s, heads[Top][j]) /\ k \in 1 .. Len(s) /\ Len(s) \in Nat
      /\ \A i \in 1 .. Len(s) : s[i] \in 1 .. Len(node)
  <2>1. Here = s
    BY <1>0, <1>3, <1>4, <1>6, HereIs
  <2>2. IsChain(node, s, heads[Top][j])
    BY <1>3, <1>5, <1>6 DEF Chained
  <2>3. s \in Seq(DOMAIN node)
    BY <2>2 DEF IsChain
  <2>. QED
    BY <1>0, <1>1, <2>1, <2>2, <2>3, SeqIs, NodeIs
<1>8. PICK m : m = s[k]
  OBVIOUS
<1>9. /\ Len(node) \in Nat /\ DOMAIN node = 1 .. Len(node) /\ node \in Seq(NodeFields)
      /\ \A n \in 1 .. Len(node) : node[n] \in NodeFields /\ node[n].next \in 0 .. Len(node)
  BY <1>1, NodeIs DEF NodesTyped
<1>10. m \in In(s) /\ m \in All(ch) /\ m \notin In(pl) /\ m \in 1 .. Len(node)
  <2>1. m \in In(s)
    BY <1>7, <1>8 DEF In
  <2>2. m \in All(ch)
    BY <1>1, <1>3, <1>5, <1>6, <2>1, AllIs
  <2>. QED
    BY <1>3, <1>7, <1>8, <2>1, <2>2 DEF Chained
<1>. HIDE DEF j
<1>11. PICK c2 : c2 = [ch EXCEPT ![j] = Without(s, k)]
  OBVIOUS
<1>12. In(Without(s, k)) = In(s) \ {m}
  BY <1>7, <1>8, WithoutIs
<1>13. /\ c2 = [i \in Keys |-> c2[i]] /\ DOMAIN c2 = Keys
       /\ \A i \in Keys : c2[i] = IF i = j THEN Without(s, k) ELSE ch[i]
  BY <1>3, <1>5, <1>11 DEF Chained
<1>14. \A i \in Keys : In(c2[i]) = In(ch[i]) \ {m}
  <2>1. \A i \in Keys : i # j => m \notin In(ch[i])
    BY <1>1, <1>3, <1>5, <1>6, <1>10, AllIs
  <2>. QED
    BY <1>6, <1>12, <1>13, <2>1
<1>15. All(c2) = All(ch) \ {m}
  <2>1. \A n : n \in All(c2) <=> \E i \in Keys : n \in In(c2[i])
    BY <1>13 DEF All
  <2>2. \A n : n \in All(ch) <=> \E i \in Keys : n \in In(ch[i])
    BY <1>1, <1>3, AllIs
  <2>3. \A n : n \in All(c2) <=> n \in All(ch) /\ n # m
    BY <1>14, <2>1, <2>2
  <2>. QED
    BY <2>3
(* What is left of the chain, and the other chains.                        *)
<1>16. /\ NodesTyped' /\ Top' = Top /\ Keys' = Keys /\ DOMAIN node' = DOMAIN node
       /\ \A n \in 1 .. Len(node) : node'[n] = [node[n] EXCEPT !.next = node'[n].next]
       /\ \A i \in Keys : i # j => heads'[Top][i] = heads[Top][i]
       /\ \A n \in 1 .. Len(node) : n \notin In(s) => node'[n] = node[n]
       /\ IsChain(node', Without(s, k), heads'[Top][j])
  <2>1. CASE k = 1
    <3>1. Len(s) # 0 /\ node' = node
      BY <1>0, <1>7, <2>1
    <3>2. IsChain(node, Without(s, 1), node[heads[Top][j]].next) /\ s[1] = heads[Top][j]
      BY <1>7, <3>1, ChainPop
    <3>3. heads' = [heads EXCEPT ![Top][j] = node[m].next]
      BY <1>0, <1>5, <1>7, <1>8, <2>1 DEF j
    <3>4. node[m].next \in 0 .. Len(node)
      BY <1>9, <1>10
    <3>5. /\ heads' \in Seq(Tables) /\ Top' = Top /\ Keys' = Keys
          /\ \A i \in Keys : heads'[Top][i] = IF i = j THEN node[m].next ELSE heads[Top][i]
          /\ \A t \in 1 .. Len(heads') : heads'[t] \in [0 .. Cap[t] - 1 -> 0 .. Len(node')]
      BY <1>1, <1>4, <1>5, <3>1, <3>3, <3>4, HeadStored
    <3>6. NodesTyped'
      BY <1>1, <3>1, <3>5 DEF NodesTyped, Top
    <3>7. \A n \in 1 .. Len(node) : node[n] = [node[n] EXCEPT !.next = node[n].next]
      BY <1>9 DEF NodeFields
    <3>. QED
      BY <1>5, <1>8, <2>1, <3>1, <3>2, <3>5, <3>6, <3>7
  <2>2. CASE k # 1
    <3>1. k \in 2 .. Len(s) /\ k - 1 \in 1 .. Len(s)
      BY <1>7, <2>2
    <3>2. PICK q : q = s[k - 1]
      OBVIOUS
    <3>3. q \in 1 .. Len(node) /\ q \in In(s)
      BY <1>7, <3>1, <3>2 DEF In
    <3>. DEFINE r == [node[q] EXCEPT !.next = node[m].next]
    <3>4. node' = [node EXCEPT ![q] = r] /\ heads' = heads
      BY <1>0, <1>7, <1>8, <2>2, <3>2
    <3>5. r \in NodeFields /\ r.next = node[m].next
      <4>1. node[q] \in NodeFields /\ node[m].next \in Nat
        BY <1>9, <1>10, <3>3
      <4>. QED
        BY <4>1 DEF NodeFields
    <3>6. \A n \in 1 .. Len(node) : node[n] = [node[n] EXCEPT !.next = node[n].next]
      BY <1>9 DEF NodeFields
    <3>7. r = [node[q] EXCEPT !.next = r.next]
      BY <3>5
    <3>. HIDE DEF r
    <3>8. /\ node' \in Seq(NodeFields) /\ Len(node') = Len(node) /\ DOMAIN node' = DOMAIN node
          /\ \A n \in 1 .. Len(node) : node'[n] = IF n = q THEN r ELSE node[n]
      BY <1>9, <3>3, <3>4, <3>5, ExceptSeq, SeqIs
    <3>9. NodesTyped'
      BY <1>1, <1>9, <1>10, <3>4, <3>5, <3>8 DEF NodesTyped
    <3>10. Top' = Top /\ Keys' = Keys
      BY <3>4 DEF Top, Keys
    <3>11. IsChain(node', Without(s, k), heads[Top][j])
      <4>1. node'[s[k - 1]].next = node[s[k]].next
        BY <1>8, <3>2, <3>3, <3>5, <3>8
      <4>2. \A n \in In(s) : n # s[k - 1] => node'[n].next = node[n].next
        BY <1>7, <3>2, <3>8 DEF In
      <4>. QED
        BY <1>7, <3>1, <3>8, <4>1, <4>2, ChainCut, ZenonT(60)
    <3>12. \A n \in 1 .. Len(node) : node'[n] = [node[n] EXCEPT !.next = node'[n].next]
      BY <3>6, <3>7, <3>8
    <3>13. \A n \in 1 .. Len(node) : n \notin In(s) => node'[n] = node[n]
      BY <3>3, <3>8
    <3>. QED
      BY <3>4, <3>8, <3>9, <3>10, <3>11, <3>12, <3>13
  <2>. QED
    BY <2>1, <2>2
<1>17. \A n \in 1 .. Len(node) :
         /\ node'[n].base = node[n].base /\ node'[n].end = node[n].end
         /\ node'[n].bucket = node[n].bucket /\ node'[n].page = node[n].page
  <2>. SUFFICES ASSUME NEW n \in 1 .. Len(node)
                PROVE  /\ node'[n].base = node[n].base /\ node'[n].end = node[n].end
                       /\ node'[n].bucket = node[n].bucket /\ node'[n].page = node[n].page
    OBVIOUS
  <2>1. node'[n] = [node[n] EXCEPT !.next = node'[n].next] /\ node[n] \in NodeFields
    BY <1>9, <1>16
  <2>. QED
    BY <2>1 DEF NodeFields
<1>18. All(ch) \subseteq 1 .. Len(node) /\ IsFiniteSet(All(ch)) /\ Cardinality(All(ch)) \in Nat
       /\ In(pl) \subseteq 1 .. Len(node) /\ \A i \in Keys : In(ch[i]) \subseteq All(ch)
  BY <1>1, <1>3, AllIs
<1>19. Chained(c2, pl)'
  <2>1. ASSUME NEW u, NEW n, IsChain(node, u, n), In(u) \subseteq 1 .. Len(node),
               In(u) \cap In(s) = {}
        PROVE  IsChain(node', u, n)
    <3>1. \A q \in In(u) : node'[q].next = node[q].next
      BY <1>16, <2>1
    <3>. QED
      BY <1>16, <2>1, <3>1, ChainKept
  <2>2. ASSUME NEW i \in Keys PROVE IsChain(node', c2[i], heads'[Top][i])
    <3>1. CASE i = j
      BY <1>13, <1>16, <3>1
    <3>2. CASE i # j
      <4>1. In(ch[i]) \cap In(s) = {} /\ In(ch[i]) \subseteq 1 .. Len(node)
        BY <1>1, <1>3, <1>5, <1>6, <3>2, AllIs
      <4>2. IsChain(node, ch[i], heads[Top][i])
        BY <1>3 DEF Chained
      <4>3. IsChain(node', ch[i], heads[Top][i])
        BY <2>1, <4>1, <4>2
      <4>. QED
        BY <1>13, <1>16, <3>2, <4>3
    <3>. QED
      BY <3>1, <3>2
  <2>3. IsChain(node', pl, pool')
    <3>1. IsChain(node, pl, pool) /\ In(pl) \cap In(s) = {}
      BY <1>3, <1>5, <1>6, <1>18 DEF Chained
    <3>. QED
      BY <1>0, <1>18, <2>1, <3>1
  <2>4. \A i \in Keys : \A n \in In(c2[i]) : Key(node'[n].page, Top) = i
    <3>1. \A i \in Keys : \A n \in In(ch[i]) : Key(node[n].page, Top) = i /\ n \in 1 .. Len(node)
      BY <1>3, <1>18 DEF Chained
    <3>. QED
      BY <1>14, <1>17, <3>1
  <2>5. All(c2) \cap In(pl) = {}
    BY <1>3, <1>15 DEF Chained
  <2>6. c2 = [i \in Keys' |-> c2[i]]
    BY <1>13, <1>16
  <2>7. \A i \in Keys' : /\ IsChain(node', c2[i], heads'[Top'][i])
                         /\ \A n \in In(c2[i]) : Key(node'[n].page, Top') = i
    BY <1>16, <2>2, <2>4
  <2>. QED
    BY <2>3, <2>5, <2>6, <2>7 DEF Chained
<1>20. job' = [job EXCEPT !.n = m] /\ job'.page = job.page /\ job'.n = m
       /\ job' \in [page : Nat, n : Nat]
  BY <1>0, <1>1, <1>7, <1>8, <1>9, <1>10 DEF WorkTyped
<1>21. WorkTyped' /\ Phase'
  BY <1>0, <1>1, <1>4, <1>5, <1>16, <1>20 DEF WorkTyped, Phase, Work, Held
<1>22. InHand(c2, pl)'
  <2>1. node'[m].base = slab.c
    BY <1>0, <1>7, <1>8, <1>10, <1>17
  <2>. QED
    BY <1>0, <1>9, <1>10, <1>15, <1>16, <1>20, <2>1 DEF InHand, Held
<1>23. Counted(c2)'
  <2>1. Cardinality(All(c2)) = Cardinality(All(ch)) - 1
    BY <1>10, <1>15, <1>18, FS_RemoveElement
  <2>2. used = Cardinality(All(ch)) + 0
    BY <1>0, <1>2 DEF Indexed, Counted
  <2>3. used = Cardinality(All(c2)) + 1
    BY <1>18, <2>1, <2>2
  <2>. QED
    BY <1>0, <2>3 DEF Counted
<1>24. Alone(c2)'
  <2>1. \A n, q \in All(ch) : node[n].page = node[q].page /\ node[n].base = node[q].base => n = q
    BY <1>3 DEF Alone
  <2>. QED
    BY <1>15, <1>17, <1>18, <2>1 DEF Alone
<1>25. Entries(c2)'
  <2>1. ASSUME NEW n \in All(c2)
        PROVE  Sound(node'[n]) /\ Owned(node'[n], wpc', slab', job', live')
    <3>1. n \in All(ch) /\ n \in 1 .. Len(node)
      BY <1>15, <1>18
    <3>2. Sound(node[n]) /\ Owned(node[n], wpc, slab, job, live)
      BY <1>2, <3>1 DEF Indexed, Entries
    <3>. QED
      BY <1>0, <1>17, <3>1, <3>2 DEF Sound, Owned, Leaves
  <2>. QED
    BY <2>1 DEF Entries, Sound
<1>26. Leaving(c2)'
  <2>1. ASSUME NEW i \in Keys
        PROVE  Cardinality(Mine(node', c2[i], slab.c)) <= Cardinality(Due(slab, "put", job, Top, i))
    <3>. DEFINE M == Mine(node, ch[i], slab.c)
                U == Due(slab, "unlink", job, Top, i)
    <3>1. Cardinality(M) <= Cardinality(U)
      BY <1>0, <1>2, <1>3 DEF Indexed, Leaving, Leaves
    <3>2. Mine(node', c2[i], slab.c) = M \ {m}
      <4>1. \A n \in In(ch[i]) : node'[n].base = node[n].base
        BY <1>17, <1>18
      <4>. QED
        BY <1>14, <4>1 DEF Mine
    <3>3. IsFiniteSet(M) /\ IsFiniteSet(U)
      <4>1. M \in SUBSET All(ch)
        BY <1>18 DEF Mine
      <4>. QED
        BY <1>0, <1>18, <4>1, DueIs, FS_Subset
    <3>4. Cardinality(M) \in Nat /\ Cardinality(U) \in Nat
      BY <3>3, FS_CardinalityType
    <3>5. Due(slab, "put", job, Top, i) = U \ {job.page} /\ (job.page \in U <=> i = j)
      BY <1>0, DueIs DEF j
    <3>6. m \in M <=> i = j
      <4>1. m \in In(ch[i]) <=> i = j
        BY <1>1, <1>3, <1>5, <1>6, <1>10, AllIs
      <4>. QED
        BY <1>0, <1>7, <1>8, <4>1 DEF Mine
    <3>. HIDE DEF M, U
    <3>7. Cardinality(M \ {m}) = IF m \in M THEN Cardinality(M) - 1 ELSE Cardinality(M)
      BY <3>3, FS_RemoveElement
    <3>8. Cardinality(U \ {job.page}) = IF job.page \in U THEN Cardinality(U) - 1 ELSE Cardinality(U)
      BY <3>3, FS_RemoveElement
    <3>. QED
      BY <3>1, <3>2, <3>4, <3>5, <3>6, <3>7, <3>8
  <2>2. \A i : Due(slab, "put", job', Top, i) = Due(slab, "put", job, Top, i)
    BY <1>20 DEF Due
  <2>. QED
    BY <1>0, <1>13, <1>16, <2>1, <2>2 DEF Leaving
<1>27. Indexed(c2, pl)'
  BY <1>19, <1>22, <1>23, <1>24, <1>25, <1>26 DEF Indexed
<1>. QED
  BY <1>16, <1>21, <1>27 DEF MapInv

-----------------------------------------------------------------------------
(* The table grows: what is copied.                                        *)

(* Grow copies each node of the chains once.                               *)
LEMMA LinkedIs ==
  ASSUME NodesTyped, tab = Top, NEW ch, NEW pl, Chained(ch, pl)
  PROVE  /\ Linked \in Seq(1 .. Len(node))
         /\ \A i, k \in 1 .. Len(Linked) : Linked[i] = Linked[k] => i = k
         /\ In(Linked) = All(ch) /\ Len(Linked) = Cardinality(All(ch))
         /\ Len(Linked) \in Nat /\ DOMAIN Linked = 1 .. Len(Linked)
         /\ \A i \in 1 .. Len(Linked) : Linked[i] \in 1 .. Len(node) /\ Linked[i] \in All(ch)
<1>. DEFINE q == [k \in 1 .. Cap[Top] |-> ch[k - 1]]
            D == 1 .. Len(node)
<1>1. Len(node) \in Nat /\ DOMAIN node = D /\ Top \in Nat /\ Cap[Top] \in Nat
  BY NodeIs, CapsGrow DEF Top
<1>2. \A k \in 1 .. Cap[Top] : k - 1 \in Keys
  BY <1>1 DEF Keys
<1>3. \A j \in Keys : ch[j] \in Seq(D) /\ IsChain(node, ch[j], heads[Top][j])
  BY <1>1 DEF Chained, IsChain
<1>4. q \in Seq(Seq(D)) /\ Len(q) = Cap[Top] /\ \A k \in 1 .. Cap[Top] : q[k] = ch[k - 1]
  <2>1. \A k \in 1 .. Cap[Top] : ch[k - 1] \in Seq(D)
    BY <1>2, <1>3
  <2>2. q \in [1 .. Cap[Top] -> Seq(D)]
    BY <2>1
  <2>3. \A k \in 1 .. Cap[Top] : q[k] = ch[k - 1]
    OBVIOUS
  <2>. HIDE DEF D, q
  <2>4. q \in Seq(Seq(D)) /\ Len(q) = Cap[Top]
    BY <1>1, <2>2
  <2>. QED
    BY <2>3, <2>4
<1>5. Linked = FlattenSeq(q)
  <2>1. \A k \in 1 .. Cap[Top] : Chain(heads[Top][k - 1]) = ch[k - 1]
    BY <1>1, <1>2, <1>3, NodeIs, ChainIs
  <2>2. [k \in 1 .. Cap[tab] |-> Chain(heads[tab][k - 1])] = q
    BY <2>1
  <2>. HIDE DEF q
  <2>. QED
    BY <2>2 DEF Linked
<1>. HIDE DEF q, D
<1>6. \A k \in 1 .. Len(q) : \A i, l \in 1 .. Len(q[k]) : q[k][i] = q[k][l] => i = l
  BY <1>2, <1>3, <1>4 DEF IsChain
<1>7. \A k, m \in 1 .. Len(q) : k # m => In(q[k]) \cap In(q[m]) = {}
  <2>1. \A k, m \in 1 .. Cap[Top] : k # m => k - 1 # m - 1
    BY <1>1
  <2>2. \A j, l \in Keys : j # l => In(ch[j]) \cap In(ch[l]) = {}
    BY AllIs
  <2>. QED
    BY <1>2, <1>4, <2>1, <2>2, ZenonT(60)
<1>8. /\ Linked \in Seq(D)
      /\ \A i, k \in 1 .. Len(Linked) : Linked[i] = Linked[k] => i = k
      /\ In(Linked) = UNION {In(q[k]) : k \in 1 .. Len(q)}
  <2>1. /\ FlattenSeq(q) \in Seq(D)
        /\ \A i, k \in 1 .. Len(FlattenSeq(q)) : FlattenSeq(q)[i] = FlattenSeq(q)[k] => i = k
        /\ In(FlattenSeq(q)) = UNION {In(q[k]) : k \in 1 .. Len(q)}
    BY <1>4, <1>6, <1>7, FlattenIs, ZenonT(60)
  <2>. QED
    BY <1>5, <2>1
<1>9. In(Linked) = All(ch)
  <2>1. \A n : n \in In(Linked) <=> \E k \in 1 .. Cap[Top] : n \in In(ch[k - 1])
    BY <1>4, <1>8
  <2>2. \A n : n \in All(ch) <=> \E j \in Keys : n \in In(ch[j])
    BY AllIs
  <2>3. \A j \in Keys : j + 1 \in 1 .. Cap[Top] /\ (j + 1) - 1 = j
    BY <1>1 DEF Keys
  <2>4. ASSUME NEW n \in In(Linked) PROVE n \in All(ch)
    BY <1>2, <2>1, <2>2
  <2>5. ASSUME NEW n \in All(ch) PROVE n \in In(Linked)
    <3>1. PICK j \in Keys : n \in In(ch[j])
      BY <2>2
    <3>2. n \in In(ch[(j + 1) - 1])
      BY <2>3, <3>1
    <3>. QED
      BY <2>1, <2>3, <3>2
  <2>. QED
    BY <2>4, <2>5
<1>10. Cardinality(In(Linked)) = Len(Linked)
  BY <1>1, <1>8, ChainLength DEF D
<1>11. Len(Linked) \in Nat /\ DOMAIN Linked = 1 .. Len(Linked)
       /\ \A i \in 1 .. Len(Linked) : Linked[i] \in D
  BY <1>8, SeqIs
<1>12. \A i \in 1 .. Len(Linked) : Linked[i] \in All(ch)
  BY <1>9 DEF In
<1>. QED
  BY <1>8, <1>9, <1>10, <1>11, <1>12 DEF D

(* A set of numbers up to n that is not empty has a greatest one.          *)
LEMMA MaxIs ==
  ASSUME NEW n \in Nat, NEW S \in SUBSET (1 .. n), S # {}
  PROVE  Max(S) \in S /\ \A x \in S : Max(S) >= x
<1>. DEFINE T == {y \in Nat : \A x \in S : x <= y}
<1>1. n \in T
  OBVIOUS
<1>2. PICK u \in T : \A y \in T : u <= y
  <2>1. T \in SUBSET Nat
    OBVIOUS
  <2>. HIDE DEF T
  <2>. QED
    BY <1>1, <2>1, Least
<1>3. u \in S
  <2>. SUFFICES ASSUME u \notin S PROVE FALSE
    OBVIOUS
  <2>1. \A x \in S : x \in Nat /\ x <= u /\ x # u /\ x >= 1
    BY <1>2
  <2>0. u \in Nat /\ u >= 1
    <3>1. PICK x \in S : TRUE
      OBVIOUS
    <3>2. u \in Nat
      BY <1>2
    <3>. QED
      BY <2>1, <3>1, <3>2
  <2>. HIDE DEF T
  <2>2. u - 1 \in Nat /\ \A x \in S : x <= u - 1
    BY <2>0, <2>1
  <2>3. u - 1 \in T
    BY <2>2 DEF T
  <2>4. u <= u - 1
    BY <1>2, <2>3
  <2>. QED
    BY <2>0, <2>4
<1>4. \A x \in S : u >= x
  BY <1>2
<1>. QED
  BY <1>3, <1>4 DEF Max

-----------------------------------------------------------------------------
(* The table grows: where the copies go.                                   *)

(* The copies made so far, in the order of the old nodes, that go to a key *)
(* of the new table, and the one that is the first of its chain.           *)
Copied(old, t, j, x) == {m \in 1 .. x : Key(node[old[m]].page, t) = j}
First(old, t, j, x) ==
  IF Copied(old, t, j, x) = {} THEN 0 ELSE Len(node) + Max(Copied(old, t, j, x))

LEMMA FunctionIsSeq ==
  ASSUME NEW n \in Nat, NEW S, NEW f \in [1 .. n -> S]
  PROVE  f \in Seq(S) /\ Len(f) = n
OBVIOUS

(* The copies, one after the other.                                        *)
LEMMA CopiesAre ==
  ASSUME NodesTyped, NEW old \in Seq(1 .. Len(node)), NEW t,
         node' = node \o Copies(old, t)
  PROVE  LET L == Len(node)  N == Len(old)
         IN  /\ N \in Nat /\ node' \in Seq(NodeFields) /\ Len(node') = L + N
             /\ DOMAIN node' = 1 .. L + N
             /\ \A n \in 1 .. L : node'[n] = node[n]
             /\ \A k \in 1 .. N :
                  /\ node'[L + k].base = node[old[k]].base /\ node'[L + k].end = node[old[k]].end
                  /\ node'[L + k].bucket = node[old[k]].bucket
                  /\ node'[L + k].page = node[old[k]].page
                  /\ node'[L + k].next =
                       First(old, t, Key(node[old[k]].page, t), k - 1)
             /\ \A n \in 1 .. L + N : node'[n].next \in 0 .. L + N
<1>. DEFINE L == Len(node)
            N == Len(old)
            C == Copies(old, t)
            F(k) == First(old, t, Key(node[old[k]].page, t), k - 1)
<1>1. /\ L \in Nat /\ N \in Nat /\ DOMAIN old = 1 .. N /\ \A k \in 1 .. N : old[k] \in 1 .. L
      /\ \A n \in 1 .. L : node[n] \in NodeFields /\ node[n].next \in 0 .. L
      /\ node \in Seq(NodeFields)
  BY SeqIs, NodeIs DEF NodesTyped
<1>2. C = [k \in 1 .. N |-> [node[old[k]] EXCEPT !.next = F(k)]]
  BY <1>1 DEF Copies, First, Copied
<1>3. \A k \in 1 .. N : F(k) \in 0 .. L + N /\ F(k) \in Nat
  <2>. SUFFICES ASSUME NEW k \in 1 .. N PROVE F(k) \in 0 .. L + N /\ F(k) \in Nat
    OBVIOUS
  <2>. DEFINE S == Copied(old, t, Key(node[old[k]].page, t), k - 1)
  <2>1. CASE S = {}
    BY <1>1, <2>1 DEF First
  <2>2. CASE S # {}
    <3>1. k - 1 \in Nat /\ k - 1 <= N /\ S \in SUBSET (1 .. k - 1)
      BY <1>1 DEF Copied
    <3>. HIDE DEF S
    <3>2. Max(S) \in S
      BY <2>2, <3>1, MaxIs
    <3>3. Max(S) \in Nat /\ Max(S) <= N
      <4>1. Max(S) \in 1 .. k - 1
        BY <3>1, <3>2
      <4>. HIDE DEF N
      <4>2. \A z \in 1 .. k - 1 : z \in Nat /\ z <= N
        BY <1>1
      <4>. QED
        BY <4>1, <4>2
    <3>4. F(k) = L + Max(S)
      BY <2>2 DEF First, S
    <3>. QED
      BY <1>1, <3>3, <3>4
  <2>. QED
    BY <2>1, <2>2
<1>. HIDE DEF F, C
<1>4. \A k \in 1 .. N : /\ C[k] \in NodeFields /\ C[k].next = F(k)
                        /\ C[k].base = node[old[k]].base /\ C[k].end = node[old[k]].end
                        /\ C[k].bucket = node[old[k]].bucket /\ C[k].page = node[old[k]].page
  <2>. SUFFICES ASSUME NEW k \in 1 .. N
                PROVE  /\ C[k] \in NodeFields /\ C[k].next = F(k)
                       /\ C[k].base = node[old[k]].base /\ C[k].end = node[old[k]].end
                       /\ C[k].bucket = node[old[k]].bucket /\ C[k].page = node[old[k]].page
    OBVIOUS
  <2>1. node[old[k]] \in NodeFields /\ F(k) \in Nat
    BY <1>1, <1>3
  <2>2. C[k] = [node[old[k]] EXCEPT !.next = F(k)]
    BY <1>2
  <2>. QED
    BY <2>1, <2>2 DEF NodeFields
<1>5. C \in Seq(NodeFields) /\ Len(C) = N
  <2>1. C \in [1 .. N -> NodeFields]
    <3>1. C = [k \in 1 .. N |-> C[k]]
      BY <1>2
    <3>. QED
      BY <1>4, <3>1
  <2>. HIDE DEF N
  <2>. QED
    BY <1>1, <2>1, FunctionIsSeq
<1>. HIDE DEF L, N
<1>6. /\ node' \in Seq(NodeFields) /\ Len(node') = L + N
      /\ \A n \in 1 .. L + N : node'[n] = IF n <= L THEN node[n] ELSE C[n - L]
  BY <1>1, <1>5, ConcatProperties DEF C, L
<1>7. DOMAIN node' = 1 .. L + N
  BY <1>6, SeqIs
<1>8. \A n \in 1 .. L : node'[n] = node[n]
  BY <1>1, <1>6
<1>9. \A k \in 1 .. N : node'[L + k] = C[k]
  <2>. SUFFICES ASSUME NEW k \in 1 .. N PROVE node'[L + k] = C[k]
    OBVIOUS
  <2>1. L + k \in 1 .. L + N /\ ~(L + k <= L) /\ (L + k) - L = k
    BY <1>1
  <2>. QED
    BY <1>6, <2>1
<1>10. \A n \in 1 .. L + N : node'[n].next \in 0 .. L + N
  <2>. SUFFICES ASSUME NEW n \in 1 .. L + N PROVE node'[n].next \in 0 .. L + N
    OBVIOUS
  <2>1. CASE n <= L
    <3>1. n \in 1 .. L
      BY <1>1, <2>1
    <3>2. node[n].next \in 0 .. L
      BY <1>1, <3>1
    <3>3. \A z \in 0 .. L : z \in 0 .. L + N
      BY <1>1
    <3>. QED
      BY <1>8, <3>1, <3>2, <3>3
  <2>2. CASE ~(n <= L)
    <3>1. n - L \in 1 .. N
      BY <1>1, <2>2
    <3>. QED
      BY <1>3, <1>4, <1>6, <2>2, <3>1
  <2>. QED
    BY <2>1, <2>2
<1>. QED
  BY <1>1, <1>4, <1>6, <1>7, <1>8, <1>9, <1>10 DEF F, L, N

(* For every key the copies make a chain, each before those made earlier.  *)
LEMMA CopiesChain ==
  ASSUME NodesTyped, NEW old \in Seq(1 .. Len(node)), NEW t,
         node' = node \o Copies(old, t), NEW j, NEW x \in 0 .. Len(old)
  PROVE  \E s : /\ IsChain(node', s, First(old, t, j, x))
                /\ In(s) = {Len(node) + m : m \in Copied(old, t, j, x)}
<1>. DEFINE L == Len(node)
            N == Len(old)
            D == DOMAIN node'
            Good(y) == \E s : /\ IsChain(node', s, First(old, t, j, y))
                              /\ In(s) = {L + m : m \in Copied(old, t, j, y)}
            T == {y \in Nat : y <= N => Good(y)}
<1>1. /\ L \in Nat /\ N \in Nat /\ D = 1 .. L + N
      /\ \A k \in 1 .. N :
           /\ node'[L + k].page = node[old[k]].page
           /\ node'[L + k].next = First(old, t, Key(node[old[k]].page, t), k - 1)
  BY NodeIs, CopiesAre
<1>2. 0 \in T
  <2>1. Copied(old, t, j, 0) = {}
    BY DEF Copied
  <2>2. First(old, t, j, 0) = 0
    BY <2>1 DEF First
  <2>3. <<>> \in Seq(D) /\ Len(<<>>) = 0
    BY EmptySeq
  <2>4. IsChain(node', <<>>, 0)
    BY <2>3 DEF IsChain, Starts
  <2>5. In(<<>>) = {}
    BY <2>3 DEF In
  <2>6. Good(0)
    BY <2>1, <2>2, <2>4, <2>5
  <2>. QED
    BY <2>6
<1>3. ASSUME NEW y \in T PROVE y + 1 \in T
  <2>. HIDE DEF Good
  <2>. SUFFICES ASSUME y + 1 <= N PROVE Good(y + 1)
    OBVIOUS
  <2>0. y \in Nat /\ Good(y)
    BY <1>1
  <2>. HIDE DEF T
  <2>. USE DEF Good
  <2>1. PICK s : /\ IsChain(node', s, First(old, t, j, y))
                 /\ In(s) = {L + m : m \in Copied(old, t, j, y)}
    BY <2>0
  <2>2. \A m : m \in 1 .. y + 1 <=> m \in 1 .. y \/ m = y + 1
    BY <2>0
  <2>3. CASE Key(node[old[y + 1]].page, t) # j
    <3>1. Copied(old, t, j, y + 1) = Copied(old, t, j, y)
      BY <2>2, <2>3 DEF Copied
    <3>2. First(old, t, j, y + 1) = First(old, t, j, y)
      BY <3>1 DEF First
    <3>. QED
      BY <2>1, <3>1, <3>2
  <2>4. CASE Key(node[old[y + 1]].page, t) = j
    <3>1. Copied(old, t, j, y + 1) = Copied(old, t, j, y) \union {y + 1}
      BY <2>2, <2>4 DEF Copied
    <3>2. First(old, t, j, y + 1) = L + (y + 1)
      <4>. DEFINE S == Copied(old, t, j, y + 1)
      <4>1. S \in SUBSET (1 .. y + 1) /\ y + 1 \in S
        BY <3>1 DEF Copied
      <4>2. First(old, t, j, y + 1) = L + Max(S)
        BY <4>1 DEF First
      <4>. HIDE DEF S
      <4>3. Max(S) \in S /\ Max(S) >= y + 1
        <5>1. y + 1 \in Nat /\ S # {}
          BY <2>0, <4>1
        <5>2. Max(S) \in S /\ \A z \in S : Max(S) >= z
          BY <4>1, <5>1, MaxIs
        <5>. QED
          BY <4>1, <5>2
      <4>4. Max(S) = y + 1
        <5>1. Max(S) \in 1 .. y + 1
          BY <4>1, <4>3
        <5>2. \A z \in 1 .. y + 1 : z >= y + 1 => z = y + 1
          BY <2>0
        <5>. QED
          BY <4>3, <5>1, <5>2
      <4>. QED
        BY <4>2, <4>4
    <3>3. y + 1 \in 1 .. N /\ (y + 1) - 1 = y /\ L + (y + 1) \in D
      BY <1>1, <2>0
    <3>4. node'[L + (y + 1)].next = First(old, t, j, y)
      BY <1>1, <2>4, <3>3
    <3>5. L + (y + 1) \notin In(s)
      <4>1. \A m \in Copied(old, t, j, y) : m \in Nat /\ m <= y
        BY <2>0 DEF Copied
      <4>2. \A m \in Copied(old, t, j, y) : L + m # L + (y + 1)
        BY <1>1, <2>0, <4>1
      <4>. QED
        BY <2>1, <4>2
    <3>. DEFINE u == <<L + (y + 1)>> \o s
    <3>6. IsChain(node', u, L + (y + 1)) /\ In(u) = In(s) \union {L + (y + 1)}
      <4>1. PICK z : z = L + (y + 1)
        OBVIOUS
      <4>2. PICK n : n = First(old, t, j, y)
        OBVIOUS
      <4>3. IsChain(node', s, n) /\ z \in DOMAIN node' /\ z \notin In(s) /\ node'[z].next = n
        BY <2>1, <3>3, <3>4, <3>5, <4>1, <4>2
      <4>. QED
        <5>. HIDE DEF L, u
        <5>1. PICK nd : nd = node'
          OBVIOUS
        <5>2. IsChain(nd, s, n) /\ z \in DOMAIN nd /\ z \notin In(s) /\ nd[z].next = n
          BY <4>3, <5>1
        <5>3. IsChain(nd, <<z>> \o s, z) /\ In(<<z>> \o s) = In(s) \union {z}
          BY ONLY <5>2, ChainPush
        <5>. QED
          BY <4>1, <5>1, <5>3 DEF u
    <3>7. In(u) = {L + m : m \in Copied(old, t, j, y + 1)}
      BY <2>1, <3>1, <3>6
    <3>. QED
      BY <3>2, <3>6, <3>7
  <2>. QED
    BY <2>3, <2>4
<1>4. T = Nat
  <2>1. T \in SUBSET Nat
    OBVIOUS
  <2>. HIDE DEF T
  <2>. QED
    BY <1>2, <1>3, <2>1, Induct
<1>5. x \in Nat /\ x <= N
  BY <1>1
<1>6. Good(x)
  <2>. HIDE DEF Good
  <2>. QED
    BY <1>4, <1>5
<1>. QED
  BY <1>6

LEMMA GrowMaps ==
  ASSUME MapInv, Grow
  PROVE  MapInv'
<1>. DEFINE old == Linked
            t == Top + 1
            L == Len(node)
            N == Len(old)
<1>0. /\ wpc = "grow" /\ t <= MaxTable /\ L + N <= MaxNode
      /\ heads' = Append(heads, Heads(old, t)) /\ node' = node \o Copies(old, t)
      /\ wpc' = "first" /\ UNCHANGED <<tab, mask, pool, used, live, slab, job>>
  BY DEF Grow, Top
<1>1. NodesTyped /\ WorkTyped /\ Phase
  BY DEF MapInv
<1>2. tab = Top /\ mask = Top /\ Top \in Nat
  BY <1>0, <1>1, NodeIs DEF Phase, Top
<1>3. PICK ch, pl : Indexed(ch, pl)
  BY DEF MapInv
<1>4. Chained(ch, pl)
  BY <1>3 DEF Indexed
<1>5. /\ old \in Seq(1 .. L) /\ \A i, k \in 1 .. N : old[i] = old[k] => i = k
      /\ N = Cardinality(All(ch)) /\ N \in Nat /\ DOMAIN old = 1 .. N
      /\ \A i \in 1 .. N : old[i] \in 1 .. L /\ old[i] \in All(ch)
  BY <1>1, <1>2, <1>4, LinkedIs
<1>. HIDE DEF old
<1>6. /\ node' \in Seq(NodeFields) /\ Len(node') = L + N
      /\ DOMAIN node' = 1 .. L + N
      /\ \A n \in 1 .. L : node'[n] = node[n]
      /\ \A k \in 1 .. N :
           /\ node'[L + k].base = node[old[k]].base /\ node'[L + k].end = node[old[k]].end
           /\ node'[L + k].bucket = node[old[k]].bucket
           /\ node'[L + k].page = node[old[k]].page
      /\ \A n \in 1 .. L + N : node'[n].next \in 0 .. L + N
  BY <1>0, <1>1, <1>5, CopiesAre
<1>7. L \in Nat /\ DOMAIN node = 1 .. L
      /\ \A n \in 1 .. L : node[n] \in NodeFields /\ node[n].next \in 0 .. L
  BY <1>1, NodeIs
<1>8. t \in Nat /\ t > 0 /\ Cap[t] \in Nat
  BY <1>2, CapsGrow
<1>. DEFINE H == Heads(old, t)
            K == 0 .. Cap[t] - 1
<1>9. H = [j \in K |-> First(old, t, j, N)]
  BY <1>5 DEF Heads, First, Copied
<1>10. \A j \in K : H[j] = First(old, t, j, N)
  BY <1>9
<1>11. ASSUME NEW j \in K
       PROVE  \E s : IsChain(node', s, H[j]) /\ In(s) = {L + m : m \in Copied(old, t, j, N)}
  <2>1. N \in 0 .. N
    BY <1>5
  <2>. HIDE DEF H, K, t
  <2>2. \E s : /\ IsChain(node', s, First(old, t, j, N))
               /\ In(s) = {Len(node) + m : m \in Copied(old, t, j, N)}
    BY <1>0, <1>1, <1>5, <2>1, CopiesChain
  <2>. QED
    BY <1>10, <2>2
<1>. HIDE DEF H
<1>12. PICK c2 : c2 = [j \in K |-> CHOOSE s : /\ IsChain(node', s, H[j])
                                              /\ In(s) = {L + m : m \in Copied(old, t, j, N)}]
  OBVIOUS
<1>13. ASSUME NEW j \in K
       PROVE  /\ IsChain(node', c2[j], H[j])
              /\ In(c2[j]) = {L + m : m \in Copied(old, t, j, N)}
  BY <1>11, <1>12
<1>14. c2 = [j \in K |-> c2[j]] /\ DOMAIN c2 = K
  BY <1>12
<1>15. H \in [K -> 0 .. L + N]
  <2>1. ASSUME NEW j \in K PROVE H[j] \in 0 .. L + N
    <3>1. H[j] = 0 \/ H[j] \in DOMAIN node'
      BY <1>13, ChainParts DEF IsChain, Starts
    <3>. QED
      BY <1>5, <1>6, <1>7, <3>1
  <2>2. H = [j \in K |-> H[j]]
    BY <1>9
  <2>. HIDE DEF K, N, L
  <2>. QED
    BY <2>1, <2>2
<1>. HIDE DEF L, N, t
<1>16. /\ heads' \in Seq(Tables) /\ Len(heads') = t /\ heads'[t] = H
       /\ \A i \in 1 .. Top : heads'[i] = heads[i]
  <2>1. H \in Tables
    <3>1. H \in [K -> Nat]
      BY <1>5, <1>7, <1>15
    <3>. QED
      BY <1>8, <3>1 DEF Tables
  <2>2. heads \in Seq(Tables) /\ heads' = Append(heads, H)
    BY <1>0, <1>1 DEF NodesTyped, H
  <2>. HIDE DEF H
  <2>. QED
    BY <1>2, <2>1, <2>2 DEF Top, t
<1>17. Top' = t /\ Keys' = K
  BY <1>16 DEF Top, Keys
<1>18. NodesTyped'
  <2>1. ASSUME NEW i \in 1 .. t PROVE heads'[i] \in [0 .. Cap[i] - 1 -> 0 .. L + N]
    <3>1. CASE i = t
      BY <1>15, <1>16, <3>1
    <3>2. CASE i # t
      <4>1. i \in 1 .. Top
        BY <1>2, <3>2 DEF t
      <4>2. heads[i] \in [0 .. Cap[i] - 1 -> 0 .. L]
        BY <1>1, <4>1 DEF NodesTyped, Top, L
      <4>3. \A y \in 0 .. L : y \in 0 .. L + N
        BY <1>5, <1>7
      <4>. QED
        BY <1>16, <4>1, <4>2, <4>3
    <3>. QED
      BY <3>1, <3>2
  <2>. QED
    BY <1>0, <1>6, <1>16, <2>1 DEF NodesTyped
<1>19. WorkTyped' /\ Phase'
  <2>1. Top' - 1 = Top /\ Top' > 0
    BY <1>2, <1>8, <1>17 DEF t
  <2>2. WorkTyped'
    BY <1>0, <1>1 DEF WorkTyped, Work
  <2>3. Phase'
    BY <1>0, <1>1, <1>2, <2>1 DEF Phase, Held
  <2>. QED
    BY <2>2, <2>3
<1>20. ASSUME NEW n \in All(c2)
       PROVE  \E m \in 1 .. N : n = L + m
  <2>1. PICK j \in K : n \in In(c2[j])
    BY <1>14, <1>20 DEF All
  <2>2. n \in {L + m : m \in Copied(old, t, j, N)}
    BY <1>13, <2>1
  <2>. QED
    BY <2>2 DEF Copied
<1>21. ASSUME NEW m \in 1 .. N PROVE L + m \in All(c2)
  <2>1. old[m] \in All(ch)
    BY <1>5
  <2>2. node[old[m]].page \in Nat
    BY <1>5, <1>7 DEF NodeFields
  <2>3. Key(node[old[m]].page, t) \in K
    BY <1>8, <2>2, KeyIn
  <2>4. m \in Copied(old, t, Key(node[old[m]].page, t), N)
    BY DEF Copied
  <2>. QED
    BY <1>13, <1>14, <2>3, <2>4 DEF All
<1>22. Cardinality(All(c2)) = N
  <2>1. All(c2) = L + 1 .. L + N
    <3>1. ASSUME NEW n \in All(c2) PROVE n \in L + 1 .. L + N
      BY <1>5, <1>7, <1>20
    <3>2. ASSUME NEW n \in L + 1 .. L + N PROVE n \in All(c2)
      <4>1. n - L \in 1 .. N /\ n = L + (n - L)
        BY <1>5, <1>7
      <4>. QED
        BY <1>21, <4>1
    <3>. QED
      BY <3>1, <3>2
  <2>2. L + 1 \in Int /\ L + N \in Int
    BY <1>5, <1>7
  <2>3. \A a, b \in Int : Cardinality(a .. b) = IF a > b THEN 0 ELSE b - a + 1
    <3>. SUFFICES ASSUME NEW a \in Int, NEW b \in Int
                  PROVE  Cardinality(a .. b) = IF a > b THEN 0 ELSE b - a + 1
      OBVIOUS
    <3>. QED
      BY FS_Interval
  <2>4. PICK a \in Int, b \in Int : a = L + 1 /\ b = L + N
    BY <2>2
  <2>5. Cardinality(a .. b) = IF a > b THEN 0 ELSE b - a + 1
    BY <2>3
  <2>6. All(c2) = a .. b
    BY <2>1, <2>4
  <2>7. (IF a > b THEN 0 ELSE b - a + 1) = N
    BY <1>5, <1>7, <2>4
  <2>. QED
    BY <2>5, <2>6, <2>7
<1>23. Chained(c2, pl)'
  <2>1. ASSUME NEW j \in K, NEW n \in In(c2[j]) PROVE Key(node'[n].page, t) = j
    <3>1. PICK m \in 1 .. N : n = L + m /\ Key(node[old[m]].page, t) = j
      BY <1>13, <2>1 DEF Copied
    <3>. QED
      BY <1>6, <3>1
  <2>2. IsChain(node, pl, pool) /\ In(pl) \subseteq 1 .. L
    BY <1>1, <1>4, AllIs DEF Chained, L
  <2>3. IsChain(node', pl, pool')
    <3>1. \A n \in In(pl) : node'[n].next = node[n].next
      BY <1>6, <2>2
    <3>2. DOMAIN node \subseteq DOMAIN node'
      BY <1>5, <1>6, <1>7
    <3>. QED
      BY <1>0, <2>2, <3>1, <3>2, ChainKept
  <2>4. All(c2) \cap In(pl) = {}
    <3>1. \A m \in 1 .. N : L + m \notin 1 .. L
      BY <1>5, <1>7
    <3>. QED
      BY <1>20, <2>2, <3>1
  <2>5. \A j \in K : /\ IsChain(node', c2[j], heads'[t][j])
                     /\ \A n \in In(c2[j]) : Key(node'[n].page, t) = j
    BY <1>13, <1>16, <2>1
  <2>. QED
    BY <1>14, <1>17, <2>3, <2>4, <2>5 DEF Chained
<1>24. InHand(c2, pl)' /\ Leaving(c2)'
  BY <1>0 DEF InHand, Leaving, Held, Leaves
<1>25. Counted(c2)'
  <2>1. used = N + 0
    BY <1>0, <1>3, <1>5 DEF Indexed, Counted
  <2>. QED
    BY <1>0, <1>22, <2>1 DEF Counted
<1>26. ASSUME NEW n \in All(c2)
       PROVE  \E q \in All(ch) : \E m \in 1 .. N :
                /\ n = L + m /\ q = old[m]
                /\ node'[n].base = node[q].base /\ node'[n].end = node[q].end
                /\ node'[n].bucket = node[q].bucket /\ node'[n].page = node[q].page
  <2>1. PICK m \in 1 .. N : n = L + m
    BY <1>20
  <2>. QED
    BY <1>5, <1>6, <2>1
<1>27. Entries(c2)'
  <2>1. ASSUME NEW n \in All(c2)
        PROVE  Sound(node'[n]) /\ Owned(node'[n], wpc', slab', job', live')
    <3>1. PICK q \in All(ch) :
                /\ node'[n].base = node[q].base /\ node'[n].end = node[q].end
                /\ node'[n].bucket = node[q].bucket /\ node'[n].page = node[q].page
      BY <1>26
    <3>2. Sound(node[q]) /\ Owned(node[q], wpc, slab, job, live)
      BY <1>3 DEF Indexed, Entries
    <3>. QED
      BY <1>0, <3>1, <3>2 DEF Sound, Owned, Leaves
  <2>. QED
    BY <2>1 DEF Entries, Sound
<1>28. Alone(c2)'
  <2>. SUFFICES ASSUME NEW n \in All(c2), NEW z \in All(c2),
                       node'[n].page = node'[z].page, node'[n].base = node'[z].base
                PROVE  n = z
    BY DEF Alone
  <2>1. PICK q \in All(ch), m \in 1 .. N :
                /\ n = L + m /\ q = old[m]
                /\ node'[n].base = node[q].base /\ node'[n].page = node[q].page
    BY <1>26
  <2>2. PICK y \in All(ch), k \in 1 .. N :
                /\ z = L + k /\ y = old[k]
                /\ node'[z].base = node[y].base /\ node'[z].page = node[y].page
    BY <1>26
  <2>3. q = y
    BY <1>3, <2>1, <2>2 DEF Indexed, Alone
  <2>4. m = k
    BY <1>5, <2>1, <2>2, <2>3
  <2>. QED
    BY <2>1, <2>2, <2>4
<1>29. Indexed(c2, pl)'
  BY <1>23, <1>24, <1>25, <1>27, <1>28 DEF Indexed
<1>. QED
  BY <1>18, <1>19, <1>29 DEF MapInv

-----------------------------------------------------------------------------
(* Every step of the owner, and of the readers.                            *)

LEMMA WriteMaps ==
  ASSUME MapInv, Write
  PROVE  MapInv'
<1>1. CASE \E c \in Base : \E b \in Bucket : Carve(c, b)
  BY <1>1, CarveMaps
<1>2. CASE \E c \in Base : Destroy(c)
  BY <1>2, DestroyMaps
<1>3. CASE NoGrow \/ StoreFirst \/ StoreSecond
  BY <1>3, StepMaps
<1>4. CASE Grow
  BY <1>4, GrowMaps
<1>5. CASE GrowFails
  <2>1. wpc = "grow" /\ Inserted /\ UNCHANGED <<tab, mask, heads, node, pool, used>>
    BY <1>5 DEF GrowFails, table, nodes
  <2>. QED
    BY <2>1, InsertAsIs
<1>6. CASE GetNode
  BY <1>6, GetNodeMaps
<1>7. CASE SetBase \/ SetEnd \/ SetBucket \/ SetNext
  BY <1>7, FieldsMap
<1>8. CASE Link
  BY <1>8, LinkMaps
<1>9. CASE \E k \in 1 .. MaxNode : Unlink(k)
  BY <1>9, UnlinkMaps
<1>10. CASE NotIndexed
  BY <1>10, NotIndexedMaps
<1>11. CASE PutNode
  BY <1>11, PutNodeMaps
<1>. QED
  BY <1>1, <1>2, <1>3, <1>4, <1>5, <1>6, <1>7, <1>8, <1>9, <1>10, <1>11 DEF Write

(* Tables and nodes are never taken back, and a published mask stays fit.  *)
LEMMA WriteGrows ==
  ASSUME MapInv, Write
  PROVE  /\ mask <= mask' /\ mask \in Nat /\ mask' \in Nat
         /\ Len(heads) <= Len(heads') /\ Len(node) <= Len(node')
         /\ UNCHANGED reader
         /\ freed' = freed \/ (RetireFails /\ tab # 0 /\ freed' = freed \union {tab})
<1>1. /\ MapInv' /\ NodesTyped /\ Phase /\ Phase' /\ NodesTyped'
  BY WriteMaps DEF MapInv
<1>2. /\ Len(heads) \in Nat /\ Len(node) \in Nat /\ DOMAIN node = 1 .. Len(node)
      /\ node \in Seq(NodeFields) /\ heads \in Seq(Tables)
  BY <1>1, NodeIs DEF NodesTyped
<1>3. Len(heads') \in Nat /\ Len(node') \in Nat
  BY <1>1, LenProperties DEF NodesTyped
<1>4. mask \in Nat /\ mask' \in Nat
  <2>1. wpc \in {"first", "second"} => Len(heads) - 1 \in Nat
    BY <1>1, <1>2 DEF Phase, Top
  <2>2. wpc' \in {"first", "second"} => Len(heads') - 1 \in Nat
    BY <1>1, <1>3 DEF Phase, Top
  <2>. QED
    BY <1>1, <1>2, <1>3, <2>1, <2>2 DEF Phase, Top
<1>5. UNCHANGED reader
  BY DEF Write, Carve, Destroy, NoGrow, Grow, GrowFails, StoreFirst, StoreSecond, GetNode,
         SetBase, SetEnd, SetBucket, SetNext, SetField, Link, Unlink, NotIndexed, PutNode
<1>6. freed' = freed \/ (RetireFails /\ tab # 0 /\ freed' = freed \union {tab})
  BY DEF Write, Carve, Destroy, NoGrow, Grow, GrowFails, StoreFirst, StoreSecond, GetNode,
         SetBase, SetEnd, SetBucket, SetNext, SetField, Link, Unlink, NotIndexed, PutNode,
         Retire, table
<1>7. mask <= mask'
  <2>1. CASE StoreFirst \/ StoreSecond
    <3>1. mask' = mask \/ (wpc = "second" /\ mask' = Top)
      BY <2>1 DEF StoreFirst, StoreSecond, Store, Published, Top
    <3>2. wpc = "second" => mask = Top - 1
      BY <1>1 DEF Phase
    <3>. QED
      BY <1>2, <1>4, <3>1, <3>2 DEF Top
  <2>2. CASE ~(StoreFirst \/ StoreSecond)
    <3>1. mask' = mask
      BY <2>2 DEF Write, Carve, Destroy, NoGrow, Grow, GrowFails, GetNode, SetBase, SetEnd,
                  SetBucket, SetNext, SetField, Link, Unlink, NotIndexed, PutNode, table
    <3>. QED
      BY <1>4, <3>1
  <2>. QED
    BY <2>1, <2>2
<1>8. Len(heads) <= Len(heads')
  <2>1. CASE Grow
    <3>1. PICK h : heads' = Append(heads, h)
      BY <2>1 DEF Grow
    <3>2. Len(heads') = Len(heads) + 1
      BY <1>2, <3>1
    <3>. QED
      BY <1>2, <3>2
  <2>2. CASE Link \/ \E k \in 1 .. MaxNode : Unlink(k)
    <3>1. heads' = heads \/ \E i, h : heads' = [heads EXCEPT ![i] = h]
      BY <2>2 DEF Link, Unlink
    <3>2. Len(heads') = Len(heads)
      BY <1>2, <3>1
    <3>. QED
      BY <1>2, <3>2
  <2>3. CASE ~(Grow \/ Link \/ \E k \in 1 .. MaxNode : Unlink(k))
    <3>1. heads' = heads
      BY <2>3 DEF Write, Carve, Destroy, NoGrow, GrowFails, StoreFirst, StoreSecond, GetNode,
                  SetBase, SetEnd, SetBucket, SetNext, SetField, NotIndexed, PutNode, table
    <3>. QED
      BY <1>2, <3>1
  <2>. QED
    BY <2>1, <2>2, <2>3
<1>9. Len(node) <= Len(node')
  <2>1. CASE Grow
    <3>1. NodesTyped /\ tab = Top
      BY <1>1, <2>1 DEF Grow, Phase
    <3>2. PICK ch, pl : Chained(ch, pl)
      BY DEF MapInv, Indexed
    <3>3. Linked \in Seq(1 .. Len(node)) /\ node' = node \o Copies(Linked, Len(heads) + 1)
      BY <2>1, <3>1, <3>2, LinkedIs DEF Grow
    <3>4. Len(node') = Len(node) + Len(Linked) /\ Len(Linked) \in Nat
      BY <3>1, <3>3, CopiesAre
    <3>. QED
      BY <1>2, <3>4
  <2>2. CASE ~Grow
    <3>1. \/ node' = node \/ (\E i, r : node' = [node EXCEPT ![i] = r])
          \/ node' = Append(node, Fresh)
      <4>1. CASE GetNode
        BY <4>1 DEF GetNode
      <4>2. CASE SetBase \/ SetEnd \/ SetBucket \/ SetNext \/ PutNode
        BY <4>2 DEF SetBase, SetEnd, SetBucket, SetNext, SetField, PutNode
      <4>3. CASE \E k \in 1 .. MaxNode : Unlink(k)
        BY <4>3 DEF Unlink
      <4>4. CASE Link
        BY <4>4 DEF Link
      <4>. QED
        BY <2>2, <4>1, <4>2, <4>3, <4>4
           DEF Write, Carve, Destroy, NoGrow, GrowFails, StoreFirst, StoreSecond, NotIndexed,
               nodes
    <3>2. Len(node') = Len(node) \/ Len(node') = Len(node) + 1
      BY <1>2, <3>1
    <3>. QED
      BY <1>2, <3>2
  <2>. QED
    BY <2>1, <2>2
<1>. QED
  BY <1>4, <1>5, <1>6, <1>7, <1>8, <1>9

-----------------------------------------------------------------------------
(* What the readers have seen.                                             *)
Places == {"idle", "mask", "tab", "head", "base", "end", "next", "bucket", "done"}
Looks == [mask : Nat, tab : Nat, n : Nat, hops : Nat]
AtNode == {"base", "end", "next", "bucket"}

(* A mask that was read was published, a table read after it is at least   *)
(* as large, and a node that is visited exists.                            *)
Seen(r) ==
  /\ rpc[r] \in {"tab", "head"} => look[r].mask > 0 /\ look[r].mask <= mask
  /\ rpc[r] = "head" => look[r].mask <= look[r].tab /\ look[r].tab <= Len(heads)
  /\ rpc[r] \in AtNode => look[r].n > 0 /\ look[r].n <= Len(node)

ReadInv ==
  /\ rpc \in [Reader -> Places]
  /\ addr \in [Reader -> Nat]
  /\ ans \in [Reader -> Bucket \union {NoBucket}]
  /\ look \in [Reader -> Looks]
  /\ \A r \in Reader : Seen(r)

(* Retire frees a table only where it cannot keep it for want of memory.   *)
FreedInv == freed \subseteq 1 .. Len(heads) /\ (~RetireFails => freed = {})

(* The inductive invariant of the map.                                     *)
ExactInv == MapInv /\ ReadInv /\ FreedInv

LEMMA ExactInit == Init => ExactInv
<1>. SUFFICES ASSUME Init PROVE ExactInv
  OBVIOUS
<1>1. Len(heads) = 0 /\ Len(node) = 0 /\ Top = 0 /\ Keys = {} /\ Cap[0] = 0
  <2>1. heads = <<>> /\ node = <<>>
    BY DEF Init
  <2>2. Top = 0
    BY <2>1 DEF Top
  <2>. QED
    BY <2>1, <2>2, CapIs DEF Keys
<1>2. NodesTyped
  <2>1. heads \in Seq(Tables) /\ node \in Seq(NodeFields)
    BY DEF Init
  <2>2. MaxTable \in Nat /\ MaxNode \in Nat
    BY SizeAssumption
  <2>. QED
    BY <1>1, <2>1, <2>2 DEF NodesTyped
<1>3. WorkTyped /\ Phase
  BY <1>1 DEF Init, WorkTyped, Phase, NoSlab, NoJob, Held
<1>4. PICK ch : ch = [j \in {} |-> 0]
  OBVIOUS
<1>5. PICK pl : pl = <<>>
  OBVIOUS
<1>6. All(ch) = {} /\ Cardinality(All(ch)) = 0
  BY <1>4, FS_EmptySet DEF All
<1>7. IsChain(node, pl, pool) /\ In(pl) = {}
  <2>1. pl \in Seq(DOMAIN node) /\ Len(pl) = 0 /\ pool = 0
    BY <1>5 DEF Init
  <2>. QED
    BY <2>1 DEF IsChain, Starts, In
<1>8. Chained(ch, pl)
  BY <1>1, <1>4, <1>6, <1>7 DEF Chained
<1>9. InHand(ch, pl) /\ Leaving(ch)
  BY DEF Init, InHand, Leaving, Held, Leaves
<1>10. Counted(ch) /\ Entries(ch) /\ Alone(ch)
  BY <1>6 DEF Init, Counted, Entries, Alone
<1>11. MapInv
  BY <1>2, <1>3, <1>8, <1>9, <1>10 DEF MapInv, Indexed
<1>12. ReadInv
  BY DEF Init, ReadInv, Seen, Places, AtNode, Looks, NoLook
<1>13. FreedInv
  BY DEF Init, FreedInv
<1>. QED
  BY <1>11, <1>12, <1>13 DEF ExactInv

LEMMA WriteSeen ==
  ASSUME ExactInv, Write
  PROVE  ExactInv'
<1>1. MapInv /\ MapInv' /\ ReadInv /\ FreedInv
  BY WriteMaps DEF ExactInv
<1>2. /\ mask <= mask' /\ mask \in Nat /\ mask' \in Nat
      /\ Len(heads) <= Len(heads') /\ Len(node) <= Len(node')
      /\ UNCHANGED <<rpc, addr, look, ans>>
      /\ freed' = freed \/ (RetireFails /\ tab # 0 /\ freed' = freed \union {tab})
  BY <1>1, WriteGrows DEF reader
<1>3. /\ Len(heads) \in Nat /\ Len(node) \in Nat /\ Len(heads') \in Nat /\ Len(node') \in Nat
  BY <1>1, LenProperties DEF MapInv, NodesTyped
<1>4. ASSUME NEW r \in Reader PROVE Seen(r)'
  <2>1. Seen(r) /\ look[r] \in [mask : Nat, tab : Nat, n : Nat, hops : Nat]
    BY <1>1 DEF ReadInv, Looks
  <2>. QED
    BY <1>2, <1>3, <2>1 DEF Seen
<1>5. ReadInv'
  BY <1>1, <1>2, <1>4 DEF ReadInv
<1>6. FreedInv'
  <2>1. tab # 0 => tab \in 1 .. Len(heads)
    <3>1. Phase
      BY <1>1 DEF MapInv
    <3>2. CASE wpc = "first"
      <4>1. tab = Len(heads) - 1 /\ Len(heads) > 0
        BY <3>1, <3>2 DEF Phase, Top
      <4>. QED
        BY <1>3, <4>1
    <3>3. CASE wpc # "first"
      BY <1>3, <3>1, <3>3 DEF Phase, Top
    <3>. QED
      BY <3>2, <3>3
  <2>2. \A t \in 1 .. Len(heads) : t \in 1 .. Len(heads')
    BY <1>2, <1>3
  <2>. QED
    BY <1>1, <1>2, <2>1, <2>2 DEF FreedInv
<1>. QED
  BY <1>1, <1>5, <1>6 DEF ExactInv

(* A reader's steps leave the map alone.                                   *)
LEMMA ReadKeeps ==
  ASSUME ExactInv, UNCHANGED <<table, nodes, writer>>
  PROVE  MapInv' /\ FreedInv'
<1>1. MapInv'
  BY MapUnchanged DEF ExactInv
<1>2. FreedInv'
  BY DEF ExactInv, FreedInv, table
<1>. QED
  BY <1>1, <1>2

(* Reader r moves on to p, having read new.                                *)
Moves(r, p, new) ==
  /\ rpc' = [rpc EXCEPT ![r] = p] /\ look' = [look EXCEPT ![r] = new]
  /\ p \in Places /\ new \in Looks
  /\ p \in {"tab", "head"} => new.mask > 0 /\ new.mask <= mask
  /\ p = "head" => new.mask <= new.tab /\ new.tab <= Len(heads)
  /\ p \in AtNode => new.n > 0 /\ new.n <= Len(node)

LEMMA MovesKeep ==
  ASSUME ReadInv, NEW r \in Reader, NEW p, NEW new, Moves(r, p, new),
         UNCHANGED <<mask, heads, node>>,
         addr' \in [Reader -> Nat], ans' \in [Reader -> Bucket \union {NoBucket}]
  PROVE  ReadInv'
<1>1. /\ rpc \in [Reader -> Places] /\ look \in [Reader -> Looks]
      /\ \A q \in Reader : Seen(q)
  BY DEF ReadInv
<1>2. rpc' \in [Reader -> Places] /\ look' \in [Reader -> Looks]
  BY <1>1 DEF Moves
<1>3. ASSUME NEW q \in Reader PROVE Seen(q)'
  <2>1. CASE q = r
    <3>1. rpc'[q] = p /\ look'[q] = new
      BY <1>1, <2>1 DEF Moves
    <3>. QED
      BY <3>1 DEF Moves, Seen
  <2>2. CASE q # r
    <3>1. Seen(q) /\ rpc'[q] = rpc[q] /\ look'[q] = look[q]
      BY <1>1, <2>2 DEF Moves
    <3>. QED
      BY <3>1 DEF Seen
  <2>. QED
    BY <2>1, <2>2
<1>. QED
  BY <1>2, <1>3 DEF ReadInv

LEMMA ReadSeen ==
  ASSUME ExactInv, NEW r \in Reader, Read(r) \/ \E a \in Address : Classify(r, a)
  PROVE  ExactInv'
<1>1. UNCHANGED <<table, nodes, writer>>
  BY DEF Read, Classify, LoadMask, LoadTab, LoadHead, TestBase, TestEnd, Follow, CheckHeader,
         Return, Step
<1>2. MapInv' /\ FreedInv' /\ MapInv /\ ReadInv
  BY <1>1, ReadKeeps DEF ExactInv
<1>3. /\ UNCHANGED <<tab, mask, heads, node>> /\ NodesTyped
      /\ Len(heads) \in Nat /\ Len(node) \in Nat /\ tab \in Nat /\ mask \in Nat
      /\ mask <= tab /\ tab <= Len(heads)
  <2>1. NodesTyped /\ Phase
    BY <1>2 DEF MapInv
  <2>2. Len(heads) \in Nat /\ Len(node) \in Nat
    BY <2>1, NodeIs
  <2>3. tab \in Nat /\ mask \in Nat /\ mask <= tab /\ tab <= Len(heads)
    BY <2>1, <2>2 DEF Phase, Top
  <2>. QED
    BY <1>1, <2>1, <2>2, <2>3 DEF table, nodes
<1>4. /\ rpc \in [Reader -> Places] /\ addr \in [Reader -> Nat]
      /\ ans \in [Reader -> Bucket \union {NoBucket}]
      /\ look \in [Reader -> Looks]
      /\ \A q \in Reader : Seen(q)
  BY <1>2 DEF ReadInv
<1>. DEFINE l == look[r]
<1>5. l \in Looks /\ Seen(r) /\ addr[r] \in Nat
  BY <1>4
<1>6. SUFFICES ReadInv'
  BY <1>2 DEF ExactInv
<1>7. CASE \E a \in Address : Classify(r, a)
  <2>1. PICK a \in Address : Classify(r, a)
    BY <1>7
  <2>2. a \in Nat
    <3>1. PICK c \in Base, b \in Bucket : a \in Span(c, b)
      BY DEF Address
    <3>2. c \in Nat /\ Size[b] \in Nat
      BY SizeAssumption
    <3>. QED
      BY <3>1, <3>2 DEF Span
  <2>3. /\ rpc' = [rpc EXCEPT ![r] = "mask"] /\ addr' = [addr EXCEPT ![r] = a]
        /\ look' = [look EXCEPT ![r] = l] /\ ans' = ans
    BY <1>4, <2>1 DEF Classify
  <2>4. addr' \in [Reader -> Nat] /\ ans' \in [Reader -> Bucket \union {NoBucket}]
    BY <1>4, <2>2, <2>3
  <2>. HIDE DEF l
  <2>5. Moves(r, "mask", l)
    BY <1>5, <2>3 DEF Moves, Places, AtNode
  <2>. QED
    BY <1>2, <1>3, <2>4, <2>5, MovesKeep
<1>8. CASE LoadMask(r)
  <2>. DEFINE new == [l EXCEPT !.mask = mask]
              p == IF mask = 0 THEN "done" ELSE "tab"
  <2>1. /\ rpc' = [rpc EXCEPT ![r] = p] /\ look' = [look EXCEPT ![r] = new]
        /\ addr' = addr /\ ans' = ans
    BY <1>8 DEF LoadMask, Step
  <2>2. new \in Looks /\ new.mask = mask
    BY <1>3, <1>5 DEF Looks
  <2>3. p \in {"done", "tab"} /\ (p = "tab" => mask > 0)
    BY <1>3
  <2>. HIDE DEF new, p, l
  <2>8. Moves(r, p, new)
    BY <1>3, <2>1, <2>2, <2>3 DEF Moves, Places, AtNode
  <2>9. addr' \in [Reader -> Nat] /\ ans' \in [Reader -> Bucket \union {NoBucket}]
    BY <1>4, <2>1
  <2>. QED
    BY <1>2, <1>3, <2>8, <2>9, MovesKeep
<1>9. CASE LoadTab(r)
  <2>. DEFINE new == [l EXCEPT !.tab = tab]
              p == IF tab = 0 THEN "done" ELSE "head"
  <2>1. /\ rpc' = [rpc EXCEPT ![r] = p] /\ look' = [look EXCEPT ![r] = new]
        /\ addr' = addr /\ ans' = ans /\ rpc[r] = "tab"
    BY <1>9 DEF LoadTab, Step
  <2>2. new \in Looks /\ new.mask = l.mask /\ new.tab = tab
        /\ l.mask \in Nat
    BY <1>3, <1>5 DEF Looks
  <2>3. l.mask > 0 /\ l.mask <= mask
    BY <1>5, <2>1 DEF Seen
  <2>4. p \in {"done", "head"}
    OBVIOUS
  <2>5. new.mask <= new.tab /\ new.tab <= Len(heads)
    BY <1>3, <2>2, <2>3
  <2>. HIDE DEF new, p, l
  <2>8. Moves(r, p, new)
    BY <2>1, <2>2, <2>3, <2>4, <2>5 DEF Moves, Places, AtNode
  <2>9. addr' \in [Reader -> Nat] /\ ans' \in [Reader -> Bucket \union {NoBucket}]
    BY <1>4, <2>1
  <2>. QED
    BY <1>2, <1>3, <2>8, <2>9, MovesKeep
<1>10. CASE LoadHead(r)
  <2>. DEFINE n == heads[l.tab][Key(Page(addr[r]), l.mask)]
              new == [l EXCEPT !.n = n]
              p == Visit(n, 0)
  <2>1. /\ rpc' = [rpc EXCEPT ![r] = p] /\ look' = [look EXCEPT ![r] = new]
        /\ addr' = addr /\ ans' = ans /\ rpc[r] = "head"
    BY <1>10 DEF LoadHead, Step
  <2>2. n \in 0 .. Len(node)
    <3>1. /\ l.mask \in Nat /\ l.mask > 0 /\ l.tab \in Nat /\ l.mask <= l.tab
          /\ l.tab <= Len(heads)
      BY <1>5, <2>1 DEF Seen, Looks
    <3>2. l.tab \in 1 .. Len(heads)
      BY <1>3, <3>1
    <3>3. heads[l.tab] \in [0 .. Cap[l.tab] - 1 -> 0 .. Len(node)]
      BY <1>3, <3>2 DEF NodesTyped
    <3>4. Page(addr[r]) \in Nat
      BY <1>5 DEF Page
    <3>5. Key(Page(addr[r]), l.mask) \in 0 .. Cap[l.mask] - 1
      BY <3>1, <3>4, KeyIn
    <3>6. Cap[l.mask] \in Nat /\ Cap[l.tab] \in Nat /\ Cap[l.mask] <= Cap[l.tab]
      BY <3>1, CapsGrow
    <3>7. Key(Page(addr[r]), l.mask) \in 0 .. Cap[l.tab] - 1
      BY <3>5, <3>6
    <3>. QED
      BY <3>3, <3>7
  <2>. HIDE DEF n
  <2>3. new \in Looks /\ new.n = n
    BY <1>3, <1>5, <2>2 DEF Looks
  <2>4. p \in {"base", "done"} /\ (p = "base" => n > 0 /\ n <= Len(node))
    BY <1>3, <2>2 DEF Visit
  <2>. HIDE DEF new, p, l
  <2>8. Moves(r, p, new)
    BY <2>1, <2>3, <2>4 DEF Moves, Places, AtNode
  <2>9. addr' \in [Reader -> Nat] /\ ans' \in [Reader -> Bucket \union {NoBucket}]
    BY <1>4, <2>1
  <2>. QED
    BY <1>2, <1>3, <2>8, <2>9, MovesKeep
<1>11. CASE TestBase(r) \/ TestEnd(r) \/ CheckHeader(r)
  <2>1. PICK p \in {"end", "next", "bucket", "done"} :
          rpc' = [rpc EXCEPT ![r] = p] /\ look' = [look EXCEPT ![r] = l] /\ addr' = addr
    BY <1>11 DEF TestBase, TestEnd, CheckHeader, Step
  <2>2. ans' \in [Reader -> Bucket \union {NoBucket}]
    <3>1. CASE TestBase(r) \/ TestEnd(r)
      BY <1>4, <3>1 DEF TestBase, TestEnd
    <3>2. CASE CheckHeader(r)
      <4>1. PICK b : /\ b \in Header(addr[r]) \/ b = NoBucket
                     /\ ans' = [ans EXCEPT ![r] = b]
        BY <3>2 DEF CheckHeader
      <4>2. Header(addr[r]) \subseteq Bucket \union {NoBucket}
        BY <1>2 DEF Header, SlabsAt, MapInv, WorkTyped
      <4>. QED
        BY <1>4, <4>1, <4>2
    <3>. QED
      BY <1>11, <3>1, <3>2
  <2>3. rpc[r] \in AtNode
    BY <1>11 DEF TestBase, TestEnd, CheckHeader, AtNode
  <2>4. l.n > 0 /\ l.n <= Len(node)
    BY <1>5, <2>3 DEF Seen
  <2>. HIDE DEF l
  <2>5. Moves(r, p, l)
    BY <1>5, <2>1, <2>4 DEF Moves, Places, AtNode
  <2>. QED
    BY <1>2, <1>3, <1>4, <2>1, <2>2, <2>5, MovesKeep
<1>12. CASE Follow(r)
  <2>. DEFINE n == node[l.n].next
              hops == l.hops + 1
              new == [l EXCEPT !.n = n, !.hops = hops]
              p == Visit(n, hops)
  <2>1. /\ rpc' = [rpc EXCEPT ![r] = p] /\ look' = [look EXCEPT ![r] = new]
        /\ addr' = addr /\ ans' = ans /\ rpc[r] = "next"
    BY <1>12 DEF Follow, Step
  <2>2. n \in 0 .. Len(node)
    <3>1. l.n \in 1 .. Len(node)
      BY <1>3, <1>5, <2>1 DEF Seen, AtNode, Looks
    <3>. QED
      BY <1>3, <3>1 DEF NodesTyped
  <2>3. new \in Looks /\ new.n = n
    <3>1. l.hops \in Nat /\ n \in Nat
      BY <1>3, <1>5, <2>2 DEF Looks
    <3>2. hops \in Nat
      BY <3>1
    <3>. HIDE DEF n, hops
    <3>. QED
      BY <1>5, <3>1, <3>2 DEF Looks
  <2>. HIDE DEF n
  <2>4. p \in {"base", "done"} /\ (p = "base" => n > 0 /\ n <= Len(node))
    BY <1>3, <2>2 DEF Visit
  <2>. HIDE DEF new, p, l
  <2>8. Moves(r, p, new)
    BY <2>1, <2>3, <2>4 DEF Moves, Places, AtNode
  <2>9. addr' \in [Reader -> Nat] /\ ans' \in [Reader -> Bucket \union {NoBucket}]
    BY <1>4, <2>1
  <2>. QED
    BY <1>2, <1>3, <2>8, <2>9, MovesKeep
<1>13. CASE Return(r)
  <2>1. /\ rpc' = [rpc EXCEPT ![r] = "idle"] /\ look' = [look EXCEPT ![r] = NoLook]
        /\ addr' \in [Reader -> Nat] /\ ans' \in [Reader -> Bucket \union {NoBucket}]
    BY <1>4, <1>13 DEF Return
  <2>2. NoLook \in Looks
    BY DEF NoLook, Looks
  <2>3. Moves(r, "idle", NoLook)
    BY <2>1, <2>2 DEF Moves, Places, AtNode
  <2>. QED
    BY <1>2, <1>3, <2>1, <2>3, MovesKeep
<1>. QED
  BY <1>7, <1>8, <1>9, <1>10, <1>11, <1>12, <1>13 DEF Read

LEMMA ExactNext == ExactInv /\ [Next]_vars => ExactInv'
<1>. SUFFICES ASSUME ExactInv, [Next]_vars PROVE ExactInv'
  OBVIOUS
<1>1. CASE Write
  BY <1>1, WriteSeen
<1>2. CASE \E r \in Reader : Read(r) \/ \E a \in Address : Classify(r, a)
  BY <1>2, ReadSeen
<1>3. CASE UNCHANGED vars
  <2>1. UNCHANGED <<table, nodes, writer>> /\ UNCHANGED <<rpc, addr, look, ans>>
    BY <1>3 DEF vars, reader
  <2>2. MapInv' /\ FreedInv'
    BY <2>1, ReadKeeps
  <2>3. UNCHANGED <<mask, heads, node>>
    BY <2>1 DEF table, nodes
  <2>4. ReadInv'
    BY <2>1, <2>3 DEF ExactInv, ReadInv, Seen
  <2>. QED
    BY <2>2, <2>4 DEF ExactInv
<1>. QED
  BY <1>1, <1>2, <1>3 DEF Next

LEMMA ExactAlways == Spec => []ExactInv
BY ExactInit, ExactNext, PTL DEF Spec

-----------------------------------------------------------------------------
LEMMA ExactIsTyped == ExactInv => TypeOK
<1>. SUFFICES ASSUME ExactInv PROVE TypeOK
  OBVIOUS
<1>1. NodesTyped /\ WorkTyped /\ Phase /\ ReadInv /\ FreedInv
  BY DEF ExactInv, MapInv
<1>2. /\ Len(heads) \in Nat /\ Len(node) \in Nat /\ DOMAIN node = 1 .. Len(node)
      /\ DOMAIN heads = 1 .. Len(heads)
      /\ \A n \in 1 .. Len(node) : node[n] \in NodeFields /\ node[n].next \in 0 .. Len(node)
  BY <1>1, NodeIs
<1>3. PICK ch, pl : Indexed(ch, pl)
  BY DEF ExactInv, MapInv
<1>4. /\ All(ch) \subseteq 1 .. Len(node) /\ IsFiniteSet(All(ch)) /\ Cardinality(All(ch)) \in Nat
      /\ In(pl) \subseteq 1 .. Len(node)
  BY <1>1, <1>3, AllIs DEF Indexed
<1>5. {tab, mask} \subseteq 0 .. Len(heads)
  BY <1>1, <1>2 DEF Phase, Top
<1>6. pool \in 0 .. Len(node)
  <2>1. IsChain(node, pl, pool)
    BY <1>3 DEF Indexed, Chained
  <2>2. pool = 0 \/ pool \in DOMAIN node
    BY <2>1, ChainParts DEF IsChain, Starts
  <2>. QED
    BY <1>2, <2>2
<1>7. used \in 0 .. MaxNode
  <2>1. IsFiniteSet(1 .. Len(node)) /\ Cardinality(1 .. Len(node)) = Len(node)
    <3>1. \A k \in Nat : IsFiniteSet(1 .. k) /\ Cardinality(1 .. k) = k
      <4>. SUFFICES ASSUME NEW k \in Nat PROVE IsFiniteSet(1 .. k) /\ Cardinality(1 .. k) = k
        OBVIOUS
      <4>. QED
        BY FS_Interval
    <3>. QED
      BY <1>2, <3>1
  <2>2. MaxNode \in Nat /\ Len(node) <= MaxNode
    BY <1>1, SizeAssumption DEF NodesTyped
  <2>3. CASE wpc = "put"
    <3>1. used = Cardinality(All(ch)) + 1
      BY <1>3, <2>3 DEF Indexed, Counted
    <3>2. job.n \in 1 .. Len(node) /\ job.n \notin All(ch)
      BY <1>2, <1>3, <2>3 DEF Indexed, InHand, Held
    <3>3. Cardinality(All(ch) \union {job.n}) = Cardinality(All(ch)) + 1
      BY <1>4, <3>2, FS_AddElement
    <3>4. All(ch) \union {job.n} \in SUBSET (1 .. Len(node))
      BY <1>4, <3>2
    <3>5. Cardinality(All(ch) \union {job.n}) <= Len(node)
      BY <2>1, <3>4, FS_Subset
    <3>. QED
      BY <1>2, <1>4, <2>2, <3>1, <3>3, <3>5
  <2>4. CASE wpc # "put"
    <3>1. used = Cardinality(All(ch)) + 0
      BY <1>3, <2>4 DEF Indexed, Counted
    <3>2. All(ch) \in SUBSET (1 .. Len(node))
      BY <1>4
    <3>3. Cardinality(All(ch)) <= Len(node)
      BY <2>1, <3>2, FS_Subset
    <3>. QED
      BY <1>2, <1>4, <2>2, <3>1, <3>3
  <2>. QED
    BY <2>3, <2>4
<1>8. \A n \in DOMAIN node : node[n].next \in 0 .. Len(node)
                             /\ node[n].bucket \in Bucket \union {NoBucket}
  BY <1>2 DEF NodeFields
<1>9. \A t \in DOMAIN heads : heads[t] \in [0 .. Cap[t] - 1 -> 0 .. Len(node)]
  BY <1>1, <1>2 DEF NodesTyped
<1>. QED
  BY <1>1, <1>5, <1>6, <1>7, <1>8, <1>9 DEF TypeOK, NodesTyped, WorkTyped, ReadInv, Places,
                                           Looks, FreedInv

LEMMA ExactInBounds == ExactInv => InBounds
<1>. SUFFICES ASSUME ExactInv, NEW r \in Reader
              PROVE  /\ rpc[r] = "head" =>
                          Key(Page(addr[r]), look[r].mask) \in DOMAIN heads[look[r].tab]
                     /\ rpc[r] \in {"base", "end", "next", "bucket"} => look[r].n \in DOMAIN node
  BY DEF InBounds
<1>1. NodesTyped /\ Seen(r) /\ addr[r] \in Nat
      /\ look[r] \in [mask : Nat, tab : Nat, n : Nat, hops : Nat]
  BY DEF ExactInv, MapInv, ReadInv, Looks
<1>2. Len(heads) \in Nat /\ Len(node) \in Nat /\ DOMAIN node = 1 .. Len(node)
  BY <1>1, NodeIs
<1>. DEFINE l == look[r]
<1>3. CASE rpc[r] = "head"
  <2>1. /\ l.mask \in Nat /\ l.mask > 0 /\ l.tab \in Nat /\ l.mask <= l.tab
        /\ l.tab <= Len(heads)
    BY <1>1, <1>3 DEF Seen
  <2>2. l.tab \in 1 .. Len(heads)
    BY <1>2, <2>1
  <2>3. DOMAIN heads[l.tab] = 0 .. Cap[l.tab] - 1
    BY <1>1, <2>2 DEF NodesTyped
  <2>4. Page(addr[r]) \in Nat
    BY <1>1 DEF Page
  <2>5. Key(Page(addr[r]), l.mask) \in 0 .. Cap[l.mask] - 1
    BY <2>1, <2>4, KeyIn
  <2>6. Cap[l.mask] \in Nat /\ Cap[l.tab] \in Nat /\ Cap[l.mask] <= Cap[l.tab]
    BY <2>1, CapsGrow
  <2>7. Key(Page(addr[r]), l.mask) \in 0 .. Cap[l.tab] - 1
    BY <2>5, <2>6
  <2>. QED
    BY <1>3, <2>3, <2>7
<1>4. CASE rpc[r] # "head"
  BY <1>1, <1>2, <1>4 DEF Seen, AtNode
<1>. QED
  BY <1>3, <1>4

LEMMA ExactIsIndex == ExactInv => IndexExact
<1>. SUFFICES ASSUME ExactInv, wpc = "idle"
              PROVE  /\ used = Len(Linked)
                     /\ \A k \in DOMAIN Linked :
                          LET n == node[Linked[k]]
                          IN  /\ live[n.base] = n.bucket /\ n.bucket # NoBucket
                              /\ n.page \in Pages(n.base, n.bucket)
                              /\ n.end = n.base + Size[n.bucket]
                              /\ \A m \in DOMAIN Linked :
                                   node[Linked[m]].page = n.page /\ node[Linked[m]].base = n.base
                                     => m = k
  BY DEF IndexExact
<1>1. NodesTyped /\ tab = Top
  BY DEF ExactInv, MapInv, Phase
<1>2. PICK ch, pl : Indexed(ch, pl)
  BY DEF ExactInv, MapInv
<1>3. /\ \A i, k \in 1 .. Len(Linked) : Linked[i] = Linked[k] => i = k
      /\ Len(Linked) = Cardinality(All(ch)) /\ Len(Linked) \in Nat
      /\ DOMAIN Linked = 1 .. Len(Linked)
      /\ \A i \in 1 .. Len(Linked) : Linked[i] \in All(ch)
  BY <1>1, <1>2, LinkedIs DEF Indexed
<1>4. used = Len(Linked)
  <2>1. used = Cardinality(All(ch)) + 0
    BY <1>2 DEF Indexed, Counted
  <2>. QED
    BY <1>3, <2>1
<1>5. \A n \in All(ch) : Sound(node[n]) /\ live[node[n].base] = node[n].bucket
  BY <1>2 DEF Indexed, Entries, Owned
<1>6. \A n, m \in All(ch) : node[n].page = node[m].page /\ node[n].base = node[m].base => n = m
  BY <1>2 DEF Indexed, Alone
<1>7. ASSUME NEW k \in DOMAIN Linked, NEW m \in DOMAIN Linked,
             node[Linked[m]].page = node[Linked[k]].page,
             node[Linked[m]].base = node[Linked[k]].base
      PROVE  m = k
  <2>1. Linked[m] = Linked[k]
    BY <1>3, <1>6, <1>7
  <2>. QED
    BY <1>3, <2>1
<1>. QED
  BY <1>3, <1>4, <1>5, <1>7, BucketAssumption DEF Sound

(* The index that a lookup computes lies in the table it has loaded, and   *)
(* the node it visits exists, though it holds no lock while the owner      *)
(* splits pages, grows the table and retires nodes.                        *)
THEOREM LookupsInBounds == Spec => [](TypeOK /\ InBounds)
<1>1. ExactInv => TypeOK /\ InBounds
  BY ExactIsTyped, ExactInBounds
<1>. QED
  BY <1>1, ExactAlways, PTL

(* No lookup reads a table that has been freed, nor past the end of one,   *)
(* while Retire finds the memory to keep the tables that were replaced.    *)
THEOREM LookupsSafe == ~RetireFails => (Spec => []SafeLookups)
<1>. SUFFICES ASSUME ~RetireFails PROVE Spec => []SafeLookups
  OBVIOUS
<1>1. ExactInv => SafeLookups
  <2>. SUFFICES ASSUME ExactInv PROVE SafeLookups
    OBVIOUS
  <2>1. NoFreedTable
    BY DEF ExactInv, FreedInv, NoFreedTable
  <2>. QED
    BY <2>1, ExactIsTyped, ExactInBounds DEF SafeLookups
<1>. QED
  BY <1>1, ExactAlways, PTL

(* Under the lock the map is exact, through page splits, growth of the     *)
(* table, pages left out for want of memory, and slabs several of whose    *)
(* pages share a chain.                                                    *)
THEOREM MapExact == Spec => []IndexExact
BY ExactIsIndex, ExactAlways, PTL

=============================================================================
