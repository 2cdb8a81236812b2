------------------------------- MODULE SlabMap -------------------------------
(***************************************************************************)
(* The page map of the small block allocator (SBASlabMap in                *)
(* src/tier0/mem.cpp): a hash table from pages to the slabs that lie on    *)
(* them.  It is changed under m_cs (CarveSlab, DestroySlab) and read       *)
(* without it by SBAFastClassify, one memory access per step.              *)
(*                                                                         *)
(* An address is counted in half pages, so that slabs can straddle pages,  *)
(* and a slab is named by its base.  Nodes and tables are numbered in the  *)
(* order they are allocated.  A reader asks about a block it holds, whose  *)
(* slab therefore lives, or about CRT memory, which no slab is then in.    *)
(***************************************************************************)
EXTENDS Links, SequencesExt

CONSTANTS
  Reader,        \* threads that classify a pointer
  Base,          \* where slabs may begin
  Bucket,        \* SBA_BUCKETS
  Size,          \* Size[b]: SBASlabBytes(b)
  NoBucket,      \* SBA_NO_BUCKET
  Cap0,          \* size of the first table (1024)
  MaxWalk,       \* MAX_WALK
  MaxNode,       \* memory for nodes
  MaxTable,      \* memory for tables
  RetireFails    \* the list of retired tables may fail to grow

ASSUME SizeAssumption ==
  /\ Base \subseteq Nat
  /\ Size \in [Bucket -> Nat \ {0}]
  /\ {Cap0, MaxWalk, MaxNode, MaxTable} \subseteq Nat \ {0}
ASSUME BucketAssumption == NoBucket \notin Bucket

VARIABLES
  tab,      \* the published table (0: none)
  mask,     \* the table whose size the published mask fits (0: none)
  heads,    \* heads[t]: the chains of table t
  freed,    \* tables given back to the C library
  node,     \* the fields of the nodes allocated so far
  pool,     \* head of the list of retired nodes
  used,     \* nodes linked in the table
  live,     \* bucket of the slab at each base, once it has blocks out
  wpc,      \* where the owner of m_cs is
  slab,     \* the base and bucket of the slab it carves or destroys
  job,      \* the page and the node it works on
  rpc,      \* where each reader is in SBAFastClassify
  addr,     \* the pointer it asks about
  look,     \* what it has read: mask, table, node, hops
  ans       \* its answer

table == <<tab, mask, heads, freed>>
nodes == <<node, pool, used>>
writer == <<live, wpc, slab, job>>
reader == <<rpc, addr, look, ans>>
vars == <<table, nodes, writer, reader>>

Page(a) == a \div 2
Span(c, b) == c .. c + Size[b] - 1
Pages(c, b) == {Page(a) : a \in Span(c, b)}
Address == UNION {Span(c, b) : c \in Base, b \in Bucket}

(* Each table is twice as large as the one before.                         *)
Cap[t \in Nat] == IF t <= 1 THEN t * Cap0 ELSE 2 * Cap[t - 1]

Key(p, t) == p % Cap[t]

NoSlab == [c |-> 0, b |-> NoBucket]
NoJob == [page |-> 0, n |-> 0]
NoLook == [mask |-> 0, tab |-> 0, n |-> 0, hops |-> 0]

Init ==
  /\ tab = 0 /\ mask = 0
  /\ heads = <<>> /\ freed = {}
  /\ node = <<>> /\ pool = 0 /\ used = 0
  /\ live = [c \in Base |-> NoBucket]
  /\ wpc = "idle" /\ slab = NoSlab /\ job = NoJob
  /\ rpc = [r \in Reader |-> "idle"]
  /\ addr = [r \in Reader |-> 0]
  /\ look = [r \in Reader |-> NoLook]
  /\ ans = [r \in Reader |-> NoBucket]

(* The slab that lies at an address, as a set of one base or none.         *)
SlabsAt(a) == {c \in Base : live[c] # NoBucket /\ a \in Span(c, live[c])}

(* The nodes of the chain that starts with n.                              *)
Chain(n) == ChainFrom(node, Len(node), n)

Linked == FlattenSeq([k \in 1 .. Cap[tab] |-> Chain(heads[tab][k - 1])])

-----------------------------------------------------------------------------
(* CarveSlab and DestroySlab, which run through the pages of a slab.       *)

(* No reader holds a pointer to this memory.                               *)
Unasked(c, b) == \A r \in Reader : rpc[r] # "idle" => addr[r] \notin Span(c, b)

Carve(c, b) ==
  /\ wpc = "idle"
  /\ \A d \in Base : live[d] # NoBucket => Span(d, live[d]) \cap Span(c, b) = {}
  /\ Unasked(c, b)
  /\ wpc' = "grow"
  /\ slab' = [c |-> c, b |-> b]
  /\ job' = [page |-> Page(c), n |-> 0]
  /\ UNCHANGED <<table, nodes, live, reader>>

Destroy(c) ==
  /\ wpc = "idle"
  /\ live[c] # NoBucket
  /\ Unasked(c, live[c])
  /\ wpc' = "unlink"
  /\ slab' = [c |-> c, b |-> live[c]]
  /\ job' = [page |-> Page(c), n |-> 0]
  /\ live' = [live EXCEPT ![c] = NoBucket]
  /\ UNCHANGED <<table, nodes, reader>>

(* The next page of the slab, or the end of the operation.                 *)
NextPage(first, done) ==
  IF job.page + 1 \in Pages(slab.c, slab.b)
    THEN /\ wpc' = first
         /\ job' = [job EXCEPT !.page = @ + 1, !.n = 0]
         /\ UNCHANGED <<live, slab>>
    ELSE /\ wpc' = "idle"
         /\ slab' = NoSlab /\ job' = NoJob
         /\ live' = [live EXCEPT ![slab.c] = done]

Inserted == NextPage("grow", slab.b)

(* Faulty: only the page of the slab's base is removed.                    *)
RemovedBase == wpc' = "idle" /\ slab' = NoSlab /\ job' = NoJob /\ UNCHANGED live

Removed == NextPage("unlink", NoBucket)

-----------------------------------------------------------------------------
(* InsertKey and Grow.                                                     *)

Full == used * 2 >= Cap[tab]

NoGrow ==
  /\ wpc = "grow"
  /\ ~Full
  /\ wpc' = "node"
  /\ UNCHANGED <<table, nodes, live, slab, job, reader>>

(* The old table joins the list of retired ones, or is freed.              *)
Retire ==
  \/ UNCHANGED freed
  \/ RetireFails /\ tab # 0 /\ freed' = freed \union {tab}

(* Copies of all nodes are chained, each before those copied earlier.      *)
Copies(old, t) ==
  LET at == Len(node)
      prior(k) == {m \in 1 .. k - 1 :
                     Key(node[old[m]].page, t) = Key(node[old[k]].page, t)}
  IN  [k \in DOMAIN old |->
         [node[old[k]] EXCEPT !.next = IF prior(k) = {} THEN 0 ELSE at + Max(prior(k))]]

Heads(old, t) ==
  [j \in 0 .. Cap[t] - 1 |->
     LET mine == {m \in DOMAIN old : Key(node[old[m]].page, t) = j}
     IN  IF mine = {} THEN 0 ELSE Len(node) + Max(mine)]

Grow ==
  LET old == Linked
      t == Len(heads) + 1
  IN  /\ wpc = "grow" /\ Full
      /\ t <= MaxTable
      /\ Len(node) + Len(old) <= MaxNode
      /\ heads' = Append(heads, Heads(old, t))
      /\ node' = node \o Copies(old, t)
      /\ Retire
      /\ wpc' = "first"
      /\ UNCHANGED <<tab, mask, pool, used, live, slab, job, reader>>

(* No memory for the table or, at any point, for a copy: what was copied   *)
(* is dropped, the page is not indexed.                                    *)
GrowFails ==
  /\ wpc = "grow" /\ Full
  /\ Inserted
  /\ UNCHANGED <<table, nodes, reader>>

(* Faulty: the mask is published before the table it fits.                 *)
MaskFirst == <<"mask", "tab">>

(* The two words readers see, in the order they are stored.                *)
Published == <<"tab", "mask">>

Store(word) ==
  IF word = "tab" THEN tab' = Len(heads) /\ UNCHANGED mask
                  ELSE mask' = Len(heads) /\ UNCHANGED tab

StoreFirst ==
  /\ wpc = "first"
  /\ Store(Published[1])
  /\ wpc' = "second"
  /\ UNCHANGED <<heads, freed, nodes, live, slab, job, reader>>

StoreSecond ==
  /\ wpc = "second"
  /\ Store(Published[2])
  /\ wpc' = "node"
  /\ UNCHANGED <<heads, freed, nodes, live, slab, job, reader>>

(* GetNode: a retired node, a fresh one with whatever in it, or none for   *)
(* want of memory.                                                         *)
Fresh == [base |-> 0, end |-> 0, bucket |-> NoBucket, page |-> 0, next |-> 0]

GetNode ==
  /\ wpc = "node"
  /\ \/ /\ pool # 0
        /\ job' = [job EXCEPT !.n = pool]
        /\ pool' = node[pool].next
        /\ wpc' = "base"
        /\ UNCHANGED <<node, live, slab>>
     \/ /\ pool = 0 /\ Len(node) < MaxNode
        /\ node' = Append(node, Fresh)
        /\ job' = [job EXCEPT !.n = Len(node) + 1]
        /\ wpc' = "base"
        /\ UNCHANGED <<pool, live, slab>>
     \/ /\ pool = 0
        /\ Inserted
        /\ UNCHANGED <<node, pool>>
  /\ UNCHANGED <<table, used, reader>>

SetField(at, then, new) ==
  /\ wpc = at
  /\ node' = [node EXCEPT ![job.n] = new]
  /\ wpc' = then
  /\ UNCHANGED <<table, pool, used, live, slab, job, reader>>

SetBase == SetField("base", "end", [node[job.n] EXCEPT !.base = slab.c])
SetEnd == SetField("end", "bucket", [node[job.n] EXCEPT !.end = slab.c + Size[slab.b]])
SetBucket ==
  SetField("bucket", "next",
           [node[job.n] EXCEPT !.page = job.page, !.bucket = slab.b])
SetNext ==
  SetField("next", "link",
           [node[job.n] EXCEPT !.next = heads[tab][Key(job.page, mask)]])

Link ==
  /\ wpc = "link"
  /\ heads' = [heads EXCEPT ![tab][Key(job.page, mask)] = job.n]
  /\ used' = used + 1
  /\ Inserted
  /\ UNCHANGED <<tab, mask, freed, node, pool, reader>>

-----------------------------------------------------------------------------
(* Remove and PutNode.                                                     *)

Here == IF tab = 0 THEN <<>> ELSE Chain(heads[tab][Key(job.page, mask)])

(* The first node of the slab is cut out of its chain.                     *)
Unlink(k) ==
  /\ wpc = "unlink"
  /\ k \in DOMAIN Here
  /\ node[Here[k]].base = slab.c
  /\ \A m \in 1 .. k - 1 : node[Here[m]].base # slab.c
  /\ IF k = 1
       THEN /\ heads' = [heads EXCEPT ![tab][Key(job.page, mask)] = node[Here[1]].next]
            /\ UNCHANGED node
       ELSE /\ node' = [node EXCEPT ![Here[k - 1]].next = node[Here[k]].next]
            /\ UNCHANGED heads
  /\ job' = [job EXCEPT !.n = Here[k]]
  /\ wpc' = "put"
  /\ UNCHANGED <<tab, mask, freed, pool, used, live, slab, reader>>

(* A page that was not indexed for want of memory.                         *)
NotIndexed ==
  /\ wpc = "unlink"
  /\ \A k \in DOMAIN Here : node[Here[k]].base # slab.c
  /\ Removed
  /\ UNCHANGED <<table, nodes, reader>>

PutNode ==
  /\ wpc = "put"
  /\ node' = [node EXCEPT ![job.n].next = pool]
  /\ pool' = job.n
  /\ used' = used - 1
  /\ Removed
  /\ UNCHANGED <<table, reader>>

-----------------------------------------------------------------------------
(* SBAFastClassify and FindBucket, without the lock.                       *)

Step(r, l, new) ==
  /\ rpc' = [rpc EXCEPT ![r] = l]
  /\ look' = [look EXCEPT ![r] = new]
  /\ UNCHANGED <<table, nodes, writer, addr>>

(* The pointer is to a block of a live slab, or to no slab and none to be. *)
Classify(r, a) ==
  /\ rpc[r] = "idle"
  /\ SlabsAt(a) = {} /\ wpc # "idle" => a \notin Span(slab.c, slab.b)
  /\ rpc' = [rpc EXCEPT ![r] = "mask"]
  /\ addr' = [addr EXCEPT ![r] = a]
  /\ UNCHANGED <<table, nodes, writer, look, ans>>

LoadMask(r) ==
  /\ rpc[r] = "mask"
  /\ Step(r, IF mask = 0 THEN "done" ELSE "tab", [look[r] EXCEPT !.mask = mask])
  /\ UNCHANGED ans

LoadTab(r) ==
  /\ rpc[r] = "tab"
  /\ Step(r, IF tab = 0 THEN "done" ELSE "head", [look[r] EXCEPT !.tab = tab])
  /\ UNCHANGED ans

(* Where a lookup goes that has n as its next node.                        *)
Visit(n, hops) == IF n # 0 /\ hops < MaxWalk THEN "base" ELSE "done"

LoadHead(r) ==
  LET n == heads[look[r].tab][Key(Page(addr[r]), look[r].mask)]
  IN  /\ rpc[r] = "head"
      /\ Step(r, Visit(n, 0), [look[r] EXCEPT !.n = n])
      /\ UNCHANGED ans

TestBase(r) ==
  /\ rpc[r] = "base"
  /\ Step(r, IF addr[r] >= node[look[r].n].base THEN "end" ELSE "next", look[r])
  /\ UNCHANGED ans

TestEnd(r) ==
  /\ rpc[r] = "end"
  /\ Step(r, IF addr[r] < node[look[r].n].end THEN "bucket" ELSE "next", look[r])
  /\ UNCHANGED ans

(* Faulty: the walk is not bounded.                                        *)
FollowForever(r) ==
  LET n == node[look[r].n].next
  IN  /\ rpc[r] = "next"
      /\ Step(r, IF n # 0 THEN "base" ELSE "done", [look[r] EXCEPT !.n = n])
      /\ UNCHANGED ans

Follow(r) ==
  LET n == node[look[r].n].next
      hops == look[r].hops + 1
  IN  /\ rpc[r] = "next"
      /\ Step(r, Visit(n, hops), [look[r] EXCEPT !.n = n, !.hops = hops])
      /\ UNCHANGED ans

(* The bucket in the header below the block; none below CRT memory.        *)
Header(a) == {live[c] : c \in SlabsAt(a)}

(* Faulty: the node is believed.                                           *)
TrustNode(r) ==
  /\ rpc[r] = "bucket"
  /\ ans' = [ans EXCEPT ![r] = node[look[r].n].bucket]
  /\ Step(r, "done", look[r])

(* The node's bucket is the answer if the block's header says the same.    *)
(* The tests of the distance to the node's base, read once more, only add  *)
(* cases in which nothing is found.                                        *)
CheckHeader(r) ==
  LET b == node[look[r].n].bucket
  IN  /\ rpc[r] = "bucket"
      /\ ans' = [ans EXCEPT ![r] = IF b \in Header(addr[r]) THEN b ELSE NoBucket]
      /\ Step(r, "done", look[r])

Return(r) ==
  /\ rpc[r] = "done"
  /\ ans' = [ans EXCEPT ![r] = NoBucket]
  /\ rpc' = [rpc EXCEPT ![r] = "idle"]
  /\ addr' = [addr EXCEPT ![r] = 0]
  /\ look' = [look EXCEPT ![r] = NoLook]
  /\ UNCHANGED <<table, nodes, writer>>

-----------------------------------------------------------------------------
Write ==
  \/ \E c \in Base : \E b \in Bucket : Carve(c, b)
  \/ \E c \in Base : Destroy(c)
  \/ NoGrow \/ Grow \/ GrowFails \/ StoreFirst \/ StoreSecond
  \/ GetNode \/ SetBase \/ SetEnd \/ SetBucket \/ SetNext \/ Link
  \/ \E k \in 1 .. MaxNode : Unlink(k)
  \/ NotIndexed \/ PutNode

Read(r) ==
  \/ LoadMask(r) \/ LoadTab(r) \/ LoadHead(r)
  \/ TestBase(r) \/ TestEnd(r) \/ Follow(r) \/ CheckHeader(r) \/ Return(r)

Next ==
  \/ Write
  \/ \E r \in Reader : \E a \in Address : Classify(r, a)
  \/ \E r \in Reader : Read(r)

Spec == Init /\ [][Next]_vars

(* A thread that classifies a pointer waits for nobody.                    *)
FairSpec == Spec /\ \A r \in Reader : WF_vars(Read(r))

-----------------------------------------------------------------------------
TypeOK ==
  /\ {tab, mask} \subseteq 0 .. Len(heads)
  /\ Len(heads) <= MaxTable
  /\ freed \subseteq 1 .. Len(heads)
  /\ \A t \in DOMAIN heads : heads[t] \in [0 .. Cap[t] - 1 -> 0 .. Len(node)]
  /\ Len(node) <= MaxNode
  /\ \A n \in DOMAIN node :
       /\ node[n].next \in 0 .. Len(node)
       /\ node[n].bucket \in Bucket \union {NoBucket}
  /\ pool \in 0 .. Len(node)
  /\ used \in 0 .. MaxNode
  /\ live \in [Base -> Bucket \union {NoBucket}]
  /\ addr \in [Reader -> Nat]
  /\ ans \in [Reader -> Bucket \union {NoBucket}]
  /\ rpc \in [Reader -> {"idle", "mask", "tab", "head", "base", "end", "next",
                         "bucket", "done"}]

(* A lookup without the lock may miss, but it never answers with another   *)
(* bucket than the block's own, and never takes CRT memory for a block,    *)
(* though it may read nodes that are retired or half rewritten.            *)
AnswerRight ==
  \A r \in Reader : rpc[r] = "done" => ans[r] \in Header(addr[r]) \union {NoBucket}

(* A reader's index lies in the table it has loaded, and its node exists.  *)
InBounds ==
  \A r \in Reader :
    /\ rpc[r] = "head" => Key(Page(addr[r]), look[r].mask) \in DOMAIN heads[look[r].tab]
    /\ rpc[r] \in {"base", "end", "next", "bucket"} => look[r].n \in DOMAIN node

(* "Retired tables are never returned to the OS": no reader is about to    *)
(* read a table that has been freed.                                       *)
NoFreedTable ==
  \A r \in Reader : rpc[r] = "head" => look[r].tab \notin freed

(* A lookup without the lock reads existing tables, inside their bounds.   *)
SafeLookups == TypeOK /\ InBounds /\ NoFreedTable

(* Under the lock the map is exact: its nodes are those of live slabs, at  *)
(* most one for each of their pages, and counted by used.                  *)
IndexExact ==
  wpc = "idle" =>
    /\ used = Len(Linked)
    /\ \A k \in DOMAIN Linked :
         LET n == node[Linked[k]]
         IN  /\ live[n.base] = n.bucket /\ n.bucket # NoBucket
             /\ n.page \in Pages(n.base, n.bucket)
             /\ n.end = n.base + Size[n.bucket]
             /\ \A m \in DOMAIN Linked :
                  node[Linked[m]].page = n.page /\ node[Linked[m]].base = n.base => m = k

(* A lookup ends, even when nodes are moved under it for ever.             *)
LookupEnds == \A r \in Reader : (rpc[r] # "idle") ~> (rpc[r] = "idle")

=============================================================================
