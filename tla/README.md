# A TLA+ model of tier0

This directory holds a TLA+ model of the concurrent and stateful parts of
tier0: the small block allocator with its memory arena and its page map, the
worker thread handshake, the fast mutex, the one-time answers and the sleep's
timer, the output of messages, and ten smaller services, from the thread object
to the crash handler and the file system. TLC checks the model on small
instances. TLAPS proves most of the invariants for every number of threads,
buckets, chunks, slabs, callers, writers and handles. `PROJECT.json` is the index: components,
runs, the source lines each definition stands for, findings, hazards and
theorems.

## 1. Inventory

### The parts of the system

**Small block pool and thread caches** (`mem.cpp`, `CSmallBlockAlloc`,
`SBAThreadCaches`). Requests up to 2048 bytes are rounded to one of a few
dozen sizes; each size is a *bucket*. A bucket owns slabs; a slab is one chunk
cut into equal blocks. *State:* the list of slabs; per slab the bucket, the
carve pointer, a free chain and its count; per bucket the current slab and the
list of slabs with a free block; per thread and bucket a cache (a LIFO chain and
its count). *Operations:* `Alloc`, `Realloc`, `Free`, the refill (`PopBatch`),
the trim (`TLSFree`), the flush at thread exit. *Interaction:* the caches are
touched without a lock, the pool under `m_cs`; chunks come from the arena or
from `malloc`; `Free` finds a block's slab in the page map without a lock.
*Hard:* a block may be freed by any thread; a slab dies with its last free
block, while other threads' caches and refills hold blocks; chains run through
the payload of free blocks and are cut by counts kept beside them.
*Correct when:* no block has two owners, none dangles, none is lost, the counts
equal the chains, `Alloc` fails only when its bucket is empty.

**Slab arena and prepage helper** (`mem.cpp`, `SBArena_*`). *State:* a
reservation, the committed frontier, the next fresh page, the touched frontier,
a target, two lists of recycled chunks, the helper's stop flag. *Operations:*
`SBArena_Start`, `Alloc`, `Free`, the helper's loop, `SBArena_Stop`, `~SBArena`.
*Interaction:* the pool allocates and frees; the helper runs beside it; both
drop `g_arena.cs` around system calls. *Hard:* the helper announces a commit
before making it, rolls back when it is refused, and writes to pages after it
has dropped the lock; the teardown waits for it no longer than 3 seconds.
*Correct when:* chunks in use are committed, disjoint and never written by the
helper; the helper touches committed memory only, and exits.

**Slab page map** (`mem.cpp`, `SBASlabMap`). *State:* a hash table of page to
slab, retired tables, a pool of nodes. *Operations:* insert, remove, grow,
lock-free lookup. *Hard:* lookups walk chains that change under them.
*Correct when:* a lookup ends, touches only tables that exist and at an index
they have, and never answers with a wrong bucket; under the lock the map is exact.

**Worker thread handshake** (`threadtools.cpp`, `CWorkerThread`). *State:* one
call slot (parameter and flag bits) and two auto-reset events. *Operations:*
`Call` with and without waiting, `WaitForCall`, `PeekCall`, `Reply`.
*Interaction:* any thread calls, one worker serves; a caller whose time is up
terminates the worker. *Hard:* slot and events are separate words written in
a fixed order; a late signal meets the next call. *Correct when:* the slot has
one owner, a request is served at most once, a caller gets its own reply.

**Fast mutex** (`threadtools.cpp`, `CThreadFastMutex`). *State:* an owner word
and a count. *Operations:* `Lock`, `TryLock`, `Unlock`. *Hard:* only the owner
word is interlocked; `Unlock` by a non-owner touches the count in later steps;
a bounded `Lock` gives up silently. *Correct when:* one thread is inside at a
time and the lock is released with the last `Unlock`, not before.

**Thread lifecycle** (`threadtools.cpp`, `CThread`). Start with a handshake on
the creator's stack, exit, join, terminate. *Hard:* the start may time out while
the new thread still refers to the creator's locals; exit races `Join`.
*Correct when:* nobody writes to a dead stack, the handle is closed once.

**High resolution timer, one-time answers** (`threadtools.cpp`, `platform.cpp`,
`minidump.cpp`). *State:* words that go from unknown to asking to ready, answers
beside them; the state of the system timer. *Operations:* `PreciseSleep`, the
questions it asks, `PreciseSleepRaiseTimer`, `Tier0ShutdownHighResTimer`.
*Interaction:* sleeping threads, the worker's callers and the minidump writer ask
at once; the unloading library releases the timer. *Hard:* those who wait for a
claimant spin for as long as it takes; those who wait for a raise lose patience
after 100 ms and set its state back. *Correct when:* all are told the same answer,
and only a finished one; no more is released than was raised; calls return.

**Thread-local slots** (`threadtools.cpp`, `CThreadLocalBase`, `CThreadLocalPtr`).
An object owns a slot of the system's storage. *Hard:* an assignment gives its
slot back before it asks for a new one. *Correct when:* a slot has one owner and
each thread finds what it put there.

**VProf** (`vprof.cpp`). A node tree with a cursor, a depth, a stack of budget
groups. *Operations:* enter and exit a scope, `Start`, `Stop`, `Term`, mark a
frame, pause, resume. *Hard:* scopes open across `Start`, `Stop` or `Term`; a full
group stack. *Correct when:* cursor, depth, entries and group stack tell the same
story, and a node collects the time it was entered for.

**Minidump lock** (`minidump.cpp`, `exports_fillins.cpp`). A thread id and a
level, two words. *Hard:* the trampoline unlocks what it may not have locked.
*Correct when:* one thread writes dumps, and the lock comes free.

**Scratch memory** (`exports_fillins.cpp`). One growing block used as a stack,
and the sizes taken. *Correct when:* the pieces handed out are apart and inside.

**Spew groups** (`dbg.cpp`). A sorted array of named levels, under a mutex.
*Hard:* names longer than the array keeps; a test whose result is used after the
mutex is given back. *Correct when:* what was given is found.

**Spew output** (`dbg.cpp`). *State:* the groups' mutex, the recursive output
mutex, the host's output function, the site of the assertion per thread.
*Operations:* messages with and without a group, assertions, fatal ones, what is
done with the host's answer. *Hard:* the host's function runs under the mutex and
may spew itself; a message may exit the process or break into the debugger.
*Correct when:* one thread is in the output function, and every message lets go
of the mutexes it took.

**Validator** (`validator.cpp`). A linked list of records with a current and a
last one. *Operations:* `Push`, `Pop`, `DiffAgainst`, assignment. *Correct when:*
every list is its own, with parents before their children.

**File system** (`filesystem.cpp`). Search paths, open files each with a position
and a read buffer or none, search handles. *Hard:* a buffer is a mapped view, a
pool block or pages, and must go back where it is from; writes make it stale; a
line may end in two bytes, at the end of the client's buffer or of the file.
*Correct when:* a buffer has one owner and a handle's own write drops it; handles
stay; lines and tokens make up the file.

**Crash handler** (`tier0.cpp`, `minidump.cpp`). *State:* the path of the log, the
installed handler, the gate, the log itself. *Operations:* `DllMain`, the handler
with its rotation, appends and dump. *Hard:* threads fault together, the handler
faults, the process dies in the middle and the next one appends to the same log.
*Correct when:* a record is in one piece, and the gate opens again.

**Size classes** (`mem.cpp`, `SBARound` to `SBACapForSlot`). Pure arithmetic that
the pool's counts rest on. *Correct when:* requests fit their blocks, blocks fit
their slabs, refills fit their arrays.

**Large blocks, interface registry, assert dialog, platform queries, math, export
shims**: calls of the C library, pure functions, start-up lists or binary
compatibility.

### How the modelled parts interact

    program -> Alloc/Realloc/Free -> thread caches -> m_cs -> pool -> arena -> OS
                                          |                     |        |
                                          +-- page map (lookup) +     helper thread
    client threads -> Lock/Unlock  (fast mutex)
    client threads -> Call -> slot + two events -> worker

    owner  -> Start/Join/Terminate -> frame, event -> the new thread
    client -> GetReadBuffer/Release -> file handle -> pool or pages
    sleeper -> one-time answers -> timer -> system     library's unloading -> timer
    writer -> groups' mutex -> output mutex -> host's function -> writer ...
    fault  -> gate -> log, dump lock -> next handler

The crash handler writes its dump under the minidump lock and is composed with
it (`CrashHandler` extends `MiniDumpLock`). The other services, the fast mutex,
the one-time answers and the output of messages share no state with one another.
(The file system takes its blocks from the allocator; in its model an allocation
yields either kind of block.)

The arena sees one allocation at a time, because the pool calls it with `m_cs`
held, so pool and arena are checked apart. Each stands in the other's model by
what it does: in the pool's model any free chunk may be obtained, or none; in
the arena's model the pool asks for and returns chunks in any order. The page map
meets the pool in two places: the pool changes it under `m_cs`, and `Free` asks it
without the lock. In the pool's model a lookup answers right or misses, which
is what the model of the map proves of it (`Answers`); in the map's model slabs
come and go anywhere they do not overlap.

## 2. Modules

| module | models | state and actions against the code |
|---|---|---|
| `BlockStore` | what the allocator promises the program | `inUse`, the blocks the program holds; `Allocate` gives out a block apart from all of them; `Release` takes one back |
| `SmallBlockAlloc` | pool, caches, entry points | see below; contains the refinement `ImplementsStore` |
| `SmallBlockAlloc_proofs` | theorems about it and about `SizeClasses` | |
| `SlabArena` | `SBArena_*` and the helper | `apc`, `hpc`, `tpc`: where the allocation, the helper and the teardown are between two lock holds |
| `SlabArena_proofs` | theorems about it | |
| `SlabMap` | `SBASlabMap`, `SBAFastClassify` | `wpc` and `rpc`: where the owner of `m_cs` and the lookups are; one access to shared memory per step of a lookup, one field of a node per step of the owner |
| `SlabMap_proofs` | theorems about it | |
| `MCMemory` | both, side by side, for one run | they share no state; a behaviour is about one of them |
| `Links` | the loops over linked records, of the page map's nodes and the validator's records | `ChainFrom`: the records in the order the loop meets them |
| `Links_proofs` | lemmas about such chains: pushing, popping and cutting records; least numbers and induction; parts of sequences and their concatenation | |
| `WorkerThread` | `CWorkerThread` | one step per access to the slot or an event |
| `MCWorkerThread` | callers of both kinds, or one that always waits | a behaviour is about either |
| `WorkerThread_proofs` | theorems about both | |
| `FastMutex` | `CThreadFastMutex` | one step per access to the owner word or the count |
| `SizeClasses` | `SBARound`, `SBABucket`, `SBAPayload`, `SBASlot`, slab sizes, cache caps | operators with the code's numbers |
| `PreciseSleep` | the one-time answers, `PreciseSleep`, its timer and its release | `at`: function and step of each thread; one step per access to a word |
| `SpewOutput` | `_SpewMessage`, `_DSpewMessage`, assertions, `ExitOnFatalAssert` | `frames`: the messages each thread has in hand, nested; one step per mutex operation or call of the host |
| `MCProgress` | `FastMutex`, `PreciseSleep`, `SpewOutput` in one instance | a behaviour is about one of them |
| `Progress_proofs` | theorems about the three | |
| `ThreadLifecycle` | `CThread` | `owner`: where the owner's call is; `thr`: where in `ThreadProc` each thread is; one step per access to the shared frame or object |
| `TlsSlots` | `CThreadLocalBase`, `CThreadLocalPtr` | one action per call, two for an assignment |
| `VProf` | `CVProfile`, `CVProfNode` | a node is its path of names; one action per call |
| `MiniDumpLock` | `BGetMiniDumpLock`, `MiniDumpUnlock`, the trampoline | one step per access to either word |
| `CrashHandler` | `DllMain`, the vectored handler, the log, with the dump lock | `stage`: where in the handler each thread is; one step per append |
| `CrashHandler_proofs` | theorems about it and the dump lock | |
| `ScratchStack` | `MemAllocScratch`, `MemFreeScratch` | one action per call; the callers' pieces are kept beside |
| `SpewGroups` | `SpewGroup_t` and its functions | names are numbers in their order; one step per hold of the mutex |
| `Validator` | `CValidator` | records in a heap of numbers; one action per call |
| `FileSystem` | `CFileSystem`: paths, files, buffers | one action per call; a file's content is the number of its version |
| `FindHandles` | `CFileSystem`: searches | the table of slots |
| `TextFile` | `CFileSystem`: position, lines, tokens of one file | one action per call; five kinds of byte |
| `MCServices` | the ten services in one instance | a behaviour is about one of them, the others rest |
| `Services_proofs` | theorems about thread objects, thread-local slots, search handles, scratch memory, files with their buffers, spew groups, the profiler, the validator, the lines and tokens of a file | |
| other `MC*` | instances for TLC | constants only |

A comment "Faulty:" marks an operator that is not part of the specification: it
is the definition below it with a plausible mistake, kept to show that the
properties notice the mistake (the `mutants` of `PROJECT.json`).

**SmallBlockAlloc.** Chunks, buckets and threads are constants. A block is the
triple of its chunk, its bucket and its index: what the block's address
determines in the program. Chains are sets, since no property depends on which
free block is first. `stage` is where a thread is:

    idle --Alloc, cache empty--> refill --m_cs--> pop <-> carve --> idle | retire
    idle --Free, cache full--> drain --m_cs--> push --> idle
    idle --thread exits--m_cs--> flush --> gone --new thread--> idle

Every iteration of a loop under `m_cs` is a step, and the lock-free steps of
other threads run between any two. `Push` with its destruction of frozen slabs
is one operator used by Realloc, the locked Free, the trim and the flush, as in
the code. Since a lock-free lookup may miss, `Free` may always take its locked
path.

**SlabArena.** The unit is a page. System calls happen outside `g_arena.cs`; a
step is a lock hold or a system call, and either commit may be refused. The
constants are the code's sizes (1 MB slices, 8 MB cushion, 16 MB boost) in pages.

**SlabMap.** Nodes and tables are numbered; a table keeps its chains when it is
retired, as the code keeps the memory. Addresses are counted in half pages, so a
slab may share its pages with others. `Grow` builds the copies in one step,
since nobody can see them before the table is published; the two words that
publish it, the mask and the table, are stored in steps of their own. A lookup
reads the mask, the table, the head, then base, end, bucket and next of each node
in separate steps, while `GetNode` hands out nodes again and their fields are
rewritten. A reader asks about a block it holds, so its slab stays
(`NoDanglingBlock` of the pool), or about CRT memory; no slab is carved over that
memory meanwhile (`Unasked`). CRT memory whose bytes below the pointer look like the
header of a block, magic word included, is left out: `Header` is empty there.
Both kinds of failure for want of memory are kept: no table, no node.

**WorkerThread.** `flags` and `param` are the slot, `send` and `complete` the
events. A call carries a number, so the property can tell whose reply it is.
`Terminate` may stop the worker between any two of its steps. `CanFail` says
whether `TerminateThread` may fail.

**FastMutex.** `depth` is a history of what each thread has taken. `Stray` are
the threads that unlock what they never locked, as the client of a bounded
`Lock` does that gave up, for `Lock` returns nothing.

**PreciseSleep.** A one-time answer is one gate for all of its kind: modes of the
sleep, the worker's timeout, the clock, the minidump flag. `OneWord` are those
whose word is the answer; the others store the answer first and the word after
it. A call walks through the gates as the code does: mode, timer, clock, sleep.
`Terminate` ends a thread inside any call. A wait for the timer's raise is given
up at once when the raiser is dead, and `MaxSlow` times although it lives.
A raise that was taken back may be followed by a second one; both may succeed,
and one release is made: after a reset, `TimerInOrder` says only that no more is
released than was raised. How long a sleep lasts is left out.

**SpewOutput.** A message is a frame with its step, what holds the mutex for it,
the function it was given to and the answer. The host's function spews at most
`MaxInner` messages for each it gets, and answers as it likes; the default one
answers by the message's type. A message that is aborted spews again and exits;
one that goes to the debugger stops the thread. Nested in another, it stops while
the outer one holds the mutex, and others wait for ever: `SpewReturns` says so.

**CrashHandler.** A record is three appends, which stand for the many of the code,
each of which may fail by itself; only the first look at the log, which may fail
too, decides whether there is more. `NextProcess` ends the process wherever its
threads are and keeps the log. A second asker for the log's path is not made to
wait: it is given the fallback. `crash` numbers the records for the property.

**TextFile.** A byte is CR, LF, a quote, a brace or another. `ReadLine` returns
NULL when it read nothing and the file is at its end: so it does for an empty
last line (`filesystem.cpp:789`), which the model keeps. `lines` and `tokens` are
histories that the properties compare with the file.

**TlsSlots.** The system may hand any free slot to anybody, between the two halves
of an assignment too. The client uses no object that is being assigned to.

**ThreadLifecycle.** Start's event and flag live in its stack frame. A write by
a thread whose `Start` has returned goes to whatever is there now: to the frame
of the next `Start`, or to nothing of ours (`Written`). `late` and `ghosts` record
such writes. A `Start` that gives up after its minute is an action
(`StartTimesOut`); after one, nothing keeps the frame, nor the object, in place,
and the properties speak of behaviours without one.

**VProf.** A behaviour follows one of three regimes. *plain*: scopes nest, and
the profiler is switched outside of all scopes. *pausing*: the same with `Pause`
and `Resume`. *straddling*: `Start`, `Stop` and `Term` come anywhere, time stands
still. Of `ProfInOrder` the parts about the tree, the cursor and the depth hold
in all three; that the root is entered once, and that the group stack follows
the cursor, only where scopes nest, since a call that finds the profiler disabled
does nothing. Times with pauses are right for the root only: `Pause`
and `Resume` go down first children (`Running`), so a running node with a younger
sibling is passed over.

**MiniDumpLock.** With `ownWriter` the trampoline leaves the lock alone, and the
properties hold. Without it, the trampoline of a second thread lowers the level
of the holder: the holder's lock goes while it writes, or the level falls below
zero and the lock never comes free. Such behaviours are in the model; the
properties exclude them by name.

**FileSystem.** A search path is removed where it stands first, as the code erases
it; a file is looked for here and then along the paths (`ResolvesTo`). Both builds are modelled, chosen at the start. They differ in
`Joined` (a backslash joins path and name, so on Linux no search path matches), in
`Creates` (`r+` creates the file on Linux and does not search), in sharing, and in
`TakenFor`: how a block goes back. The client is one thread that forgets a buffer
when it writes to or closes its handle, and releases a buffer once, through the handle
it came from; what `ReleaseReadBuffer` does with any other (`filesystem.cpp:945`) is
left out, and so are the modes `w+` and `a+`.

**Validator.** A push behind a record that already has a successor cuts off
what followed it; those records are lost, as in the code (finding 6). The client leaves a
validator alone after `DiffAgainst`, which does not look at the current and the
last record, until it is assigned to.

**SpewGroups.** `Cut` maps a name to the 47 characters kept of it. A longer name
is never found and each activation stores one more group; the array stays sorted.

**ScratchStack.** A piece is an offset and the block it was handed out in. Growth
may move the block; pieces handed out before then point into the old one, which
the code leaves to its callers, and so does the model.

## 3. Runs

| run | instance | what it shows |
|---|---|---|
| `sba_pool` | 2 threads, 2 buckets (2 blocks and 1 block to a slab), 3 chunks, caps 3 and 1 | no block dangles or is shared; counts exact; `BooksInOrder`: none is lost, the lists of partial, current and frozen slabs right, caches within their caps; NULL only from an empty bucket; the allocator implements `BlockStore`; `IInv`, the invariant of the proof, holds |
| `sba_lock_released` | 2 threads, 1 bucket, 2 chunks | a thread inside `m_cs` leaves it |
| `slab_memory`, arena | 6 pages, slices of 3 | `UsedIsCommitted`: chunks in use, and pages the helper touches, are committed; `ChunksInOrder`: chunks are disjoint, the frontier is right between commits; the helper spares chunks in use, and exits |
| `arena_serves` | the arena, the same | *violated*: finding 1 |
| `slab_memory`, map | 1 reader, 2 slab bases that straddle pages, 2 buckets, tables of 2 and 4 chains; any allocation may fail | a lookup answers the block's own bucket or none, and ends; the index fits the table; no freed table is read; under the lock the map is exact |
| `slab_map_retire` | the map, the same; the list of retired tables cannot grow | *violated*: finding 4 |
| `worker_handshake` | 2 callers, both kinds of call, 4 calls, failing termination; or 1 caller that always waits | one owner of the slot, each call served at most once, the slot freed or the worker dead; the waiting caller gets its own reply, no time-out while the reply is there |
| `worker_stale_signal` | 1 caller, waiting or not, 2 calls | *violated*: finding 2 |
| `worker_poison` | 1 caller, 1 call | *violated*: finding 3 |
| `progress` | the mutex: 3 threads that nest twice, or do not nest and 2 of them stray; 2 sleepers, one of which may be terminated, 1 wait given up early; 2 writers, nesting twice | mutual exclusion, the holder owns the lock, exact count, the last unlock frees; one-time answers agree, releases are paired with raises, calls return; the output mutex is held for the messages being output, every message is done with |
| `services` | 2 scopes, 2 nodes, a group stack of 3; 3 threads started; 1 search path, 2 handles; 3 searches; files of 3 bytes, 4 lines or tokens; 2 threads that crash twice in 2 processes, or dump; a scratch stack of 3; 4 names, one of them cut; 2 threads, objects and slots; 2 validators, 4 records | each of the ten services by itself, see `MCServices` |
| `file_buffer_routing` | `FileSystem` alone, with 2 search paths | *violated*: finding 5 |
| `validator_siblings` | `Validator` alone, 1 validator, 3 records | *violated*: finding 6 |

Many of the checked invariants are conjunctions of named parts, with the
module's type invariant as one; the definitions are in the modules' last sections.
The two runs of `MCSmallBlockAlloc` also evaluate `SizesFit` (`SizesAssumption`)
for all 2049 sizes and 268 buckets of the code.

### Bounds

Blocks of one slab and of different slabs, a full and a partial slab, a slab
that dies while another is current, and a batch that spans slabs all occur with
three chunks, slabs of one and two blocks and a cap of 3 (`MaxBatch` 3 stands for
96: `Want` is the smaller of the two). The second bucket has one block to a slab,
the extreme at which a slab is frozen by its first free. Two threads give a
cross-thread free, a refill against a trim, and the destruction of a slab whose
neighbours another thread has cached; a third thread adds no new pair of lock
holder and lock-free step, and the proofs cover any number. Nothing else is
bounded in this module: its state is finite.

In the arena 6 pages with slices of 3 let a chunk of two pages straddle the
frontier, let both commits overlap, and let the reservation run out.

In `slab_memory` every slab of the map lies on two pages, and the two bases meet in one: a table of
four chains holds two nodes, which may be one of each slab, in one chain, when
another page was not indexed. Any allocation, of a node, of a table or of a copy,
may fail, so slabs are indexed in part whatever the bounds; five nodes are more than
are ever asked for. The second table is the first growth that copies nodes. Larger
tables with more nodes are out of TLC's reach beside a reader that
takes one step for each word it loads; the proofs cover any table, any slabs and any
number of nodes. A retired node is reused for
the other slab between any two reads of a lookup, so a lookup sees a base of its
first life and an end of its second (the mutant `TrustNode` needs that). `MaxWalk` 4
stands for 64: what matters is that a walk can be cut off, as it is here. The lookup reads a
node's base once more, for its distance to the address, which only adds misses and is left out. Lookups
write nothing shared, so one reader sees all that several would; the proof covers
any number.

`MaxCalls` bounds the calls to the worker. A stale signal needs two calls, a
third call is the first that can meet the traces of two predecessors.

`MaxDepth` bounds recursion. Nesting differs from no nesting at depth 2; deeper
nesting repeats the same step.

In `services` a group stack of 3 holds the bottom, the root and one scope: the
second is refused. Two nodes below the root are siblings, or one in the other.
Three threads are the first that lets a late one meet the `Start` of another and
that one the next. A file of two "bytes" with `SmallMax` 1 can be read short across the
size that decides how a block is freed. Two handles can be open on the
same file. Three searches leave a hole in the middle. Two dumpers nest twice.
A file of three bytes has a CR at the end of a full line buffer, an LF behind it and one
more byte; four lines read it with a buffer of one character at a time. Two
crashes are two records to be mixed; a second process is the first that finds a
log cut off. With a system that takes the handler the trampoline leaves the dump
lock alone; where it lowers the lock's level, the lock is checked without a handler.
A second thread may take the slot an assignment gave back; two objects
are enough to share one. `MaxBelow`, `MaxStray`, `MaxVersion`, `MaxMoves`,
`MaxTime`, `MaxCrashes` and `MaxProcesses` bound counters that otherwise run on.
Three stored groups are the fewest whose search halves twice;
the fourth name is cut to the third. Four records are two lists of two, or one of three and
a copy that finds no room. Objects, validators and crashing threads are symmetric
there: no liveness is checked, and none is told from its like by anything.

In `progress` the gates behave alike, so `Asked` has only the minidump flag beside
the three a sleep asks. One death (`MaxDeaths`) leaves another thread to wait for
the dead; one slow raise (`MaxSlow`) is the first that is followed by a second. The
host's function is set once (a thread then uses either function). A nesting of 2
is a message within a message; the third would repeat the step.

### Deadlock

Deadlock is checked for the pool. The page map is never without a step and is
checked too. The worker stops by design, with its calls used up or after its
termination, and so does the arena after its teardown; these configurations
switch the test off. So do `progress`, where threads exit the process, stop in the
debugger or spin on the gate of a dead thread (waiting is a disabled step there),
and `services`: a destroyed thread object and bounded counters have no next step.

### Fairness

- A thread inside `m_cs` is scheduled: `WF(Holder(t))`. No step under `m_cs` waits
  for anything. The order in which waiting threads get the lock is not assumed.
- The arena's helper is scheduled: `WF(Helper)`. It never blocks for long, as
  its sleeps and commits are bounded.
- A thread that looks a pointer up is scheduled: `WF(Read(r))`. It waits for
  nobody. The owner of `m_cs` is not assumed to make progress, nor to stop.
- Each caller and the worker are scheduled: `WF(Proceed(c))`, `WF(Work)`. The
  caller's wait is bounded by its timeout, which is a step of its own.
- A thread inside `Lock` or `Unlock` is scheduled: `WF(Advance(t))`. `Lock` is
  not assumed to succeed: a thread that spins for ever is allowed, and the
  property speaks only of the owner.
- A thread inside a sleep or a question is scheduled until it is terminated:
  `WF(SleepAdvance(t))`. It spins, or waits with a time limit.
- A thread with a message in hand is scheduled: `WF(OutputAdvance(t))`. The host's
  function is among its steps: it is assumed to return. Which of two waiting
  threads gets a mutex is not assumed; the bound on messages sees to it that each
  gets it in the end.

## 4. Findings

1. **The arena gives up memory it has** (`mem.cpp:473`, run `arena_serves`). When
   no commit is needed, `commitBase` and `add` are both 0 and the test for "no
   commit space left" is true for every chunk. All recycled chunks, and all fresh
   ones below the frontier, are given up and the slab comes from `malloc`; a
   recycled chunk has already left its list and is lost until the process ends.
   The model also shows that the obvious repair, comparing with `commitEnd`, is
   not enough: the helper moves `commitEnd` before it commits, so a chunk would
   be handed out in memory not yet, or never, committed (the mutant
   `RefusedBeyond` of `UsedIsCommitted`). Today's test hides this.
2. **A stale signal ends the next wait** (`threadtools.cpp:1336`, run
   `worker_stale_signal`). `Reply` frees the slot before it signals. The next
   `Call` can reserve the slot and reset the event in between; the late signal
   then ends its wait and it returns its own parameter as the result. The reset
   is there to prevent just this, says the comment at 1252-1254.
3. **A slot that should stay poisoned is free** (`threadtools.cpp:1268`, run
   `worker_poison`). If the worker clears the flags between the caller's timeout
   and `TerminateThread`, the dead worker's slot is free.
4. **A retired table is freed under a lookup** (`mem.cpp:666`, run
   `slab_map_retire`). `RetireTab` frees the table when its array of retired
   tables cannot be reallocated; that happens before the new table is published,
   so new lookups, too, still find the freed one. The comment at 618-622 promises
   that tables are never returned and that a stale walk never faults. The other
   runs assume that the array grows (`RetireFails` is FALSE).

5. **A buffer goes back to the wrong place** (`filesystem.cpp:864`, run
   `file_buffer_routing`). On Linux a block is freed by its size, and `GetReadBuffer`
   makes the number of bytes read that size. A block of pages of which 2048 bytes
   or fewer were read is given to `g_pMemAlloc`. The comment at `mem.cpp:1290` says
   that the free mirrors the allocation. On Windows the system is asked.
6. **A record is dropped from the validator's list** (`validator.cpp:59`, run
   `validator_siblings`). `Push` stores the new record as the next of the current one,
   which after a `Pop` is a parent that has a next: the second object pushed inside a
   third takes the place of the first, whose record leaves the list and is never freed.
   The assertion of debug builds at `validator.cpp:57` says that there is no next.

## 5. Proofs

**The pool.** `SmallBlockAlloc_proofs` proves, for all sets of threads, buckets and
chunks, any slab capacities and cache caps at least 1:

- `Invariance`, and from it `TypeCorrect`, `NoDangling`, `Ownership`, `Counters`,
  `PartialLists`: `Spec => []P` for the invariant named;
- `BooksAlwaysInOrder`: no block is lost, and the lists and caches are right;
- `FailsOnlyWhenEmpty`: `Spec => NullOnlyWhenEmpty`, a property of steps;
- `Implements`: `Spec => ImplementsStore`, the refinement of `BlockStore`.

*The inductive invariant* `IInv` is in the module itself and TLC checks it in
`sba_pool`. None of the properties is inductive alone. A slab is destroyed when
its *count* says that all blocks are back; that no block is then outside needs
that the count equals the chain (`CountersExact`), that the chain holds only
carved indices (`SlabShape`), and that whatever is outside is not chained
(`NoDanglingBlock`): `ChainFills` then shows that the last block pushed is the
only one outside. That one block is not also elsewhere is `OneOwner`; that a
refill's delivery overwrites no cached block is `ControlShape`, and that only
one thread changes the pool is `LockedStages`. `PartialExact` keeps `PopBatch` on
slabs of its own bucket. The proof has one lemma per effect on the pool
(`PushStep`, `PopFreeStep`, `CarveSlabStep`, `CarveBlockStep`), one per action, and
joins them in `NextInv`. `Implements` maps each step to `Allocate`, `Release` or a
stutter. For `BooksInOrder`, `IInv` is not enough: what says that only a current
slab has room must also say that a refill goes on to carve with nothing in hand only when
the partial list is empty (`CarvesLast`), that its batch stays within what it wanted
(`BatchFits`), and that a thread which is gone has left nothing in its caches
(`NothingLeftBehind`). These three are parts of `BooksInOrder`, as a reader of
`AllocSBA` and `TLSFree` relies on them too. `NullOnlyWhenEmpty` then follows from
the partial list being empty (`PartialExact`) and room being in the current slab only.

**The arena.** `SlabArena_proofs` proves, for any sizes in pages:

- `ArenaInvariance`, and from it `ChunksStayInOrder`, `UsesCommittedOnly` and
  `HelperNeverTouchesSlabs`.

*The inductive invariant* `ArenaInv` is in the module. Its core is what the lock does not protect: while the helper commits or touches its
slice, chunks that are or will be handed out end below the slice, because the
frontier has been moved past it, and a fresh chunk that would reach into it is
rolled back (`HelperShape`, `AllocShape`); what may be missing below the frontier is
exactly the slice announced (`SliceShape`). That the helper never *begins* a slice in
the next chunk needs `TargetAhead`: the target is always beyond the next chunk.
This is where sizes matter. With a slice, a boost or a first target of a single page
a chunk of two pages does end inside the helper's slice, as TLC shows; the code's are 256
pages and more. `SizeAssumption` asks for two.

**The worker.** `WorkerThread_proofs` proves, for any number of callers and calls:

- `OneOwnerOfTheSlot` and `NoneServedTwice`. The invariant adds to `SlotInOrder`
  that each number is in one place until it is answered (`RequestsInOrder`);
- for a single caller that always waits, `HandshakeInvariance`, `OwnReplyAlways` and
  `NoReplyLost`. The invariant (`IInv` of `MCWorkerThread`) says that caller and worker take turns (`TakeTurns`): between calls the
  worker rests with both events reset, and during a call exactly one of five
  situations holds (`Underway`), of which only the last has `complete` set. A stale
  signal would be a sixth. `worker_stale_signal` shows that with calls that do not wait
  there is one.

**Mutex, timer, output.** `Progress_proofs` proves, for any number of threads:

- `TypeCorrect`, whatever the clients do: the count stays between -1 and the
  deepest nesting;
- `HolderOwnsAlways` and `MutualExclusionAlways`, when nobody unlocks what it
  did not lock *or* nobody nests (`Disciplined`);
- `CountIsDepthAlways` and `CountAlwaysInOrder`, when nobody unlocks what it did not
  lock.

The argument: a thread acts on the lock as its owner only at steps where the
owner word names it (`Inside`), and leaves only with all its locks returned
(`Leaves`), which follows from the count being exact (`CountExact`) or from
depth 1. The discipline is needed: with a stray thread and nesting, a stray
unlock clears the count of a nested owner, whose first `Unlock` then frees the
lock it still holds.

- `AnswersAgreeAlways`, with threads terminated anywhere: an answer that is there is
  filled in and never changes.
  The invariant (`AInv`) says where the claimant of a gate stands: a gate has at
  most one, and none once its word is ready, so nobody is left to store again.
- `TimerAlwaysInOrder`: raises and releases are paired as `TimerInOrder` says. The
  counts alone are not inductive: a thread about to raise has a raise coming, one
  that raised and has not stored it owes a release. `Accounts` adds the numbers of
  both kinds of thread (`Begun`, `Owing`) to the counts; `OneRaise` says that
  without a reset there is one such thread at most. `Counts` is how the size of
  these sets changes with one thread's step.
- `SpewAlwaysInOrder`, for any number of writers and any nesting. The invariant
  (`SInv`) says of each message in hand what its step allows (`FrameOK`): only
  one that runs the host's function, or acts on its answer, has another inside it, and the
  guard is locked only around the function. The mutex counts the set of messages
  being output (`Outputting`, whose size changes by one with the innermost message);
  as one thread's set is not empty only if it owns the mutex, two threads are
  never in the function.

**The page map.** `SlabMap_proofs` proves, for any number of readers, slabs, nodes
and tables:

- `Answers`: a lookup answers with the bucket of the slab the block lies in, or
  with none;
- `MapExact`: under the lock the map is exact (`IndexExact`);
- `LookupsInBounds`: `TypeOK` and `InBounds`, whatever fails; and `LookupsSafe`:
  `SafeLookups`, with `RetireFails` FALSE (finding 4 is what happens otherwise).

The proof of `Answers` says nothing of the nodes, on purpose: their contents are
arbitrary to it. It rests on the comparison with the block's header alone, and on the fact
that the slab of a block somebody asks about neither dies nor moves
(`AnswersKept`): a slab is carved only where there is none (`OwnBase`,
`WorkIsDead`), and an unfinished lookup has no answer (`Pending`). The mutant that
believes the node (`TrustNode`) shows that the comparison is needed.

*The inductive invariant* of the other three is `ExactInv`. Its first part, `MapInv`,
is about the owner: there are sequences of nodes, one for each key of the newest
table, and one for the retired nodes, that the links follow (`Chained`); they share no
node, and the node in hand is in none of them (`InHand`); a chained node tells of a page
of a live slab, or of one that the slab being carved or destroyed has behind it
(`Owned`), and no two tell the same (`Alone`); and the two published words are those
of the newest table, except between the stores (`Phase`).

`DestroySlab` is the delicate one. `Remove` compares slabs, not pages: when two pages of a slab
share a chain, the node it takes out for one page may be that of the other. That
none is left at the end is a counting argument (`Leaving`): in every chain the slab
has at most as many nodes as it has pages left to be looked for there. `Grow` turns each
chain around and splits it; `CopiesChain` shows that pushing the copies one by one
gives chains again.

The second part, `ReadInv`, is about lookups (`Seen`): the mask a lookup read had been
published, so the table it reads next is at least as large as that mask needs
(`WriteGrows`: masks, tables and nodes only grow). The third, `FreedInv`, says what is freed.
`ChainFrom`, `Cap` and the concatenation of the chains are defined by recursion; that the
functions exist is proved once (`Iterates`), from least elements of sets of numbers.

**Crashes.** `CrashHandler_proofs` proves, for any number of threads, crashes and
processes:

- `CrashLogAlwaysInOrder`. The invariant (`HInv`) adds that there is no handler
  before there is a path, so that all records go to one file (`PathKnown`); that
  the thread in the handler writes the latest record, of which the log has no
  part but those behind it (`WritesLatest`); and that the log is sorted by record
  and part (`LogShape`). The gate's owner alone appends, so each append keeps it so.
- `DumpLockAlwaysInOrder`, with the handler among the writers. The level counts
  the dumps of the thread the lock names (`Held`), and that thread has a dump to
  end whenever it is outside the lock's functions (`LockKept`).

**Services.** `Services_proofs` proves, each for any number of what the service deals
with:

- `TlsAlwaysInOrder` (a conjunct of `HandlesStay`). What makes it inductive is that
  one thread at a time assigns to an object, which is out of use meanwhile
  (`OneAssigns`): its old index may by then be another's slot, and nobody looks at it.
- `HandlesAlwaysStay`, of the composed specification: searches (`FindInv`: a slot in
  use has one client) and thread-local slots together.
- `ScratchAlwaysInOrder`. The sizes kept on the code's side are those of the pieces
  handed out (`SizesKept`), so the top of the stack is their sum, and a free takes back the last.
- `ThreadAlwaysInOrder`. One thread at most is alive without having been joined or
  given up (`OneLives`), and the frame of `Start` tells what that thread has done so far
  (`FrameTells`); all of it on the condition that no `Start` gave up.
- `BuffersAlwaysInOrder`. Only an open file has a buffer and an open file is there
  (`OpenOnes`); a step through one handle leaves others' buffers alone and marks them
  as old where it changes their file (`OthersChange`).
- `GroupsAlwaysInOrder`. The array is sorted by names that were cut (`CutSorted`), and
  while no name was too long it has one group for each name that was given levels
  (`StoredAsWanted`). That the halving search finds what is there is shown by induction
  over the length of the range, for arrays of any length (`SearchIs`); the function the
  search is written as exists by the same induction (`SearchExists`).
- `ProfAlwaysInOrder`. A node's way to the root is in the tree (`AboveThere`); where scopes nest the
  cursor is as deep as scopes are open (`Nested`), so that `Start`, `Stop` and `Term` find
  it at the root; and the time a node ran is what it has added up and what passed since
  it was last entered (`Timed`), of which `TimeIsTimeEntered` is the case of a node that was left.

- `RecordsAlwaysInOrder`. There is a sequence of records for each validator that its
  links follow, no two of them with a record in common (`Lists`), and in each a parent
  comes before its children (`ParentsFirst`); after `DiffAgainst` a parent may also be
  `Gone`, and until then no parent is, and the last and the current record fit the
  sequence (`Whole`). That `DiffAgainst` leaves a chain is shown by induction from the
  list's end (`ChainCull`); that `operator=` makes one follows from the copies having the
  places of what they copy.
- `TextAlwaysInOrder`. What is read is in the file (`InText`), or the position was set
  behind its end and has stayed there; and when the last line ended with a CR, no LF is
  next (`TookLF`). Each call appends one part of the file where the last one ended
  (`PartsJoin`, `FlattenAppend`); what the part consists of follows from where `ReadLine`
  and `ParseFile` stop (`TakenIs`, `EndIs`, `TokenIs`).

**Sizes.** `SmallBlockAlloc_proofs` proves `RequestsFit` and `SlabsHoldBlocks` for all
sizes and buckets: what the pool's model takes for granted of `Capacity` and `CacheCap`.

The assumptions are the named `ASSUME`s of the modules: sentinels differ from
the things they stand beside, capacities, sizes and caps are positive, the arena's
slice, boost and first target are two pages or more, sleeping
threads are finitely many (`SleeperAssumption`, for `Cardinality`), the caller that
waits is one of the callers (`WaitingAssumption`); and what is stored of a name sorts
as the name does, or is the same (`SpewAssumption`: names are cut at 47 characters).

## 6. What is only model-checked

Liveness (`LockReleased`, `HelperExits`, `LookupEnds`, `SlotFreed`,
`LastUnlockFrees`, `SleepReturns`, `SpewReturns`) is out of the prover's reach, as is
anything that needs `ENABLED`.

What a recursive function computes for every input needs induction, which the
library's theorems do not offer to these provers. Where an invariant needs it, it is
done by hand, from the well-foundedness of the natural numbers (`Induct` in
`Links_proofs`). In this way every invariant and every action property of a passing
run is proved, for every value of the constants; what the runs add is that the models
do reach the cases the properties are about, and the mutants.

## 7. What is not modelled

Requests above 2048 bytes, payload contents; the layout of slab
headers; time other than "a wait may end"; the destruction of the pool while
other threads still allocate (`mem.cpp:879`: the code relies on nobody doing so,
and there is nothing in it that a property could be about); initialisation of
the arena by two threads at once (the second only spins); flag bits a caller of
`Call` may pass; `TryLock` on behalf of another thread. Of the services: `Suspend`,
`Resume` and priorities of threads; VProf's counters, report and resets; what is
printed, by the validator, by the spew functions and into the crash log; the walk
of the stack; directories and packs; two threads in one `CFileSystem`; the classes
that forward to one object of the system. What the code promises nothing about is in
the model and outside the properties: a `Start` that gave up, a group refused by the full
stack, pauses of nodes other than the root, the trampoline that lowers the
lock's level (`PROJECT.json` lists these hazards without a property). A terminated worker dies at once or not at all.
The heap check and the statistics of
`mem.cpp` only read. `PROJECT.json` gives the reason for every component
without a module. The 64-bit interlocked emulation is one atomic instruction in
a loop.

## 8. Plan

In this order, as most of the system's risk lies there:

1. The pool composed with `SlabMap`: `Free` takes the answer of the lookup, and
   the slabs the map indexes are the pool's. Today each stands in the other's
   model by what was shown of it.
2. VProf's counters and resets, the claims the validator counts.
