----------------------------- MODULE FileSystem -----------------------------
(***************************************************************************)
(* CFileSystem (src/tier0/filesystem.cpp): search paths, open files and    *)
(* the one read buffer each may cache, a mapped view of the file or a      *)
(* block of memory.                                                        *)
(*                                                                         *)
(* The client is one thread.  It releases a buffer through the handle it   *)
(* came from, once, and forgets it when it writes to or closes that        *)
(* handle: the code frees it then.  (Of a buffer that is not the handle's  *)
(* ReleaseReadBuffer knows no size, and on Linux frees it as a small one;  *)
(* the modes that both read and truncate, or read and append, are left     *)
(* out.)  The two builds differ and both are modelled: on Linux a block is *)
(* freed as its size suggests, on Windows as the system says it was        *)
(* allocated.  A file's content is the number of its version.              *)
(***************************************************************************)
EXTENDS Integers, Sequences, SequencesExt

CONSTANTS
  Dir,        \* directories that may become search paths
  Handle,     \* FileHandleInternal objects
  SmallMax,   \* sizes up to this one go to g_pMemAlloc (2048)
  MaxSize,    \* bound: size of a file
  MaxVersion  \* bound: writes

ASSUME FsAssumption ==
  /\ {SmallMax, MaxSize} \subseteq Nat /\ MaxVersion \in Nat \ {0}
  /\ Handle \subseteq Nat \ {0}

Here == "."
Place == {Here} \cup Dir  \* where a file of the name in question can be
File == Place             \* a file is known by the place it was made in
Block == Handle           \* there is never more than one block for a handle

VARIABLES
  platform,    \* the build
  searchPaths, \* m_SearchPaths
  disk,        \* the files there are, by place: size and version
  hd,          \* m_OpenFiles: what each handle has
  block,       \* the buffers: how each was allocated
  misfreed     \* ghost: a block was freed as something else

buffers == <<block, misfreed>>
fsVars == <<platform, searchPaths, disk, hd, buffers>>

Absent == [size |-> -1, version |-> 0]
Exists(p) == disk[p] # Absent

Closed ==
  [open |-> FALSE, at |-> Here, mode |-> "r", buf |-> 0, size |-> 0,
   version |-> 0, foreign |-> FALSE]

FsInit ==
  /\ platform \in {"windows", "linux"}
  /\ searchPaths = <<>>
  /\ disk \in [Place -> {Absent, [size |-> MaxSize, version |-> 1]}]
  /\ hd = [h \in Handle |-> Closed]
  /\ block = [b \in Block |-> "free"]
  /\ misfreed = FALSE

-----------------------------------------------------------------------------
(* Search paths.  JoinPath puts a backslash between the two parts, which   *)
(* on Linux is a character of a file name: no joined path exists there.    *)

AddSearchPath(d) ==
  /\ searchPaths' = IF d \in Range(searchPaths) THEN searchPaths ELSE Append(searchPaths, d)
  /\ UNCHANGED <<platform, disk, hd, buffers>>

RemoveSearchPath(d) ==
  /\ IF d \in Range(searchPaths)
       THEN \E i \in DOMAIN searchPaths :
              /\ searchPaths[i] = d /\ \A j \in 1 .. i - 1 : searchPaths[j] # d
              /\ searchPaths' = RemoveAt(searchPaths, i)
       ELSE UNCHANGED searchPaths
  /\ UNCHANGED <<platform, disk, hd, buffers>>

RemoveAllSearchPaths ==
  /\ searchPaths' = <<>>
  /\ UNCHANGED <<platform, disk, hd, buffers>>

Joined == IF platform = "windows" THEN Range(searchPaths) ELSE {}

(* The place a file is read from: here, or the first search path with it.  *)
ResolvesTo(p) ==
  LET found == {i \in DOMAIN searchPaths : searchPaths[i] \in Joined /\ Exists(searchPaths[i])}
  IN IF Exists(Here) \/ found = {}
       THEN p = Here
       ELSE \E i \in found : p = searchPaths[i] /\ \A j \in found : i <= j

(* On Windows a file that is open is not deleted: it is opened without     *)
(* FILE_SHARE_DELETE.                                                      *)
Deletable(p) == \A h \in Handle : hd[h].open => hd[h].at # p

(* (Removing a file that is open, which Linux allows, is left out.)        *)
RemoveFile ==
  /\ platform = "linux" => \A p \in {Here} \cup Joined : Deletable(p)
  /\ disk' = [p \in Place |->
                IF p \in {Here} \cup Joined /\ Deletable(p) THEN Absent ELSE disk[p]]
  /\ UNCHANGED <<platform, searchPaths, hd, buffers>>

-----------------------------------------------------------------------------
(* Open.  A mode that may create the file does not look at the search      *)
(* paths; on Linux "r+" is one of them.                                    *)

Creates(mode) == mode \in {"w", "a"} \/ (mode = "r+" /\ platform = "linux")

(* A file whose view is mapped is not truncated on Windows.                *)
Mapped(p) == \E h \in Handle :
  hd[h].open /\ hd[h].at = p /\ hd[h].buf # 0 /\ block[hd[h].buf] = "map"

(* The contents of p change through handle h: what others cached is old.   *)
ChangedBy(h, p, handles) == [g \in Handle |->
  IF g # h /\ handles[g].open /\ handles[g].at = p
    THEN [handles[g] EXCEPT !.foreign = TRUE]
    ELSE handles[g]]

NewFile == [size |-> 0, version |-> 1]

Open(mode) ==
  /\ \E h \in Handle, p \in Place :
       /\ IF Creates(mode) THEN p = Here ELSE ResolvesTo(p)
       /\ ~hd[h].open /\ \A g \in Handle : g < h => hd[g].open
       /\ \/ /\ mode # "w"
             /\ Creates(mode) \/ Exists(p)
             /\ disk' = IF Exists(p) THEN disk ELSE [disk EXCEPT ![p] = NewFile]
             /\ hd' = [hd EXCEPT ![h] = [Closed EXCEPT !.open = TRUE, !.at = p, !.mode = mode]]
          \/ /\ mode = "w"
             /\ platform = "windows" => ~Mapped(p)
             /\ disk[p].version < MaxVersion
             /\ disk' = [disk EXCEPT ![p] = [size |-> 0, version |-> @.version + 1]]
             /\ hd' = ChangedBy(h, p,
                  [hd EXCEPT ![h] = [Closed EXCEPT !.open = TRUE, !.at = p, !.mode = mode]])
  /\ UNCHANGED <<platform, searchPaths, buffers>>

-----------------------------------------------------------------------------
(* The read buffer.                                                        *)

(* SBArena_AllocForFileSystem: the pool serves small blocks and pages the  *)
(* others, and each stands in where the other has no room.                 *)
AllocKinds == {"pool", "pages"}

(* SBArena_FreeForFileSystem, munmap and UnmapViewOfFile: what a block of  *)
(* that kind and that size is taken for.                                   *)
TakenFor(kind, size) ==
  IF kind = "map" \/ platform = "windows"
    THEN kind
    ELSE IF size > SmallMax THEN "pages" ELSE "pool"

(* Free the buffer of h, if it has one.                                    *)
FreeBuffer(h) ==
  IF hd[h].buf = 0
    THEN UNCHANGED buffers
    ELSE /\ block' = [block EXCEPT ![hd[h].buf] = "free"]
         /\ misfreed' = (misfreed \/ TakenFor(block[hd[h].buf], hd[h].size) # block[hd[h].buf])

NoBuffer(rec) == [rec EXCEPT !.buf = 0, !.size = 0, !.version = 0, !.foreign = FALSE]

(* Cache n bytes in a new block.                                           *)
Cache(h, b, kind, n) ==
  /\ block' = [block EXCEPT ![b] = kind]
  /\ hd' = [hd EXCEPT ![h].buf = b, ![h].size = n,
                      ![h].version = disk[hd[h].at].version, ![h].foreign = FALSE]

(* A handle that only writes cannot be read on Windows: no view of it, and *)
(* not a byte from it.                                                     *)
Readable(h) == platform = "linux" \/ hd[h].mode \in {"r", "r+"}

GetReadBuffer(h) ==
  /\ hd[h].open /\ hd[h].buf = 0
  /\ disk[hd[h].at].size > 0
  /\ \E b \in Block :
       /\ block[b] = "free" /\ \A c \in Block : c < b => block[c] # "free"
       /\ \/ Readable(h) /\ Cache(h, b, "map", disk[hd[h].at].size)
          \/ \E kind \in AllocKinds, n \in 0 .. disk[hd[h].at].size :
               (n = 0 \/ Readable(h)) /\ Cache(h, b, kind, n)
  /\ UNCHANGED <<platform, searchPaths, disk, misfreed>>

ReleaseReadBuffer(h) ==
  /\ hd[h].open /\ hd[h].buf # 0
  /\ FreeBuffer(h)
  /\ hd' = [hd EXCEPT ![h] = NoBuffer(@)]
  /\ UNCHANGED <<platform, searchPaths, disk>>

(* Faulty: the handle keeps its buffer.                                    *)
WriteKeepsBuffer(h) ==
  /\ hd[h].open /\ hd[h].mode # "r"
  /\ disk[hd[h].at].version < MaxVersion
  /\ \E size \in {disk[hd[h].at].size, disk[hd[h].at].size + 1} \cap 1 .. MaxSize :
       disk' = [disk EXCEPT ![hd[h].at] = [size |-> size, version |-> @.version + 1]]
  /\ hd' = ChangedBy(h, hd[h].at, hd)
  /\ UNCHANGED <<platform, searchPaths, buffers>>

(* Write over the file or at its end.  (One that fails changes nothing.)   *)
Write(h) ==
  /\ hd[h].open /\ hd[h].mode # "r"
  /\ disk[hd[h].at].version < MaxVersion
  /\ \E size \in {disk[hd[h].at].size, disk[hd[h].at].size + 1} \cap 1 .. MaxSize :
       disk' = [disk EXCEPT ![hd[h].at] = [size |-> size, version |-> @.version + 1]]
  /\ FreeBuffer(h)
  /\ hd' = ChangedBy(h, hd[h].at, [hd EXCEPT ![h] = NoBuffer(@)])
  /\ UNCHANGED <<platform, searchPaths>>

Close(h) ==
  /\ hd[h].open
  /\ FreeBuffer(h)
  /\ hd' = [hd EXCEPT ![h] = Closed]
  /\ UNCHANGED <<platform, searchPaths, disk>>

-----------------------------------------------------------------------------
FsNext ==
  \/ \E d \in Dir : AddSearchPath(d) \/ RemoveSearchPath(d)
  \/ RemoveAllSearchPaths
  \/ RemoveFile
  \/ \E mode \in {"r", "r+", "w", "a"} : Open(mode)
  \/ \E h \in Handle :
       \/ GetReadBuffer(h)
       \/ ReleaseReadBuffer(h)
       \/ Write(h)
       \/ Close(h)

FsSpec == FsInit /\ [][FsNext]_fsVars

-----------------------------------------------------------------------------
(* The state is of the expected shape.                                     *)
FsTypeOK ==
  /\ Range(searchPaths) \subseteq Dir /\ IsInjective(searchPaths)
  /\ \A p \in Place : disk[p].size \in -1 .. MaxSize /\ disk[p].version \in 0 .. MaxVersion
  /\ \A h \in Handle : hd[h].open => Exists(hd[h].at)
  /\ block \in [Block -> {"free", "map", "pool", "pages"}]

(* Every buffer belongs to one open file and is freed with it, released or *)
(* dropped by a write: none is left over, none is freed twice.             *)
BuffersOwned ==
  /\ \A b \in Block : block[b] # "free" =>
       \E h \in Handle : hd[h].open /\ hd[h].buf = b
  /\ \A h \in Handle : hd[h].buf # 0 =>
       /\ block[hd[h].buf] # "free"
       /\ \A g \in Handle \ {h} : hd[g].buf # hd[h].buf

(* A cached buffer is as old as the file unless another handle changed the *)
(* file: a write through the handle itself drops it.                       *)
OwnWriteInvalidates ==
  \A h \in Handle : hd[h].buf # 0 /\ ~hd[h].foreign =>
    hd[h].version = disk[hd[h].at].version

(* "Mirror the allocator's routing" (mem.cpp:1290): a block is freed the   *)
(* way it was allocated.                                                   *)
FreedAsAllocated == ~misfreed

(* Buffers have one owner each and show what the file holds: see above.    *)
BuffersInOrder == FsTypeOK /\ BuffersOwned /\ OwnWriteInvalidates

=============================================================================
