------------------------------- MODULE Memory --------------------------------
(***************************************************************************)
(* Memory (src/neixx/memory): the allocator of small objects, shared memory*)
(* and the monitor of memory pressure.                                     *)
(***************************************************************************)
EXTENDS Integers, Sequences, SequencesExt, FiniteSets, FiniteSetsExt

-----------------------------------------------------------------------------
(***************************************************************************)
(* The small-object allocator (small_object_allocator.cpp), one size class *)
(* of it: per-thread caches without a lock, the central free list and the  *)
(* chunks of each partition under its mutex, the in_use counter outside    *)
(* it, purging of chunks that are wholly free, their reuse, and partitions *)
(* created and destroyed.  A step is what happens under the lock or on the *)
(* thread's own cache, and each change of in_use.  A block is its chunk    *)
(* and its place in it; what too large or over-aligned requests get        *)
(* (DirectAlloc) never enters a pool and is left out.                      *)
(***************************************************************************)
CONSTANTS Threads, Chunks, BatchSize, ThreadCacheCap, AllocBatch, MaxPartitions, MaxDecommitted, MaxOps

VARIABLES
  parts,     \* partitions by index: [up, heads, chunks, parked]
  created,   \* g_num_created
  chunk,     \* [st, part, in_use, central_count]
  cache,     \* g_tls_cache: each thread's blocks, by partition index
  allocs,    \* alloc_count of each of them
  out,       \* blocks in the hands of callers
  at,        \* each thread's operation: its step, partition and block
  exited,    \* threads that ended
  done       \* operations begun

allocVars == <<parts, created, chunk, cache, allocs, out, at, exited, done>>

Indices == 0..MaxPartitions - 1
NoBlock == <<0, 0>>
Rest == [op |-> "rest", p |-> 0, b |-> NoBlock]
BlocksOf(c) == {<<c, i>> : i \in 1..BatchSize}

Init ==
  /\ parts = [p \in Indices |-> [up |-> p = 0, heads |-> <<>>, chunks |-> <<>>, parked |-> <<>>]] /\ created = 1
  /\ chunk = [c \in Chunks |-> [st |-> "none", part |-> 0, in_use |-> 0, central |-> 0]]
  /\ cache = [t \in Threads |-> [p \in Indices |-> <<>>]] /\ allocs = [t \in Threads |-> [p \in Indices |-> 0]]
  /\ out = {} /\ at = [t \in Threads |-> Rest] /\ exited = {} /\ done = 0

Begins(t) == at[t] = Rest /\ t \notin exited /\ done < MaxOps /\ done' = done + 1
Step(t, op, p, b) == at' = [at EXCEPT ![t] = [op |-> op, p |-> p, b |-> b]]

(* FlushToCentral: n blocks from the top of the cache to the central list.     *)
Flushed(t, p, n) ==
  LET m == IF n < Len(cache[t][p]) THEN n ELSE Len(cache[t][p])
      moved == SubSeq(cache[t][p], 1, m)
  IN /\ cache' = [cache EXCEPT ![t][p] = SubSeq(@, m + 1, Len(@))]
     /\ parts' = [parts EXCEPT ![p].heads = Reverse(moved) \o @]
     /\ chunk' = [c \in Chunks |-> [chunk[c] EXCEPT !.central = @ + Cardinality({b \in ToSet(moved) : b[1] = c})]]

----------------------------------------------------------------------------
(* SmallObjectAllocInPartition: every AllocBatch allocations half of a large   *)
(* cache is shed.                                                              *)
Alloc(t, p) ==
  /\ Begins(t) /\ parts[p].up
  /\ allocs' = [allocs EXCEPT ![t][p] = (@ + 1) % AllocBatch]
  /\ IF (allocs[t][p] + 1) % AllocBatch = 0 /\ Len(cache[t][p]) > ThreadCacheCap \div 2
     THEN Flushed(t, p, Len(cache[t][p]) \div 2) ELSE UNCHANGED <<parts, chunk, cache>>
  /\ Step(t, "pop", p, NoBlock) /\ UNCHANGED <<created, out, exited>>

ThreadCachePop(t) ==
  /\ at[t].op = "pop"
  /\ LET p == at[t].p
     IN IF cache[t][p] = <<>> THEN Step(t, "central", p, NoBlock) /\ UNCHANGED cache
        ELSE Step(t, "use", p, Head(cache[t][p])) /\ cache' = [cache EXCEPT ![t][p] = Tail(@)]
  /\ UNCHANGED <<parts, created, chunk, allocs, out, exited, done>>

CentralPop(t) ==
  /\ at[t].op = "central"
  /\ LET p == at[t].p
         b == Head(parts[p].heads)
     IN IF parts[p].heads = <<>> THEN Step(t, "chunk", p, NoBlock) /\ UNCHANGED <<parts, chunk>>
        ELSE Step(t, "use", p, b) /\ parts' = [parts EXCEPT ![p].heads = Tail(@)] /\ chunk' = [chunk EXCEPT ![b[1]].central = @ - 1]
  /\ UNCHANGED <<created, cache, allocs, out, exited, done>>

(* AcquireChunk and the carving in Refill: a parked chunk is used again.       *)
AcquireChunk(t, c) ==
  /\ at[t].op = "chunk"
  /\ LET p == at[t].p
     IN /\ IF parts[p].parked # <<>> THEN c = Head(parts[p].parked) ELSE chunk[c].st = "none"
        /\ parts' = [parts EXCEPT ![p].parked = IF @ = <<>> THEN @ ELSE Tail(@), ![p].chunks = <<c>> \o @]
        /\ chunk' = [chunk EXCEPT ![c] = [st |-> "committed", part |-> p, in_use |-> 0, central |-> 0]]
        /\ cache' = [cache EXCEPT ![t][p] = [i \in 1..BatchSize - 1 |-> <<c, BatchSize + 1 - i>>] \o @]
        /\ Step(t, "use", p, <<c, 1>>)
  /\ UNCHANGED <<created, allocs, out, exited, done>>

(* PageAlloc fails: bad_alloc. *)
OutOfMemory(t) ==
  /\ at[t].op = "chunk" /\ parts[at[t].p].parked = <<>> /\ Step(t, "rest", 0, NoBlock)
  /\ UNCHANGED <<parts, created, chunk, cache, allocs, out, exited, done>>

HandOut(t) ==
  /\ at[t].op = "use" /\ chunk' = [chunk EXCEPT ![at[t].b[1]].in_use = @ + 1] /\ out' = out \cup {at[t].b}
  /\ Step(t, "rest", 0, NoBlock) /\ UNCHANGED <<parts, created, cache, allocs, exited, done>>

(* SmallObjectFree, by any thread. *)
Free(t, b) ==
  /\ Begins(t) /\ b \in out /\ out' = out \ {b}
  /\ chunk' = [chunk EXCEPT ![b[1]].in_use = @ - 1] /\ Step(t, "free", chunk[b[1]].part, b)
  /\ UNCHANGED <<parts, created, cache, allocs, exited>>

ShedFull(t) ==
  /\ at[t].op = "free" /\ Len(cache[t][at[t].p]) >= ThreadCacheCap
  /\ Flushed(t, at[t].p, Len(cache[t][at[t].p]) \div 2) /\ UNCHANGED <<created, allocs, out, at, exited, done>>

ThreadCachePush(t) ==
  /\ at[t].op = "free" /\ Len(cache[t][at[t].p]) < ThreadCacheCap
  /\ cache' = [cache EXCEPT ![t][at[t].p] = <<at[t].b>> \o @] /\ Step(t, "rest", 0, NoBlock)
  /\ UNCHANGED <<parts, created, chunk, allocs, out, exited, done>>

----------------------------------------------------------------------------
(* PurgePartition: the caller's cache first, then the walk.  A chunk goes      *)
(* when every block of it is in the central list.                              *)
FreeChunk(c) == chunk[c].central = BatchSize /\ chunk[c].in_use = 0

PurgeFlush(t, p) ==
  /\ Begins(t) /\ parts[p].up /\ Flushed(t, p, Len(cache[t][p])) /\ Step(t, "purge", p, NoBlock)
  /\ UNCHANGED <<created, allocs, out, exited>>

PurgeWalk(t) ==
  /\ at[t].op = "purge"
  /\ LET p == at[t].p
         gone == SelectSeq(parts[p].chunks, FreeChunk)
         kept == SelectSeq(parts[p].chunks, LAMBDA c : ~FreeChunk(c))
         left == SelectSeq(parts[p].heads, LAMBDA b : b[1] \notin ToSet(gone))
         parked == Reverse(gone) \o parts[p].parked
         over == ToSet(SubSeq(parked, MaxDecommitted + 1, Len(parked)))
     IN /\ parts' = [parts EXCEPT ![p].chunks = kept, ![p].heads = IF Len(gone) % 2 = 1 THEN Reverse(left) ELSE left,
                                  ![p].parked = SubSeq(parked, 1, IF Len(parked) < MaxDecommitted THEN Len(parked) ELSE MaxDecommitted)]
        /\ chunk' = [c \in Chunks |-> IF c \in over THEN [chunk[c] EXCEPT !.st = "none"]
                                      ELSE IF c \in ToSet(gone) THEN [chunk[c] EXCEPT !.st = "parked"] ELSE chunk[c]]
  /\ Step(t, "rest", 0, NoBlock) /\ UNCHANGED <<created, cache, allocs, out, exited, done>>

(* CreateSmallObjectAllocatorPartition: an index is never given twice. *)
Create(t) ==
  /\ Begins(t) /\ created < MaxPartitions
  /\ parts' = [parts EXCEPT ![created] = [up |-> TRUE, heads |-> <<>>, chunks |-> <<>>, parked |-> <<>>]]
  /\ created' = created + 1 /\ UNCHANGED <<chunk, cache, allocs, out, at, exited>>

(* DestroySmallObjectAllocatorPartition, when its blocks are all freed and no  *)
(* thread is using it; the threads' caches keep what they have.  The mutant    *)
(* gives the last index back.                                                  *)
ReturnedIndex(p) == IF p = created - 1 THEN p ELSE created
NextIndex(p) == created

Destroy(t, p) ==
  /\ Begins(t) /\ p # 0 /\ parts[p].up /\ \A u \in Threads : at[u] = Rest \/ at[u].p # p
  /\ \A b \in out : chunk[b[1]].part # p
  /\ chunk' = [c \in Chunks |-> IF c \in ToSet(parts[p].chunks \o parts[p].parked) THEN [chunk[c] EXCEPT !.st = "none"] ELSE chunk[c]]
  /\ parts' = [parts EXCEPT ![p] = [up |-> FALSE, heads |-> <<>>, chunks |-> <<>>, parked |-> <<>>]]
  /\ created' = NextIndex(p) /\ UNCHANGED <<cache, allocs, out, at, exited>>

(* A thread ends: the cache has no destructor. *)
Exit(t) ==
  /\ at[t] = Rest /\ t \notin exited /\ Cardinality(exited) + 1 < Cardinality(Threads) /\ exited' = exited \cup {t}
  /\ UNCHANGED <<parts, created, chunk, cache, allocs, out, at, done>>

Next == \E t \in Threads :
  \/ \E p \in Indices : Alloc(t, p) \/ PurgeFlush(t, p) \/ Destroy(t, p)
  \/ ThreadCachePop(t) \/ CentralPop(t) \/ HandOut(t) \/ ShedFull(t) \/ ThreadCachePush(t) \/ PurgeWalk(t) \/ Create(t) \/ OutOfMemory(t) \/ Exit(t)
  \/ \E c \in Chunks : AcquireChunk(t, c)
  \/ \E b \in out : Free(t, b)

Spec == Init /\ [][Next]_allocVars

----------------------------------------------------------------------------
(* The places a block of a live partition may be in. *)
Holders(b) ==
  {<<"out", 0>> : x \in out \cap {b}}
  \cup {<<"hand", t>> : t \in {u \in Threads : at[u].b = b}}
  \cup {<<"central", p>> : p \in {q \in Indices : b \in ToSet(parts[q].heads)}}
  \cup {<<p, t>> \in Indices \X Threads : parts[p].up /\ b \in ToSet(cache[t][p])}

TypeOK == /\ \A c \in Chunks : chunk[c].in_use \in Nat /\ chunk[c].central \in 0..BatchSize
          /\ \A p \in Indices : IsInjective(parts[p].heads)

(* Every block of a committed chunk is in exactly one place - with a caller,   *)
(* in a thread's cache, in the central list - and no block is anywhere of a    *)
(* chunk whose pages were given back.                                          *)
OnePlace ==
  \A c \in Chunks : \A b \in BlocksOf(c) : Cardinality(Holders(b)) = IF chunk[c].st = "committed" THEN 1 ELSE 0

(* "blocks never cross partitions": nobody gets, or caches, a block of another *)
(* partition than the one asked, the ones destroyed before included.           *)
OwnPartition ==
  \A t \in Threads : /\ at[t].b # NoBlock => chunk[at[t].b[1]].part = at[t].p /\ chunk[at[t].b[1]].st = "committed"
                     /\ \A p \in Indices : parts[p].up => \A b \in ToSet(cache[t][p]) : chunk[b[1]].part = p

(* Violated: "PurgeSmallObjectAllocator() decommits fully-free chunks": a      *)
(* thread that ended keeps the blocks it had cached, and their chunks stay.    *)
AllReclaimable ==
  \A c \in Chunks : chunk[c].st = "committed" => \A t \in exited, p \in Indices : parts[p].up => ToSet(cache[t][p]) \cap BlocksOf(c) = {}

-----------------------------------------------------------------------------
(***************************************************************************)
(* Shared memory regions (shared_memory.cpp, _posix.cpp, _win.cpp): typed  *)
(* regions over one kernel object, the handle that goes to another process *)
(* and comes back as an unsafe region, conversion to read-only, mappings.  *)
(* The object is a memfd, a POSIX shm file or a Windows section.  A slot   *)
(* is a C++ object that owns a descriptor, in this process or the peer's.  *)
(***************************************************************************)
CONSTANTS Backends, Slots, Descriptors

VARIABLES
  backend,    \* "memfd", "shm" or "section"
  object,     \* the kernel object: exists, sealed
  fds,        \* descriptors: [open, write, stripped]; stripped: went through ConvertToReadOnly
  slot,       \* [kind, fd]: what each C++ object is and owns
  maps,       \* mappings: the writable ones and the others, by number
  reclosed    \* history: a descriptor was closed that was not open

shmVars == <<backend, object, fds, slot, maps, reclosed>>

Regions == {"writable", "readonly", "unsafe"}
Empty == [kind |-> "none", fd |-> 0]
Closed == [open |-> FALSE, write |-> FALSE, stripped |-> FALSE]

ShmInit ==
  /\ backend \in Backends /\ object = [exists |-> FALSE, sealed |-> FALSE]
  /\ fds = [d \in Descriptors |-> Closed] /\ slot = [s \in Slots |-> Empty]
  /\ maps = [w |-> 0, r |-> 0] /\ reclosed = FALSE

Closes(d, table) == [table EXCEPT ![d] = Closed]
Becomes(s, kind, fd) == slot' = [slot EXCEPT ![s] = [kind |-> kind, fd |-> fd]]

----------------------------------------------------------------------------
(* Create, of a writable or an unsafe region; CreateSharedMemoryFd. *)
ShmCreate(s, d, kind) ==
  /\ slot[s] = Empty /\ kind \in {"writable", "unsafe"} /\ ~object.exists /\ ~fds[d].open
  /\ object' = [exists |-> TRUE, sealed |-> FALSE] /\ fds' = [fds EXCEPT ![d] = [open |-> TRUE, write |-> TRUE, stripped |-> FALSE]]
  /\ Becomes(s, kind, d) /\ UNCHANGED <<backend, maps, reclosed>>

(* Create of size 0, or without memory, gives a region that is not valid. *)
CreateFails(s, kind) ==
  /\ slot[s] = Empty /\ kind \in {"writable", "unsafe"} /\ Becomes(s, kind, 0)
  /\ UNCHANGED <<backend, object, fds, maps, reclosed>>

MapWrites(s) == slot[s].kind \in {"writable", "unsafe"} /\ slot[s].fd # 0 /\ fds[slot[s].fd].write /\ ~object.sealed

(* Map, and MapReadOnly of an unsafe region.  The operating system refuses a   *)
(* writable mapping of what is sealed or was opened for reading.               *)
MapWritable(s) ==
  /\ MapWrites(s) /\ maps.w < 1 /\ maps' = [maps EXCEPT !.w = @ + 1] /\ UNCHANGED <<backend, object, fds, slot, reclosed>>
MapReadOnly(s) ==
  /\ slot[s].kind \in {"readonly", "unsafe"} /\ slot[s].fd # 0 /\ maps.r < 1 /\ maps' = [maps EXCEPT !.r = @ + 1]
  /\ UNCHANGED <<backend, object, fds, slot, reclosed>>
Unmap(k) == maps[k] > 0 /\ maps' = [maps EXCEPT ![k] = @ - 1] /\ UNCHANGED <<backend, object, fds, slot, reclosed>>

----------------------------------------------------------------------------
(* ConvertToReadOnly on POSIX: the seals, which the kernel refuses while a     *)
(* writable mapping exists, while the descriptor cannot write, or when the     *)
(* object takes none.                                                          *)
CanSeal(d) == backend = "memfd" /\ maps.w = 0 /\ fds[d].write /\ ~object.sealed

ConvertBySeal(s) ==
  /\ slot[s].kind \in {"writable", "unsafe"} /\ slot[s].fd # 0 /\ CanSeal(slot[s].fd)
  /\ object' = [object EXCEPT !.sealed = TRUE] /\ fds' = [fds EXCEPT ![slot[s].fd].stripped = TRUE]
  /\ Becomes(s, "readonly", slot[s].fd) /\ UNCHANGED <<backend, maps, reclosed>>

(* Else the descriptor is opened again for reading (ReopenReadOnly), or on     *)
(* Windows duplicated, and the first is closed.                                *)
RightsTaken == [open |-> TRUE, write |-> FALSE, stripped |-> TRUE]

ConvertByReopen(s, d) ==
  /\ slot[s].kind \in (IF backend = "section" THEN {"writable"} ELSE {"writable", "unsafe"})
  /\ slot[s].fd # 0 /\ ~CanSeal(slot[s].fd) /\ ~fds[d].open
  /\ fds' = [Closes(slot[s].fd, fds) EXCEPT ![d] = RightsTaken]
  /\ Becomes(s, "readonly", d) /\ UNCHANGED <<backend, object, maps, reclosed>>

(* The descriptor could not be opened again: the result is not valid, and the  *)
(* region keeps what it has.                                                   *)
ConvertFails(s, r) ==
  /\ slot[s].kind \in {"writable", "unsafe"} /\ slot[s].fd # 0 /\ ~CanSeal(slot[s].fd) /\ slot[r] = Empty
  /\ (slot[s].kind = "unsafe" => backend # "section")
  /\ Becomes(r, "readonly", 0) /\ UNCHANGED <<backend, object, fds, maps, reclosed>>

(* On Windows an unsafe region gives its handle as it is. *)
ConvertByType(s) ==
  /\ backend = "section" /\ slot[s].kind = "unsafe" /\ slot[s].fd # 0
  /\ fds' = [fds EXCEPT ![slot[s].fd].stripped = TRUE] /\ Becomes(s, "readonly", slot[s].fd)
  /\ UNCHANGED <<backend, object, maps, reclosed>>

ConvertToWritable(s) ==
  /\ slot[s].kind = "unsafe" /\ slot[s].fd # 0 /\ Becomes(s, "writable", slot[s].fd)
  /\ UNCHANGED <<backend, object, fds, maps, reclosed>>

----------------------------------------------------------------------------
(* What a moved-from region still owns: nothing. *)
MovedFrom(s) == [slot[s] EXCEPT !.fd = 0]

(* TakeHandle: the region's descriptor goes to a handle; it crosses to the     *)
(* peer, who adopts it (Deserialize) as an unsafe region.                      *)
TakeHandle(s, r) ==
  /\ slot[s].kind \in Regions /\ slot[r] = Empty
  /\ slot' = [slot EXCEPT ![s] = MovedFrom(s), ![r] = [kind |-> "handle", fd |-> slot[s].fd]]
  /\ UNCHANGED <<backend, object, fds, maps, reclosed>>
Deserialize(s) ==
  /\ slot[s].kind = "handle" /\ Becomes(s, IF slot[s].fd = 0 THEN "none" ELSE "unsafe", slot[s].fd)
  /\ UNCHANGED <<backend, object, fds, maps, reclosed>>

(* The destructors. *)
ShmDestroy(s) ==
  /\ slot[s] # Empty /\ slot' = [slot EXCEPT ![s] = Empty]
  /\ fds' = IF slot[s].fd = 0 THEN fds ELSE Closes(slot[s].fd, fds)
  /\ reclosed' = (reclosed \/ (slot[s].fd # 0 /\ ~fds[slot[s].fd].open))
  /\ UNCHANGED <<backend, object, maps>>

ShmNext ==
  \/ \E s \in Slots, d \in Descriptors, k \in Regions : ShmCreate(s, d, k)
  \/ \E s \in Slots, k \in Regions : CreateFails(s, k)
  \/ \E s \in Slots : MapWritable(s) \/ MapReadOnly(s) \/ ConvertBySeal(s) \/ ConvertByType(s) \/ ConvertToWritable(s) \/ Deserialize(s) \/ ShmDestroy(s)
  \/ \E s, r \in Slots : ConvertFails(s, r) \/ TakeHandle(s, r)
  \/ \E s \in Slots, d \in Descriptors : ConvertByReopen(s, d)
  \/ \E k \in {"w", "r"} : Unmap(k)

ShmSpec == ShmInit /\ [][ShmNext]_shmVars

----------------------------------------------------------------------------
ShmTypeOK == slot \in [Slots -> [kind : Regions \cup {"none", "handle"}, fd : Descriptors \cup {0}]]

(* Through creation, transfer, conversion and failure every open descriptor    *)
(* has exactly one owner, and none is closed twice: none leaks.                *)
OneOwner ==
  ~reclosed /\ \A d \in Descriptors : Cardinality({s \in Slots : slot[s].fd = d}) = IF fds[d].open THEN 1 ELSE 0

(* "with the write privilege stripped": no region that descends from a         *)
(* read-only one, in whatever process and type, can be mapped for writing.     *)
(* The unsafe regions of Windows are the exception.                            *)
Stripped(s) == slot[s].fd # 0 /\ fds[slot[s].fd].stripped
ReadOnlyStays == backend # "section" => \A s \in Slots : Stripped(s) => ~MapWrites(s)

(* Violated on Windows: "read-only protection is enforced by the type system": *)
(* the handle of the region still carries the right, and comes back as an      *)
(* unsafe region.                                                              *)
ReadOnlyByType == \A s \in Slots : Stripped(s) => ~MapWrites(s)

(* Violated: a mapping for writing made before the conversion stays.           *)
NoWriterLeft == \A s \in Slots : slot[s].kind = "readonly" /\ slot[s].fd # 0 => maps.w = 0

-----------------------------------------------------------------------------
(***************************************************************************)
(* memory_pressure_monitor.cpp: the level computed from what the system    *)
(* reports, PollOnce, which compares it with the last level and notifies,  *)
(* and the registry, whose Notify calls a snapshot of the listeners        *)
(* outside the lock.  Memory is [commit, phys, cache, kernel]: the used    *)
(* share of the commit limit and of physical memory and the reclaimable    *)
(* cache in percent, and the level the kernel itself reports.              *)
(***************************************************************************)
CONSTANTS Builds, Memory, Pollers, Listeners

VARIABLES
  system,         \* the build
  memory,         \* what the system reports
  current_level,  \* current_level
  listeners,      \* the registry
  poll,           \* poller -> its PollOnce: [pc, level, snapshot]
  told,           \* history: listener -> the last level it was called with, -1 none since Add
  returned,       \* history: what the last PollOnce returned
  late            \* history: a listener was called after its Remove returned

pressureVars == <<system, memory, current_level, listeners, poll, told, returned, late>>

Idle == [pc |-> "idle", level |-> 0, snapshot |-> <<>>]

MonitorInit ==
  /\ system \in Builds /\ memory \in Memory /\ current_level = 0 /\ listeners = <<>>
  /\ poll = [p \in Pollers |-> Idle] /\ told = [l \in Listeners |-> -1] /\ returned = 0 /\ late = FALSE

(* GetCurrentMemoryPressureLevel: 2 critical, 1 moderate, 0 none. *)
GetCurrentMemoryPressureLevel(m) ==
  LET Graded(critical, moderate) == IF critical THEN 2 ELSE IF moderate THEN 1 ELSE 0
      free == 100 - m.phys
  IN CASE system = "win" -> Graded(m.commit >= 90 \/ m.phys >= 95, m.commit >= 75 \/ m.phys >= 90)
       [] system = "mac" -> Graded(m.kernel >= 2, m.kernel >= 1)
       [] system = "linux" -> Graded(2 * free + m.cache < 10, 2 * free + m.cache < 20)
       [] system = "other" -> Graded(free <= 5, free <= 10)

MemoryChanges(m) == memory' = m /\ m # memory /\ UNCHANGED <<system, current_level, listeners, poll, told, returned, late>>

----------------------------------------------------------------------------
Add(l) ==
  /\ ~Contains(listeners, l) /\ listeners' = Append(listeners, l) /\ told' = [told EXCEPT ![l] = -1]
  /\ UNCHANGED <<system, memory, current_level, poll, returned, late>>
RemoveListener(l) ==
  /\ Contains(listeners, l) /\ listeners' = Remove(listeners, l)
  /\ UNCHANGED <<system, memory, current_level, poll, told, returned, late>>

(* PollOnce. *)
Changed(level) == level # current_level
PollOnce(p) ==
  /\ poll[p].pc = "idle"
  /\ poll' = [poll EXCEPT ![p] = [Idle EXCEPT !.pc = "compares", !.level = GetCurrentMemoryPressureLevel(memory)]]
  /\ UNCHANGED <<system, memory, current_level, listeners, told, returned, late>>
Compare(p) ==
  /\ poll[p].pc = "compares"
  /\ IF Changed(poll[p].level) THEN current_level' = poll[p].level /\ poll' = [poll EXCEPT ![p].pc = "notifies"]
     ELSE poll' = [poll EXCEPT ![p] = Idle] /\ UNCHANGED current_level
  /\ returned' = IF Changed(poll[p].level) THEN returned ELSE poll[p].level
  /\ UNCHANGED <<system, memory, listeners, told, late>>
(* Notify: the snapshot under the lock, then the calls. *)
Snapshot(p) ==
  /\ poll[p].pc = "notifies" /\ poll' = [poll EXCEPT ![p].pc = "calls", ![p].snapshot = listeners]
  /\ UNCHANGED <<system, memory, current_level, listeners, told, returned, late>>
CallListener(p) ==
  /\ poll[p].pc = "calls"
  /\ IF poll[p].snapshot = <<>> THEN poll' = [poll EXCEPT ![p] = Idle] /\ returned' = poll[p].level /\ UNCHANGED <<told, late>>
     ELSE LET l == Head(poll[p].snapshot) IN
          /\ poll' = [poll EXCEPT ![p].snapshot = Tail(@)] /\ told' = [told EXCEPT ![l] = poll[p].level]
          /\ late' = (late \/ ~Contains(listeners, l)) /\ UNCHANGED returned
  /\ UNCHANGED <<system, memory, current_level, listeners>>

MonitorNext ==
  \/ \E m \in Memory : MemoryChanges(m)
  \/ \E l \in Listeners : Add(l) \/ RemoveListener(l)
  \/ \E p \in Pollers : PollOnce(p) \/ Compare(p) \/ Snapshot(p) \/ CallListener(p)

MonitorSpec == MonitorInit /\ [][MonitorNext]_pressureVars

----------------------------------------------------------------------------
MonitorTypeOK == current_level \in 0..2 /\ told \in [Listeners -> -1..2] /\ late \in BOOLEAN

(* With one poller: between polls a registered listener that was called since  *)
(* it was added was last told the level the last poll returned, and the level  *)
(* never grades more free memory as worse.                                     *)
ToldTheLevel ==
  /\ (\A p \in Pollers : poll[p].pc = "idle") => \A l \in Listeners : Contains(listeners, l) => told[l] \in {-1, returned}
  /\ \A m \in Memory, n \in Memory :
       (m.commit <= n.commit /\ m.phys <= n.phys /\ m.cache >= n.cache /\ m.kernel <= n.kernel)
       => GetCurrentMemoryPressureLevel(m) <= GetCurrentMemoryPressureLevel(n)

(* Violated: Remove is what a listener calls on destruction ("Add once and     *)
(* Remove on destruction"), and a snapshot still calls it afterwards.          *)
RemovedIsNotCalled == ~late
=============================================================================
