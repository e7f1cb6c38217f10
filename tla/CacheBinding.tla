---------------------------- MODULE CacheBinding ----------------------------
(***************************************************************************)
(* The binding layer (src/bind/cache.cpp) that routes a program's large   *)
(* allocations and file mappings into the cache, seen from several client *)
(* threads of one process:                                                 *)
(*                                                                         *)
(*  - the allocation hooks (malloc, calloc, anonymous mmap) and the guard  *)
(*    check_real_alloc_threshold on the bytes routed into the cache;       *)
(*  - InternalCachedAllocator (cached_allocator.hpp), which cache_alloc    *)
(*    and cache_free call: per-thread free lists for small orders, a       *)
(*    mutex-protected list for large ones, and a bump pointer used_size;   *)
(*  - cache_mmap_hook for files, with the global __mmap_file_mutex and one *)
(*    mutex per file, and munmap / msync, which write a mapping back to    *)
(*    the file when lazy writeback is disabled.                            *)
(*                                                                         *)
(* Sizes and offsets are in cache pages (CACHE_PAGE_SIZE is one unit).    *)
(* The file is FileSize pages; its data are abstracted to who wrote each  *)
(* page last: "disk0" for the file's original content, a thread for a     *)
(* store of that thread, "junk" for a cache page nobody has filled.       *)
(* Every shared access the code makes (a lock, an atomic, a copy into the *)
(* cache) is a step of its own; a section under a mutex is one step.      *)
(***************************************************************************)
EXTENDS Naturals, FiniteSets, Sequences, SequencesExt

CONSTANTS
    Threads,           \* client threads (__is_client_threads)
    AllocSizes,        \* sizes the program asks malloc / calloc / mmap for
    MallocThreshold,   \* __malloc_threshold
    TraceThreshold,    \* __trace_real_alloc_threshold
    TotalThreshold,    \* __total_real_alloc_threshold
    TotalSize,         \* total_size of the allocator (the cache's size)
    LargeOrder,        \* LARGE_BLOCK_ORDER_THRESHOLD
    FileSize,          \* pages of the mapped file (st_size)
    MmapFileThreshold, \* __mmap_file_threshold
    MmapSize,          \* __mmap_size
    Regions,           \* [offset, len] ranges of the file the program maps
    MaxCalls,          \* bound on the hooked calls of each thread
    NoThread           \* no holder of a mutex

ASSUME AllocSizes \subseteq Nat /\ MaxCalls \in Nat /\ FileSize \in Nat \ {0}
ASSUME \A r \in Regions : r.offset + r.len <= FileSize /\ r.len > 0

VARIABLES
    pc,                 \* pc[t]: where thread t is in its current call
    loc,                \* loc[t]: the call's locals
    calls,              \* calls[t]: hooked calls thread t has made
    disable_lazy,       \* __disable_lazy_mmap_writeback (read by init())
    total_real_alloc,   \* __total_real_alloc
    admitted,           \* bytes check_real_alloc_threshold has let through
    used_size,          \* InternalCachedAllocator::used_size
    free_blocks,        \* free_blocks[t][order]: thread t's private free list
    large_free_blocks,  \* large_free_blocks[order]
    live,               \* blocks handed out and not given back
    mmap_file_mutex,    \* holder of __mmap_file_mutex
    file_base,          \* (*__mmap_file_dict)[file], or NoBase
    file_mutex,         \* holder of the file's mutex
    mem,                \* the file's pages in the cache
    disk,               \* the file's pages on disk
    mapped,             \* the region thread t has mapped, or NoRegion
    last_store          \* the last store to each page through a mapping

vars == <<pc, loc, calls, disable_lazy, total_real_alloc, admitted, used_size,
          free_blocks, large_free_blocks, live, mmap_file_mutex, file_base,
          file_mutex, mem, disk, mapped, last_store>>
allocVars == <<total_real_alloc, admitted, used_size, free_blocks, large_free_blocks, live>>
fileVars == <<mmap_file_mutex, file_base, file_mutex, mem, disk, mapped, last_store>>

NoBase == -1
NoRegion == [offset |-> 0, len |-> 0]
Pages == 0 .. FileSize - 1
RegionPages(r) == r.offset .. r.offset + r.len - 1
Orders == 0 .. 3
BlockSize(o) == 2^o

\* size_to_order: max(CACHE_PAGE_SIZE, size), one more order when it is
\* not a power of two, plus the number of halvings to reach 1.
RECURSIVE Halvings(_)
Halvings(s) == IF s <= 1 THEN 0 ELSE 1 + Halvings(s \div 2)
IsPow2(s) == BlockSize(Halvings(s)) = s
size_to_order(size) ==
    LET s == IF size < 1 THEN 1 ELSE size
    IN (IF IsPow2(s) THEN 0 ELSE 1) + Halvings(s)

(***************************************************************************)
(* A thread's call ends: back to its program, one call more.               *)
(***************************************************************************)
Return(t) == /\ pc' = [pc EXCEPT ![t] = "idle"]
             /\ calls' = [calls EXCEPT ![t] = @ + 1]

Start(t, to, l) == /\ pc[t] = "idle" /\ calls[t] < MaxCalls
                   /\ pc' = [pc EXCEPT ![t] = to]
                   /\ loc' = [loc EXCEPT ![t] = l]

Goto(t, to) == pc' = [pc EXCEPT ![t] = to]

NewLoc(size, ret) == [size |-> size, order |-> size_to_order(size), off |-> NoBase,
                      ret |-> ret, region |-> NoRegion, found |-> FALSE]

(***************************************************************************)
(* check_real_alloc_threshold(size), reached from a hook once size >=      *)
(* __malloc_threshold on a client thread.  The early test reads the        *)
(* atomic; fetch_add and the fetch_sub that undoes it are atomic steps.    *)
(***************************************************************************)
\* The hooks of malloc, calloc and anonymous mmap: below the threshold the
\* real function serves the call.
AllocHook(t, size, hook) ==
    /\ Start(t, "check", NewLoc(size, hook))
    /\ UNCHANGED <<calls, disable_lazy, allocVars, fileVars>>

CheckEarly_undo(t) ==
    LET size == loc[t].size
    IN /\ pc[t] = "check"
       /\ \/ /\ size < MallocThreshold
             /\ Return(t)
          \/ /\ size >= MallocThreshold /\ size < TraceThreshold
             /\ Goto(t, "allocate") /\ UNCHANGED calls
          \/ /\ size >= MallocThreshold /\ size >= TraceThreshold
             /\ total_real_alloc + size > TotalThreshold
             /\ Goto(t, "fetch_sub") /\ UNCHANGED calls
          \/ /\ size >= MallocThreshold /\ size >= TraceThreshold
             /\ total_real_alloc + size <= TotalThreshold
             /\ Goto(t, "fetch_add") /\ UNCHANGED calls
       /\ UNCHANGED <<loc, disable_lazy, allocVars, fileVars>>
CheckEarly(t) ==
    LET size == loc[t].size
    IN /\ pc[t] = "check"
       /\ \/ /\ size < MallocThreshold
             /\ Return(t)
          \/ /\ size >= MallocThreshold /\ size < TraceThreshold
             /\ Goto(t, "allocate") /\ UNCHANGED calls
          \/ /\ size >= MallocThreshold /\ size >= TraceThreshold
             /\ total_real_alloc + size > TotalThreshold
             /\ Return(t)
          \/ /\ size >= MallocThreshold /\ size >= TraceThreshold
             /\ total_real_alloc + size <= TotalThreshold
             /\ Goto(t, "fetch_add") /\ UNCHANGED calls
       /\ UNCHANGED <<loc, disable_lazy, allocVars, fileVars>>

CheckFetchAdd_nocheck(t) ==
    /\ pc[t] = "fetch_add"
    /\ total_real_alloc' = total_real_alloc + loc[t].size
    /\ Goto(t, "allocate") /\ admitted' = admitted + loc[t].size
    /\ UNCHANGED <<loc, calls, disable_lazy, used_size, free_blocks, large_free_blocks,
                   live, fileVars>>
CheckFetchAdd(t) ==
    LET current == total_real_alloc
    IN /\ pc[t] = "fetch_add"
       /\ total_real_alloc' = current + loc[t].size
       /\ IF current + loc[t].size > TotalThreshold
          THEN Goto(t, "fetch_sub") /\ UNCHANGED admitted
          ELSE Goto(t, "allocate") /\ admitted' = admitted + loc[t].size
       /\ UNCHANGED <<loc, calls, disable_lazy, used_size, free_blocks, large_free_blocks,
                      live, fileVars>>

\* The guard said no: undo the addition; the real malloc serves the call.
CheckFetchSub(t) ==
    /\ pc[t] = "fetch_sub"
    /\ total_real_alloc' = total_real_alloc - loc[t].size
    /\ Return(t)
    /\ UNCHANGED <<loc, disable_lazy, admitted, used_size, free_blocks, large_free_blocks,
                   live, fileVars>>

(***************************************************************************)
(* InternalCachedAllocator::allocate and deallocate.  A small order pops  *)
(* the calling thread's own free list; a large one pops the shared list   *)
(* under the allocator's mutex (one step).  With nothing to pop, the      *)
(* block is bumped from used_size; an offset past total_size undoes the   *)
(* bump and throws bad_alloc, which nothing catches: the process aborts.  *)
(***************************************************************************)
Alive == \A t \in Threads : pc[t] # "aborted"

\* cache_aligned_alloc_hook allocates in the cache, then returns the real
\* aligned_alloc: nobody gets its block.
Owner(ret) == CASE ret = "file" -> "file"
                [] ret = "aligned_hook" -> "leaked"
                [] OTHER -> "program"

\* The block the call got goes to its caller: the hook returns it, or the
\* file mapping continues with it as its base.
Handout(t, off) ==
    /\ live' = live \cup {[off |-> off, order |-> loc[t].order, owner |-> Owner(loc[t].ret),
                            call |-> <<t, calls[t]>>]}
    /\ loc' = [loc EXCEPT ![t].off = off]
    /\ IF loc[t].ret = "file" THEN Goto(t, "file_created") /\ UNCHANGED calls
                              ELSE Return(t)

AllocPop_keep(t) ==
    LET o == loc[t].order
        list == IF o < LargeOrder THEN free_blocks[t][o] ELSE large_free_blocks[o]
    IN /\ pc[t] = "allocate"
       /\ IF list = <<>>
          THEN Goto(t, "bump") /\ UNCHANGED <<loc, calls, live>>
          ELSE Handout(t, Last(list))
       /\ UNCHANGED <<disable_lazy, total_real_alloc, admitted, used_size, free_blocks,
                      large_free_blocks, fileVars>>
AllocPop(t) ==
    LET o == loc[t].order
        list == IF o < LargeOrder THEN free_blocks[t][o] ELSE large_free_blocks[o]
    IN /\ pc[t] = "allocate"
       /\ IF list = <<>>
          THEN Goto(t, "bump") /\ UNCHANGED <<loc, calls, live, free_blocks, large_free_blocks>>
          ELSE /\ Handout(t, Last(list))
               /\ IF o < LargeOrder
                  THEN free_blocks' = [free_blocks EXCEPT ![t][o] = Front(@)]
                       /\ UNCHANGED large_free_blocks
                  ELSE large_free_blocks' = [large_free_blocks EXCEPT ![o] = Front(@)]
                       /\ UNCHANGED free_blocks
       /\ UNCHANGED <<disable_lazy, total_real_alloc, admitted, used_size, fileVars>>

AllocBump(t) ==
    LET offset == used_size
    IN /\ pc[t] = "bump"
       /\ used_size' = used_size + BlockSize(loc[t].order)
       /\ IF offset >= TotalSize
          THEN Goto(t, "bump_undo") /\ UNCHANGED <<loc, calls, live>>
          ELSE Handout(t, offset)
       /\ UNCHANGED <<disable_lazy, total_real_alloc, admitted, free_blocks,
                      large_free_blocks, fileVars>>

AllocBumpUndo(t) ==
    /\ pc[t] = "bump_undo"
    /\ used_size' = used_size - BlockSize(loc[t].order)
    /\ Goto(t, "aborted")
    /\ UNCHANGED <<loc, calls, disable_lazy, total_real_alloc, admitted, free_blocks,
                   large_free_blocks, live, fileVars>>

\* cache_free(ptr, size) -> deallocate: the block goes to the list of the
\* thread that frees it (or the shared list, under the mutex).
CacheFree(t, b) ==
    /\ pc[t] = "idle" /\ calls[t] < MaxCalls
    /\ b \in live /\ b.owner = "program"
    /\ live' = live \ {b}
    /\ IF b.order < LargeOrder
       THEN free_blocks' = [free_blocks EXCEPT ![t][b.order] = Append(@, b.off)]
            /\ UNCHANGED large_free_blocks
       ELSE large_free_blocks' = [large_free_blocks EXCEPT ![b.order] = Append(@, b.off)]
            /\ UNCHANGED free_blocks
    /\ calls' = [calls EXCEPT ![t] = @ + 1]
    /\ UNCHANGED <<pc, loc, disable_lazy, total_real_alloc, admitted, used_size, fileVars>>

(***************************************************************************)
(* cache_mmap_hook for a file.  Under __mmap_file_mutex the first mapping *)
(* of the file allocates its buffer, creates the file's mutex locked and  *)
(* reads the whole file in after releasing the global mutex; a later      *)
(* mapping finds the buffer and, with lazy writeback disabled, locks the  *)
(* file's mutex while still holding the global one and re-reads its       *)
(* region.  Every mapping returns through lock_guard{*file_mutex}, so it  *)
(* waits until no load is in progress.                                     *)
(***************************************************************************)
MmapFile(t, r) ==
    /\ \/ /\ r.len < MmapFileThreshold
          /\ pc[t] = "idle" /\ calls[t] < MaxCalls
          /\ Return(t) /\ UNCHANGED <<loc, mapped>>
       \/ /\ r.len >= MmapFileThreshold /\ mapped[t] = NoRegion
          /\ Start(t, "mmap_lock",
                   [NewLoc(IF MmapSize > FileSize THEN MmapSize ELSE FileSize, "file")
                       EXCEPT !.region = r])
          /\ UNCHANGED <<calls, mapped>>
    /\ UNCHANGED <<disable_lazy, allocVars, mmap_file_mutex, file_base, file_mutex, mem,
                   disk, last_store>>

MmapLock(t) ==
    /\ pc[t] = "mmap_lock" /\ mmap_file_mutex = NoThread
    /\ mmap_file_mutex' = t
    /\ Goto(t, "lookup")
    /\ UNCHANGED <<loc, calls, disable_lazy, allocVars, file_base, file_mutex, mem, disk,
                   mapped, last_store>>

MmapLookup_alwaysreread(t) ==
    /\ pc[t] = "lookup"
    /\ \/ /\ file_base = NoBase
          /\ Goto(t, "allocate") /\ UNCHANGED mmap_file_mutex
       \/ /\ file_base # NoBase
          /\ Goto(t, "lock_file") /\ UNCHANGED mmap_file_mutex
    /\ UNCHANGED <<loc, calls, disable_lazy, allocVars, file_base, file_mutex, mem, disk,
                   mapped, last_store>>

\* new_data: allocate the buffer (cache_alloc, no guard); otherwise take the
\* recorded base, and lock the file's mutex first if writeback is eager.
MmapLookup(t) ==
    /\ pc[t] = "lookup"
    /\ \/ /\ file_base = NoBase
          /\ Goto(t, "allocate") /\ UNCHANGED mmap_file_mutex
       \/ /\ file_base # NoBase /\ disable_lazy
          /\ Goto(t, "lock_file") /\ UNCHANGED mmap_file_mutex
       \/ /\ file_base # NoBase /\ ~disable_lazy
          /\ mmap_file_mutex' = NoThread
          /\ Goto(t, "guard")
    /\ UNCHANGED <<loc, calls, disable_lazy, allocVars, file_base, file_mutex, mem, disk,
                   mapped, last_store>>

\* The buffer is recorded and the new file mutex created locked; the global
\* mutex is released at the end of its scope.
MmapCreated(t) ==
    /\ pc[t] = "file_created"
    /\ file_base' = loc[t].off
    /\ file_mutex' = t
    /\ mmap_file_mutex' = NoThread
    /\ Goto(t, "load")
    /\ UNCHANGED <<loc, calls, disable_lazy, allocVars, mem, disk, mapped, last_store>>

MmapLockFile(t) ==
    /\ pc[t] = "lock_file" /\ file_mutex = NoThread
    /\ file_mutex' = t
    /\ mmap_file_mutex' = NoThread
    /\ Goto(t, "reread")
    /\ UNCHANGED <<loc, calls, disable_lazy, allocVars, file_base, mem, disk, mapped,
                   last_store>>

\* new_data: read(fd, base, st_size) copies the whole file into the cache,
\* then the file's mutex is unlocked.
MmapLoad(t) ==
    /\ pc[t] = "load"
    /\ mem' = disk
    /\ file_mutex' = NoThread
    /\ Goto(t, "guard")
    /\ UNCHANGED <<loc, calls, disable_lazy, allocVars, mmap_file_mutex, file_base, disk,
                   mapped, last_store>>

\* Eager writeback: read(fd, base + offset, len) re-reads the region.
MmapReread_keeplock(t) ==
    /\ pc[t] = "reread"
    /\ mem' = [p \in Pages |-> IF p \in RegionPages(loc[t].region) THEN disk[p] ELSE mem[p]]
    /\ Goto(t, "guard")
    /\ UNCHANGED <<loc, calls, disable_lazy, allocVars, mmap_file_mutex, file_base,
                   file_mutex, disk, mapped, last_store>>
MmapReread(t) ==
    /\ pc[t] = "reread"
    /\ mem' = [p \in Pages |-> IF p \in RegionPages(loc[t].region) THEN disk[p] ELSE mem[p]]
    /\ file_mutex' = NoThread
    /\ Goto(t, "guard")
    /\ UNCHANGED <<loc, calls, disable_lazy, allocVars, mmap_file_mutex, file_base, disk,
                   mapped, last_store>>

\* lock_guard g{*file_mutex}, then return base + offset.
MmapGuard_nowait(t) ==
    /\ pc[t] = "guard"
    /\ mapped' = [mapped EXCEPT ![t] = loc[t].region]
    /\ Return(t)
    /\ UNCHANGED <<loc, disable_lazy, allocVars, mmap_file_mutex, file_base, file_mutex,
                   mem, disk, last_store>>
MmapGuard(t) ==
    /\ pc[t] = "guard" /\ file_mutex = NoThread
    /\ mapped' = [mapped EXCEPT ![t] = loc[t].region]
    /\ Return(t)
    /\ UNCHANGED <<loc, disable_lazy, allocVars, mmap_file_mutex, file_base, file_mutex,
                   mem, disk, last_store>>

\* The program stores through its mapping (an instrumented store).
Store(t, p) ==
    /\ p \in RegionPages(mapped[t])
    /\ mem' = [mem EXCEPT ![p] = t]
    /\ last_store' = [last_store EXCEPT ![p] = t]
    /\ UNCHANGED <<pc, loc, calls, disable_lazy, allocVars, mmap_file_mutex, file_base,
                   file_mutex, disk, mapped>>

(***************************************************************************)
(* munmap and msync of a cached address.  With lazy writeback they only   *)
(* print.  Otherwise the file is looked up under __mmap_file_mutex as the *)
(* one whose buffer holds addr within __mmap_size, and write(fd, addr,    *)
(* len) copies the region back (the hooked write, from the cache).  When  *)
(* no file matches, filename stays empty: open("") fails and the write to *)
(* fd -1 writes nothing, and the call still returns 0.                     *)
(***************************************************************************)
Unmap(t, sync) ==
    /\ pc[t] = "idle" /\ calls[t] < MaxCalls /\ mapped[t] # NoRegion
    /\ IF disable_lazy
       THEN /\ pc' = [pc EXCEPT ![t] = "unmap_lock"]
            /\ loc' = [loc EXCEPT ![t] = [NewLoc(0, IF sync THEN "msync" ELSE "munmap")
                                              EXCEPT !.region = mapped[t]]]
            /\ UNCHANGED <<calls, mapped>>
       ELSE /\ Return(t) /\ UNCHANGED loc
            /\ mapped' = IF sync THEN mapped ELSE [mapped EXCEPT ![t] = NoRegion]
    /\ UNCHANGED <<disable_lazy, allocVars, mmap_file_mutex, file_base, file_mutex, mem,
                   disk, last_store>>

\* The search loop, under the global mutex: addr = base + offset matches
\* when addr < base + __mmap_size.
UnmapLookup(t) ==
    /\ pc[t] = "unmap_lock" /\ mmap_file_mutex = NoThread
    /\ loc' = [loc EXCEPT ![t].found = loc[t].region.offset < MmapSize]
    /\ Goto(t, "writeback")
    /\ UNCHANGED <<calls, disable_lazy, allocVars, fileVars>>

UnmapWriteBack(t) ==
    LET r == loc[t].region
    IN /\ pc[t] = "writeback"
       /\ disk' = IF loc[t].found
                  THEN [p \in Pages |-> IF p \in RegionPages(r) THEN mem[p] ELSE disk[p]]
                  ELSE disk
       /\ mapped' = IF loc[t].ret = "munmap" THEN [mapped EXCEPT ![t] = NoRegion] ELSE mapped
       /\ Return(t)
       /\ UNCHANGED <<loc, disable_lazy, allocVars, mmap_file_mutex, file_base, file_mutex,
                      mem, last_store>>

Init ==
    /\ pc = [t \in Threads |-> "idle"]
    /\ loc = [t \in Threads |-> NewLoc(0, "none")]
    /\ calls = [t \in Threads |-> 0]
    /\ disable_lazy \in BOOLEAN
    /\ total_real_alloc = 0
    /\ admitted = 0
    /\ used_size = 0
    /\ free_blocks = [t \in Threads |-> [o \in 0 .. LargeOrder - 1 |-> <<>>]]
    /\ large_free_blocks = [o \in LargeOrder .. 3 |-> <<>>]
    /\ live = {}
    /\ mmap_file_mutex = NoThread
    /\ file_base = NoBase
    /\ file_mutex = NoThread
    /\ mem = [p \in Pages |-> "junk"]
    /\ disk = [p \in Pages |-> "disk0"]
    /\ mapped = [t \in Threads |-> NoRegion]
    /\ last_store = [p \in Pages |-> "none"]

\* A thread's step inside a call it has started.
Step(t) ==
    \/ CheckEarly(t) \/ CheckFetchAdd(t) \/ CheckFetchSub(t)
    \/ AllocPop(t) \/ AllocBump(t) \/ AllocBumpUndo(t)
    \/ MmapLock(t) \/ MmapLookup(t) \/ MmapCreated(t) \/ MmapLockFile(t)
    \/ MmapLoad(t) \/ MmapReread(t) \/ MmapGuard(t)
    \/ UnmapLookup(t) \/ UnmapWriteBack(t)

\* A thread's program makes a call, or stores through its mapping.
Call(t) ==
    \/ \E size \in AllocSizes, hook \in {"alloc_hook", "aligned_hook"} : AllocHook(t, size, hook)
    \/ \E b \in live : CacheFree(t, b)
    \/ \E r \in Regions : MmapFile(t, r)
    \/ \E sync \in BOOLEAN : Unmap(t, sync)
    \/ \E p \in Pages : Store(t, p)

Next == Alive /\ \E t \in Threads : Step(t) \/ Call(t)

\* The threads are scheduled by the OS: a thread inside a call keeps
\* running.  A mutex can be taken again and again by the others only
\* while they make calls, and each makes at most MaxCalls.
Fairness == \A t \in Threads : WF_vars(Step(t))

Spec == Init /\ [][Next]_vars /\ Fairness

-----------------------------------------------------------------------------
Holders == Threads \cup {NoThread}
Data == {"junk", "disk0"} \cup Threads

TypeOK ==
    /\ pc \in [Threads -> {"idle", "check", "fetch_add", "fetch_sub", "allocate", "bump",
                           "bump_undo", "aborted", "mmap_lock", "lookup", "file_created",
                           "lock_file", "load", "reread", "guard", "unmap_lock",
                           "writeback"}]
    /\ calls \in [Threads -> 0 .. MaxCalls]
    /\ disable_lazy \in BOOLEAN
    /\ total_real_alloc \in Nat /\ admitted \in Nat /\ used_size \in Nat
    /\ \A b \in live : b.owner \in {"program", "file", "leaked"} /\ b.order \in Orders
    /\ {mmap_file_mutex, file_mutex} \subseteq Holders
    /\ mem \in [Pages -> Data] /\ disk \in [Pages -> Data]
    /\ last_store \in [Pages -> Threads \cup {"none"}]
    /\ \A t \in Threads : mapped[t] \in Regions \cup {NoRegion}

(***************************************************************************)
(* No two blocks the allocator has handed out and not taken back overlap: *)
(* a block popped from a free list (private or shared) leaves it, a block *)
(* pushed back by cache_free is no longer live, and the bump pointer      *)
(* moves past every block it hands out, whichever threads race on it.     *)
(***************************************************************************)
NoOverlap ==
    \A a, b \in live :
        a # b => a.off + BlockSize(a.order) <= b.off \/ b.off + BlockSize(b.order) <= a.off

(***************************************************************************)
(* check_real_alloc_threshold never lets through more traced bytes than   *)
(* __total_real_alloc_threshold, however the threads' early tests,        *)
(* fetch_adds and fetch_subs interleave: the early test reads a value     *)
(* other threads are still changing, and only the fetch_add decides.      *)
(***************************************************************************)
AdmittedWithinLimit == admitted <= TotalThreshold

(***************************************************************************)
(* A mapping that cache_mmap_hook returned shows the file's data: no page *)
(* of a mapped region still holds what the cache had before the file was  *)
(* read in.  A second thread that maps the file while the first is still  *)
(* reading it must wait on the file's mutex (lock_guard) before it        *)
(* returns.                                                                *)
(***************************************************************************)
MappedDataLoaded ==
    \A t \in Threads : \A p \in RegionPages(mapped[t]) : mem[p] # "junk"

(***************************************************************************)
(* With lazy writeback (the default), a store through a mapping stays in  *)
(* the cache until the next store to that page: nothing the hook or       *)
(* munmap / msync does afterwards overwrites it, whichever thread maps,   *)
(* unmaps or syncs the file meanwhile.                                    *)
(***************************************************************************)
NoLostWrite ==
    ~disable_lazy => \A p \in Pages : last_store[p] # "none" => mem[p] = last_store[p]

(***************************************************************************)
(* Every hooked call returns (or the process has aborted on bad_alloc):   *)
(* nobody waits forever on __mmap_file_mutex or on a file's mutex, though *)
(* the eager path takes the file's mutex while holding the global one.    *)
(***************************************************************************)
CallsReturn ==
    \A t \in Threads : pc[t] \notin {"idle", "aborted"} ~> (pc[t] = "idle" \/ ~Alive)

=============================================================================
