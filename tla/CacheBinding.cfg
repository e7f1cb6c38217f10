\* Two client threads with two hooked calls each.
\* Allocation sizes: 0 goes to the real malloc (below __malloc_threshold),
\* 1 and 2 pages go to the cache untraced, 3 pages are traced, and the
\* guard lets 3 traced pages through, so two threads race for it.  Orders
\* are 0, 1 and 2; LargeOrder = 1 keeps order 0 on the thread's own list
\* and sends the others to the shared list under the mutex, as order >= 20
\* does in the code.  The allocator has 6 pages, so the bump pointer runs
\* out.
\* The file has 3 pages.  Its buffer gets max(__mmap_size, st_size) = 3
\* pages (order 2).  __mmap_size is 2 pages, so munmap finds the file for
\* the mapping [1, 2]; the mapping [2, 1] is shorter than the file
\* threshold and goes to the real mmap.
CONSTANTS
    Threads = {t1, t2}
    AllocSizes = {0, 1, 2, 3}
    MallocThreshold = 1
    TraceThreshold = 3
    TotalThreshold = 3
    TotalSize = 6
    LargeOrder = 1
    FileSize = 3
    MmapFileThreshold = 2
    MmapSize = 2
    Regions <- MC_Regions
    MaxCalls = 2
    NoThread = NoThread
SPECIFICATION Spec
INVARIANTS
    TypeOK
    NoOverlap
    AdmittedWithinLimit
    MappedDataLoaded
    NoLostWrite
PROPERTIES
    CallsReturn
CHECK_DEADLOCK FALSE
