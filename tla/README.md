# TLA+ models of TriCache

This directory holds TLA+ models of TriCache's cache core (`src/include/`) and
the TLC configurations that check them. Every definition is translated from
the C++ source. `PROJECT.json` maps each definition to the lines it models,
and lists the runs, the fault variants that validate each property, the
findings and the hazards.

## 1. The system

TriCache is a user-space page cache with three tiers:

1. **DirectCache** (`direct_cache.hpp`): a small direct-mapped array of
   pinned pages, private to one thread.
2. **PrivateCache** (`private_cache.hpp`): a per-thread shard engine whose
   frames hold pins on the shared cache.
3. **SharedCache** (`shared_cache.hpp`): N shards. Each shard is owned by
   one server thread (`PartitionServer`) and holds:
   - a CompactHashPageTable (CHPT, `compact_hash_page_table.hpp`);
   - a Clock replacement policy (`replacement.hpp`);
   - a frame pool (`memory_pool.hpp`);
   - an I/O backend (`io_backend.hpp`).

Client threads reach a shard through a `PartitionClient`
(`partition_client.hpp`). Each (client, shard) pair has one request
mailbox and one response mailbox, carrying batches of at most
`MAX_COMMS = 3` requests.

### Components, state, operations and interactions

- **CHPT slot header**
  - *State:* a 16-bit `pte_header` per page: `exist`, `busy`, `dirty` and a
    13-bit `ref_count`, plus `ppage_ids[]`.
  - *Operations:* `inc_ref_count`, `dec_ref_count`, `lock` and `unlock`,
    each a CAS loop; `pin`, `unpin`, `create_mapping`, `delete_mapping` and
    `release_mapping_lock`.
  - *Interactions:* written by client threads (the fast path) and by the
    server thread at the same time.
- **CHPT buckets**
  - *State:* 64-byte lines with a 58-bit tag, `num_using`, 8 slots and
    `next`; `2*max_ppage` primary lines and a pool of `max_ppage` overflow
    lines.
  - *Operations:* `find_or_create_hint`, `create_cacheline`,
    `delete_cacheline`, `find_cacheline` and its retry loop.
  - *Interactions:* chains are changed by the server only and read by
    clients.
- **Shard engine** (`SharedSingleThreadCache`)
  - *State:* `states[p].vpage_id` (the owner of each frame), `pinned_size`,
    `cur_id` and the recycle pool.
  - *Operations:* `process(context)`, which runs Begin → Initing →
    Evicting → Loading → End; `notify_pin`; `notify_unpin`; `flush`.
  - *Interactions:* runs on the server thread only, and calls evict_func
    and load_func (I/O).
- **Clock**
  - *State:* `states[]` in {0, 1, 2}, `hand` and `count`.
  - *Operations:* `push`, `access`, `erase` and `pop`. `pop` has a
    second-chance loop followed by a bounded prefetch loop.
  - *Interactions:* used by the server thread only.
- **LRU** (`replacement.hpp`), the other `ReplacementType`
  - *State:* a `std::list` of frames, front first, and `states[p]`, the
    iterator to p's node or `list.end()`.
  - *Operations:* `push` (a new frame to the front, a held one accessed),
    `access` (splice to the front), `erase` and `pop` (the back, with the
    new back as prefetch hint).
  - *Interactions:* no cache of the repository is built with it; a
    `SingleThreadCache` can be.
- **SingleThreadCache** (`single_thread_cache.hpp`, with `DirectPageTable`
  of `page_table.hpp` and the Clock or the LRU as `ReplacementType`), used
  by `bench_single_thread_cache` with the Clock
  - *State:* a page table entry per page (`exist`, `busy`, `dirty`,
    `ref_count`, frame), `states[f].vpage_id`, `pinned_size`, `cur_id` and
    the recycle pool.
  - *Operations:* `pin` and `unpin` return a context that `process` runs
    through Begin → Initing → Evicting → Loading → End; it returns early on
    a busy entry or on a callback that returns false, and the caller calls
    `process` again. `flush` evicts every frame, retries in passes, then
    frees them.
  - *Interactions:* one thread, but several contexts in flight at once.
- **SharedCache client side**
  - *State:* the caller's pinned pointers and the `retry_loops` of a Pin.
  - *Operations:*
    - `pin`: a fast-path CHPT pin, and a `NotifyDirectPin` on a 0→1
      transition; on a miss, a `Pin` request with a retry loop on
      `EMPTY_POINTER`, which throws "oom" after 2^20 retries.
    - `unpin`: the fast path, with a `NotifyDirectUnpin` on a 1→0
      transition.
  - *Interactions:* posts messages to the shard's server thread.
- **Mailbox**
  - *State:* the client's local batch, its toggle bits and epochs, and the
    server's toggles.
  - *Operations:* `request`, `submit_message`, `poll_message`,
    `process_message`, the server loop, and the async fiber that re-runs
    parked contexts.
  - *Interactions:* the client and server threads, through shared memory.
- **PrivateCache**
  - *State:* a per-thread shard engine.
  - *Operations:* `pin` and `unpin`. Its load_func is a shared pin and its
    evict_func a shared unpin with the dirty bit; `flush`.
  - *Interactions:* a client of SharedCache.
- **DirectCache**
  - *State:* slots `vpage_id → pointer` indexed by `vpid & mask`.
  - *Operations:* `access`, which unpins the old page and pins the new
    one; `flush`.
  - *Interactions:* a client of PrivateCache.
- **Binding hooks and CachedAllocator** (`src/bind/cache.cpp`,
  `cached_allocator.hpp`)
  - *State:* `__total_real_alloc`; the allocator's per-thread free lists,
    its shared list of large blocks under a mutex, and the atomic
    `used_size`; the file dictionary under `__mmap_file_mutex`, and each
    file's buffer and mutex.
  - *Operations:* the malloc/calloc/aligned_alloc hooks with
    `check_real_alloc_threshold`, `cache_alloc`/`cache_free`
    (`allocate`/`deallocate`), and the mmap, munmap and msync hooks.
  - *Interactions:* every client thread of an instrumented program calls
    them at once; the file buffer is cache memory shared by all mappings.
- **Memory and string hooks** (`src/bind/cache.cpp` 601-1143, through
  `CachedPtr` in `cached_ptr.hpp`)
  - *State:* the bytes of the cache space and of ordinary memory; the
    private-cache pins `cache_memcpy` holds on the pages of its two
    cursors; the read and write hooks' bounce buffer `local_buf`, the
    file offset, and `__disable_parallel_read_write`.
  - *Operations:* `cache_memcpy` (a page-stepping loop that pins each side's
    current page), `cache_memset`, `cache_memmove` (musl's overlap test,
    then `cache_memcpy` or a byte loop), `memchr`, `memcmp`, `strcmp`,
    `stpcpy`/`strcpy`/`strcat`, `strlen` (byte loops through `CachedPtr`),
    and the `read`/`write` hooks, which move a cached buffer through
    `local_buf` in chunks, one `cache_memcpy` per chunk or, in parallel
    mode, one per page-sized piece.
  - *Interactions:* called by the instrumented program instead of libc; each
    byte access or pin goes down the direct, private and shared tiers.
- **I/O backends** (`io_backend.hpp`; SharedCache uses `AIO`)
  - *State:* `MAX_DEPTH` iocbs, each idle, prepared (`preparing_iocbs`) or
    submitted, with the address of its caller's `finish` flag.
  - *Operations:* `read` and `write` take an idle iocb, or call `progress`
    and fail when none is idle; `progress` submits what is prepared and
    reaps what the kernel completed, setting each caller's `finish`.
  - *Interactions:* called from the server thread by evict_func and
    load_func, which keep an `IOContext {first, processing, finish}` per
    context; the kernel completes submitted iocbs in any order.

### What makes it hard

The server thread changes the mappings while client threads pin and unpin
the same 16-bit headers without locks. The server learns about those
fast-path pins only through notifications. A client buffers these in its
local batch until the batch is full or the client next waits, so the
server may read them much later and in any order relative to other clients'
messages. The victim loop of Initing reads a header (`get_pte`), decides,
and then CASes `busy` on; anything between the read and the CAS is a race.
Parked contexts (busy slot, evict or load I/O) are resumed by an async
fiber.

### Properties the code should have (from `spec.md` section 8 and the code)

- A pinned pointer stays mapped to its page until it is unpinned
  (section 8.1).
- ref_count equals the pins outstanding.
- Once every notification has been read, the Clock holds exactly the
  unreferenced resident frames (section 8.2) and `pinned_size` counts the
  referenced ones.
- A read after a write sees the write across evictions (section 8.4, S2).
- The server never hangs.
- Every pin returns with a frame or "oom" (section 7, S6).

## 2. Modules

| Module | Models | Kind |
|---|---|---|
| `SharedShard` | one shard of SharedCache: CHPT headers, shard engine (Pin path, notify_pin/unpin), the client-side `pin`/`unpin`, evict/load completion, mailboxes as FIFOs | detailed, concurrent |
| `MC_SharedShard` | model values and symmetry for `SharedShard` | MC |
| `ReplacementSet` | what a replacement policy promises: a set of frames with push, erase and pop-some-member | abstract |
| `ChptBuckets` | the whole CompactHashPageTable (cache lines, chains, `num_using`, overflow pool) under one shard: the server's Pin as one step, clients' `pin` walk, CAS and tag re-check as separate steps | detailed, concurrent |
| `MC_ChptBuckets` | model values and client symmetry for `ChptBuckets` | MC |
| `RequestQueue` | what the mailboxes promise: a FIFO of at most `MAX_COMMS` requests per client slot, taken by the server one at a time (the `mbox` of `SharedShard`) | abstract |
| `Mailbox` | PartitionClient and the PartitionServer loop for one server thread: batching, toggles, split stores, epochs, async answers, cid reuse; refines `RequestQueue` | detailed, concurrent |
| `ClientTiers` | one thread's DirectCache and PrivateCache under IntegratedCache, over an abstract shared tier (the thread's pins and dirty bits there, and evictions by other threads) | detailed, sequential |
| `SingleThreadCache` | `class SingleThreadCache` over a `DirectPageTable`, with several contexts in flight, callbacks that may answer "not yet", and `flush`; the policy is an `INSTANCE` of `ClockReplacement` or of `LruReplacement` | detailed, composed |
| `CacheBinding` | the binding layer's hooks (`cache.cpp`) over `InternalCachedAllocator`: allocation guard, free lists and bump pointer, and the mmap/munmap/msync hooks of one file, with threads interleaving at every atomic and mutex | detailed, concurrent |
| `MC_CacheBinding` | the mapped regions for `CacheBinding` | MC |
| `ShardIO` | one shard's Pin path (`process()` of `SharedSingleThreadCache`) driving `evict_func`/`load_func` over the `AIO` backend's iocbs and `MemoryPool::loaded`, with frame and block contents | detailed, concurrent |
| `MC_ShardIO` | model values for `ShardIO` | MC |
| `CacheMemOps` | the memory, string and read/write hooks of `cache.cpp` over the bytes of the cache space, ordinary memory and the hooks' `local_buf`, with `cache_memcpy`'s pins per page; byte loops as RECURSIVE operators, checked against the C library's definitions | detailed, sequential + algorithms |
| `MC_CacheMemOps` | initial bytes for `CacheMemOps` | MC |
| `ClockReplacement` | `class Clock`, each call one atomic step, `pop`'s loops as RECURSIVE operators, refines `ReplacementSet` | detailed + algorithm |
| `RecencyOrder` | what a least-recently-used policy promises, without a list: the frames held and which of two was pushed earlier; `pop` takes the oldest | abstract |
| `LruReplacement` | `class LRU`, its list as a sequence, each call one atomic step; refines `ReplacementSet` and `RecencyOrder` | detailed |

### SharedShard: state and actions against the code

State:
- `hdr[v]` and `ppage_ids[v]` are the CHPT slot of block v.
- `owner[p]` is `states[p].internal.vpage_id`.
- `repl` is the set of frames in the Clock, which `ClockReplacement`
  shows the Clock implements.
- `pinned_size`, `cur_id` and `loaded[p]` are `MemoryPool::first_loaded`.
- `ctx[c]` is the Pin context of client c's request at the server.
- `mbox[c]` holds the requests of client c not yet taken by the server.
- `resp[c]` is `resp()` of c's pending Pin.
- Data are versions: `latest[v]` is the last version written to v, `mem[p]`
  the content of frame p and `disk[v]` the content of block v.

Actions:
- **Client actions:**
  - `pin` is the fast path of `SharedCache::pin`.
  - `SendNotifyPin`, `SendPin` and `ReceivePin` are the rest of
    `SharedCache::pin`.
  - `unpin` and `SendNotifyUnpin` are `SharedCache::unpin`, after the
    client wrote or read the page.
- **Server actions:**
  - `ServerPin` takes a `Pin` from a mailbox and runs Begin. It parks the
    context if the slot is busy, and otherwise runs `Initing`.
  - `ResumeBegin` is the async fiber re-running a parked Begin.
  - `PopVictim` is `replacement.pop()` followed by the victim's `get_pte`.
  - `SpinEmptyClock` is `Clock::pop` on an empty clock.
  - `DeleteVictim` is the victim check, `delete_mapping`, `create_mapping`
    and a clean evict_func.
  - `ResumeEvictIO` is the completion of the write-back, then
    `release_mapping_lock`, `init_state` and load_func.
  - `ResumeLoadIO` is the completion of the read, then
    `release_mapping_lock`.
  - `notify_pin` and `notify_unpin` are the shard engine methods of the
    same names.
- **Granularity.** The victim loop runs inside one `process()` call on the
  server thread, so no other request is served until it ends
  (`ServerFree`). Clients still run between its two steps, because they
  are other threads: `PopVictim` is the read, `DeleteVictim` the CAS.

### ChptBuckets: state and actions against the code

State:
- `chpt` is the table, as one record:
  - `tag`, `num_using`, `next`, `headers` and `ppage_ids` of every line
    of `store`;
  - `pool`, the `std::vector` of free overflow lines (`Last` is `back()`).

  Lines `0 .. 2*NumFrames-1` are the primary lines and the rest the
  overflow lines, as the constructor lays them out.
- `owner`, `cur_id`, `pinned_size` and `repl` are the shard engine's
  `states[].internal.vpage_id`, `cur_id`, `pinned_size` and Clock. `repl`
  is the Clock seen as a set; `ClockReplacement` shows the Clock refines
  that set.
- `fault` records that the server thread stopped: UB on an empty pool, or
  spinning in `Clock::pop`.
- Per client:
  - `pc`, `want`, `at` (the line its walk stands on), `pre_ref`, `held`
    and `retry`.

The table operations are pure operators from table to table, named after
the methods they translate:
- `find_cacheline`, `find_cacheline_hint`, `find_pre_cacheline`;
- `create_cacheline`, `delete_cacheline`, `find_or_create_hint`;
- `create_mapping`, `delete_mapping`, `release_mapping_lock`, `get_pte`.

A walk is `ChainFrom`, a RECURSIVE operator with fuel.

Actions:
- **Server Pin: one step per outcome of `process()` from Begin to End.**
  The server is the only writer of chains and pool. Its I/O waits, which
  `SharedShard` models, do not change chains.
  - `ServerPinUnderflow`: `find_or_create_hint` needs `pool.back()` of an
    empty pool.
  - `ServerPinHit`: the entry exists.
  - `ServerPinEmpty`: `full_pin()`. The line `find_or_create_hint`
    created stays.
  - `ServerPinAlloc`: a fresh frame.
  - `ServerPinEvict`: the victim loop. Frames popped before the victim and
    dropped are any subset of those whose entry is referenced.
  - `ServerPinSpin`: the victim loop when no frame the Clock holds can be
    locked.

  The victim is handled by `evict_into`, in the code's order:
  `delete_mapping` of the victim, `create_mapping` of the new page,
  `release_mapping_lock` of the victim (which may delete its line), then
  of the new page.
- **Client fast path.**
  - `pin_start`.
  - `pin_walk`: one line of `find_cacheline` per step.
  - `pin_cas`: `inc_ref_count`.
  - `pin_recheck`: the tag test and the "Check Tag Error" `dec_ref_count`,
    or success with a NotifyDirectPin on `pre_ref_count == 0`.
  - `unpin`: `dec_ref_count` and a NotifyDirectUnpin on
    `pre_ref_count == 1`.

  A notification is applied within the client's step. Its delay through
  the mailbox is `SharedShard`'s subject.

### Mailbox: state and actions against the code

State:
- **Client side, per slot:**
  - `pc`: `"free"` (the cid is in `client_id_pool`), `"idle"`, `"pinreq"`
    and `"pinwait"` (inside `SharedCache::pin`), and `"leave"` and
    `"leavewait"` (inside `~PartitionClient`'s `wait()`).
  - `lmsg`/`nreq`: the local message and `num_requests`.
  - `ctog`, `processing`, `epoch`: `toggles[sid]`,
    `local_message_processing[sid]` and `epoches[sid]`.
  - `mine`: the epoch `request()` returned to the waiting pin.
  - `resp`: the pin's `resp()`.
  - `saved`: `client_toggles`.
  - `pub`: the body of `operator=` is copied and the header store is still
    pending.
- **Shared lines:** `reqHdr`/`reqBody` and `respHdr`/`respBody`.
- **Server, one thread:**
  - `stog`: `toggles[cid]`.
  - `rmsg`: `resp_messages[cid]`, never cleared.
  - `spc`, `scur`, `sidx`, `snum`: where the loop is.
  - `async`: the Pins handed to the async fiber.
  - `dispatched`: the last request passed to `first_process_func`.

Requests are records `[type, c, n]`, where `n` numbers the slot's
requests. A Pin is answered with its own record, so a wrong answer is
visible.

Actions:
- **Client:**
  - `Join`: the constructor restores the saved toggle.
  - `StartPin`: `resp() = {nullptr}`.
  - `Request`: `request()`, which submits a batch when it is full.
  - `SubmitMessage`: flip the toggle, copy the body, `epoch++`.
  - `Publish`: the header store behind the fence.
  - `Poll`: `process_message`, in any poll loop or `progress()`.
  - `PinSubmit`: `poll_message(sid, epoch)`.
  - `PinDone`.
  - `StartLeave`, `LeaveSubmit` and `LeaveDone`: `wait()`, then save the
    toggle and return the cid.
- **Server:**
  - `ServerVisit`: toggle differs.
  - `ServerDispatch`: one `first_process_func`. It answers at once, or
    hands a Pin to the async fiber with a null entry.
  - `ServerRespond`: flip, copy the body.
  - `ServerPublish`: the header store.
  - `AsyncAnswer`: `req.resp->pointer = ...`, run when the server is
    between passes.

The shard is abstracted: what a request does there is `SharedShard`'s
subject.

### ClientTiers: state and actions against the code

The default build has one fiber per thread (`PURE_THREADING`), so a
thread has one DirectCache and one PrivateCache. Both callbacks of the
private engine block and return true, and so every IntegratedCache call is
one atomic step of one sequential thread.

State:
- **Direct tier:** `store` and `dirty` are the slot arrays, with
  `NumPinned` slots computed from the code's formula (`NextPowerOf2`). Page
  v is in slot `v % NumPinned`. `direct_cache` says whether the tier
  exists.
- **Private tier:** one SharedSingleThreadCache per partition
  (`Part(v) = v % NumParts`). It has:
  - `pte`: its page table (exist, dirty, ref count);
  - `pinned_size`;
  - `replacement`: the Clock, as a set, since `ClockReplacement` shows
    the Clock refines `ReplacementSet`.

  A frame is named by the page it holds. `full()` is "all `NumLocal`
  frames are mapped", because a sub-cache never frees a frame before it is
  flushed and rebuilt.
- **Shared tier, as this thread sees it:**
  - `shared_ref`: its pins there;
  - `shared_dirty`: the dirty bit its unpins set;
  - `written`: the thread wrote the frame since the shared tier last wrote
    it back.
- **User:** `user_pins`, `user_shared` and `user_wrote` are its
  outstanding `pin`/`shared_pin` calls and whether it wrote through them.
  `oom` records an "oom" exception, which ends the thread.

Engine calls are operators on a record `engine`, so a call made of several
(an access that unpins one page and pins another) is their composition:
- `PrivUnpin`: the Initing/UnPin branch;
- `PrivHit`: a pin of a resident page;
- `PrivEvict`: the victim loop and `evict_func`;
- `PrivLoad`: `create_mapping` and `load_func`;
- `PinOutcomes`: what `pin` may leave, or `{}` for `EMPTY_PPAGE_ID`.

Actions:
- `AccessHit` / `AccessMiss` / `AccessOom`: `DirectCache::access`. A miss
  first unpins the slot's page with its dirty bit. `AccessOom` is the
  `PrivateCache::pin` retry loop throwing "oom".
- `Pin` / `PinOom`, `Write`, `Unpin`: `IntegratedCache::pin`, a store
  through the pointer, and `unpin` with `is_write` set exactly when the
  user wrote.
- `SharedPinCall` / `SharedUnpinCall`: `shared_pin` / `shared_unpin`.
- `Flush`: `IntegratedCache::flush`. It unpins the direct slots into the
  private tier, then `SharedSingleThreadCache::flush` unpins every frame
  at the shared tier, dirty when still pinned. Both tiers are deleted.
- `SharedEvict(v)`: the environment. Other threads' traffic makes the
  shared tier write v back and evict it, which it can do only while this
  thread holds no pin on v.

`FlushWhilePinned` says whether the user may call `flush` while it holds
pins. The spec does not forbid it, and the code expects it (a pinned frame
is flushed as dirty).

### SingleThreadCache: state and actions against the code

State: `page_table` (`NoEntry` for an entry equal to `empty_value`),
`states` (the owner of each frame), `pinned_size`, `cur_id`,
`recycle_pool`, and the replacement policy. `policy` is the
`ReplacementType` template argument, "Clock" or "LRU", chosen in `Init`
and never changed. The Clock's variables `repl_*` are driven by
`Replacement == INSTANCE ClockReplacement`, and the LRU's `lru_list` and
`lru_ret` by `Lru == INSTANCE LruReplacement`. `ReplPush`, `ReplErase`
and `ReplPop` are the cache's `replacement.push`, `erase` and `pop`
(`single_thread_cache.hpp:232, 256, 284, 419`), sent to the policy it was
built with; the other policy's variables stay unchanged. `repl_spinning`
records that the thread stopped in a `pop` on an empty policy: the Clock
spins for ever, and the LRU takes `back()` of an empty list (undefined
behaviour once the assert is compiled out). `ctx[c]` is a context
the caller has in flight; `flushing` is the state of a `flush` call (its
loop, its index, `min_processing` and its contexts). `held` counts the
caller's pins, and `written` says a page was written since it was last
written back.

`process` runs from one return point to the next in one step. The
continuations are operators that share the page table as the steps before
them left it:
- `PinProcess` / `UnpinProcess`: Begin (a busy entry returns, `BusyWait`)
  and Initing: `PinHit`, `PinMiss` (full_pin gives `EMPTY_PPAGE_ID`),
  `PinEvict` (pop a victim, mark both entries busy, call `evict_func`),
  `PinAlloc` (`alloc()`), `UnpinMapped`;
- `EvictCall` / `EvictDone` / `LoadCall`: the Evicting and Loading phases.
  A callback's answer (`eok`, `lok`) is chosen: TRUE is done, FALSE means
  process returns and is called again.

Actions: `StartPin` and `StartUnpin` (`pin()` / `unpin()`, which process
once), `ResumeBegin`, `ResumeEvicting` and `ResumeLoading` (the caller's
`process` loop), and `flush` as `StartFlush`, `FlushScan` (one frame of the
first loop), `FlushPass` (one index of a retry pass), `FlushPassEnd` (the
`while (min_processing != max_ppage_id)` test) and `FlushFinish` (del,
`init_state`, free). `flush` pops the Clock once per unpinned frame, and the
Clock is driven one call per step, so `flush` is split into steps; no other
call runs in between.

`FlushWhilePinned` and `FlushAsync` say whether the caller flushes with
pins held and whether `flush`'s own `evict_func` may return false. Both are
FALSE in the run; see "Hazards left open" in section 3.

### CacheBinding: state and actions against the code

State: `pc[t]` and `loc[t]` are thread `t`'s place in a call and its
locals (size, order, offset, region); `calls[t]` counts its calls
(bounded by `MaxCalls`). `total_real_alloc` is `__total_real_alloc`;
`admitted` is the traced size the guard let through (a history variable).
`used_size`, `free_blocks[t][o]` and `large_free_blocks[o]` are the
allocator's. `live` is the set of blocks handed out, with their owner.
`mmap_file_mutex`, `file_base` and `file_mutex` are the global mutex, the
file's entry in `__mmap_file_dict` and its mutex (`NoThread` = unlocked).
`mem` and `disk` hold the file's pages in the cache buffer and on disk,
`mapped[t]` is the region `t` has mapped, and `last_store` (history) is
who stored a page last.

Actions, in code order:
- `AllocHook` (a hook called with a size), `CheckEarly` (the size tests and
  the early read of the total), `CheckFetchAdd` and `CheckFetchSub` (the
  atomic add and its undo);
- `AllocPop` (pop from the private list, or the shared one under the
  mutex), `AllocBump` (`fetch_add` of `used_size`), `AllocBumpUndo`
  (`fetch_sub`, then `bad_alloc`, which aborts the process: `Alive`),
  `Handout` (the caller gets the block; `cache_aligned_alloc_hook`'s block
  is leaked);
- `CacheFree`: `deallocate` pushes to the freeing thread's list;
- `MmapFile`, `MmapLock`, `MmapLookup`, `MmapCreated`, `MmapLockFile`,
  `MmapLoad`, `MmapReread`, `MmapGuard`: `cache_mmap_hook`'s phases, one per
  mutex operation or read;
- `Store`: the program writes a page through its mapping;
- `Unmap`, `UnmapLookup`, `UnmapWriteBack`: munmap and msync.

`disable_lazy` (`__disable_lazy_mmap_writeback`) is chosen in `Init`.

### ShardIO: state and actions against the code

State: `pte[v]` is the CHPT header of page `v` (exist, busy, dirty,
ref_count, ppage_id); `owner[f]` is `states[f].internal.vpage_id`; `repl`
the frames in the Clock; `pinned_size` and `cur_id` the engine's counters;
`first_loaded` the MemoryPool's bits. `ctx[r]` is the Pin context of
request slot `r`: its phase, page, frame, victim (`pre_vpage_id`), victim
dirty bit, `processing`, its `IOContext` and whether the client wrote
through the pin. `cur` is the context whose `process()` the server thread
is in (`NoReq` when it is free). `iocb[i]` is an iocb: idle, preparing,
inflight or done, with its operation, frame, block and owner. `mem[f]` and
`disk[v]` are frame and block contents; `latest[v]` (history) the last
version written; `kept[r]` a pin the client keeps while issuing its next
request.

Actions:
- `PinBegin` (the server takes a new Pin: `processing_func` calls
  `process()`) and `ResumeBegin` (the async fiber re-runs a context parked
  in Begin); both take the `Begin` phase, which parks on a busy entry;
- `Initing`: a hit (pin, and a 0 -> 1 pin leaves the Clock), `full_pin()`
  (answered `EMPTY_PPAGE_ID`), the victim path (pop, `delete_mapping`,
  `create_mapping` busy with ref 1) and the alloc path (`processing =
  false`);
- `EvictCall`: `evict_func`, which returns true for a clean victim and
  otherwise runs `IoCallback`: yield once (`first`), submit through
  `AIO::write` (which calls `progress` and fails when no iocb is idle, so
  the `while (!ret)` loop goes round with the server held), then
  `progress` until `finish` is set;
- `EvictDone`: release the victim's mapping lock, `init_state`, a fresh
  `IOContext`; `LoadCall`: `load_func`, whose `MemoryPool::loaded` lets
  the frame's first load return at once, then the same `IoCallback` with
  `AIO::read`; `LoadDone`: release the page's lock and answer the Pin;
- `Kernel`: the kernel completes a submitted iocb, copying frame to block
  or block to frame;
- `ClientWrite`, `Keep` and `Unpin`: the client stores through its pin,
  keeps it, and releases it (`dec_ref_count` with the dirty bit, then
  `notify_unpin` when the count reached 0).

### CacheMemOps: state and actions against the code

| Code | Model |
|---|---|
| `OFFSET_FLAG` set in a pointer (`cache.cpp:37-38`) | `Cached(p)`: `p.sp = "c"`; ordinary memory is `"p"`, the hooks' `local_buf` is `"b"` |
| `CachedPtr::get`, `operator*`, `operator[]`, `operator+=`, `page_offset` | `Read`, `Write`, `Plus`, `Page`, `PageOff` |
| `CachedPtr::pin` / `unpin` | `PinIf` / `UnpinIf` on `pins[page]` |
| `cache_memcpy`: `d.pin()`, `s.pin()` (611-624) | `StartMemcpy`; both plain is `__real_memcpy` in one step |
| the `while (copied_len < n)` loops (625-656, 674-695, 712-733) | `McStep`: one turn, `StepLen` = least of `n - copied` and each cached side's room in its page; a side at its page end unpins and pins `(d + step_len)`, which throws past the space |
| `d.unpin(); s.unpin();` (658-659, 697, 735) | `McEnd`, back to the caller (`mc.back`) |
| `cache_memset` | `CallMemset`: `SetBytes` |
| `cache_memmove` | `CallMemmove`: `d == s`, `NoOverlapTest` (the size_t test, `% 2^WordBits`), `CopyForward` / `CopyBackward`, or `cache_memcpy` |
| `memchr`, `memcmp`/`bcmp`, `strcmp`, `strlen`, `stpcpy` | RECURSIVE operators with the same loop conditions: `ChrScan`/`Memchr`, `Memcmp`, `Strcmp`, `Strlen`, `Stpcpy` |
| `strcpy`, `strcat` | `CallStrcpy`: `stpcpy(dest + strlen(dest), src)` for `strcat` |
| `read` hook (1029-1086) | `CallRead` (the plain branch is `__real_read` in one step), `ReadChunk` (`__real_read` of `len` into `local_buf`: -1, short or full, `IoResults`), `CopyPiece`, `ReadDone` (`ret += local_ret`, `dst += local_ret`, break on short or full) |
| `write` hook (1088-1143) | `CallWrite`, `WriteChunk`, `CopyPiece` (user buffer to `local_buf`), `WriteDone` (`__real_write`, the same bookkeeping) |
| serial copy / `#pragma omp parallel for` pieces | `Pieces(k)`, `PieceLen`: `{0}` of length `k`, or one piece per page of the chunk, run in any order |
| `cache_flush()` and `return ret` | `Return(ret)`: the flush writes dirty pages back and changes no byte the model keeps |

`call` is a history variable that records each call and the state it
started in; the properties compare the end state with the C library's
definition applied to that start. The calling thread is alone. The pieces
of a parallel read or write run on OpenMP threads at once, but they copy
disjoint byte ranges, read only what no piece writes, and each holds its
own pins, so running them one after another in any order gives every
result the parallel run can give.

### Abstractions

- A page's content is a version number.
- In `SharedShard` a slot is addressed by its block id. The chains are
  `ChptBuckets`' subject, which leaves out the dirty bit (`SharedShard`
  checks it) and the content.
- In `ChptBuckets`, a client reads a line's tag and its next pointer in
  one step. Splitting them only makes more walks miss, which sends the
  client to the server, and a miss is already possible.
- A mailbox is a FIFO of at most `MailboxCap` requests, which the server
  may take at any time. The code holds at most `MAX_COMMS` unprocessed
  requests per (client, shard), buffered or in flight, and `request()`
  waits while a batch is in flight. The server sees a request only once it
  is submitted, and the FIFO lets it see requests earlier. Every trace of
  the code is therefore a trace of the model. The traces behind the
  findings below use only delays the code really has. `Mailbox` shows
  that the mailboxes do implement this FIFO (`ImplementsRequestQueue`).
  It also shows that the FIFO is too generous for liveness: `SharedShard`'s
  fairness lets the server take every posted request, while in the code a
  notification can stay in a quiet thread's local batch for ever
  (see "A notification can stay in the local batch" under Hazards left
  open). `SharedShard`'s liveness results assume threads that keep
  calling.
- In `Mailbox` the two stores of `operator=` are two steps in program
  order. The x86 store order that `save_fence` keeps is assumed, not
  modelled. A thread takes any free cid; the NUMA-distance choice and the
  "cannot support more clients" error are left out.
- A client does not pin the same page twice at once (`ptr[c][v]`).

## 3. Runs

| Run | cfg | Expect | Checks |
|---|---|---|---|
| shard_two_clients | `SharedShard_two_clients.cfg` | pass | `TypeOK`, `PinnedFrameStable`, `RefCountExact`, `ReplacementReconciled`, `EmptyClockOnlyFromLag` |
| shard_one_client | `SharedShard_one_client.cfg` | pass | `DataCoherent`, `PinReturns` |
| shard_lost_write | `SharedShard_lost_write.cfg` | violation | `DataCoherent` |
| chpt_one_frame | `ChptBuckets_one_frame.cfg` | pass | `TypeOK`, `ChainsWellFormed`, `NumUsingExact`, `PinsAccounted` |
| chpt_pool_underflow | `ChptBuckets_pool_underflow.cfg` | violation | `NoPoolUnderflow` |
| chpt_tag_error | `ChptBuckets_tag_error.cfg` | violation | `ReplacementExact` |
| mailbox | `Mailbox.cfg` | pass | `AnswerIsOwn`, `ImplementsRequestQueue`, `CallsReturn` |
| tiers | `ClientTiers.cfg` | pass | `TypeOK`, `TiersBalanced`, `ReplacementExact`, `DirtyReachesShared`, `AccessOomOnlyWhenPinned` |
| single_thread_cache | `SingleThreadCache.cfg` | pass | `TypeOK`, `ReplacementExact`, `MappingExact`, `NoLostWrite`, `PopMatchesReference`, `ImplementsReplacementSet`, `CallsReturn` |
| shard_io | `ShardIO.cfg` (module `MC_ShardIO`) | pass | `TypeOK`, `PinSeesLatest`, `IoMatchesWaiters`, `PinsComplete` |
| binding | `CacheBinding.cfg` (module `MC_CacheBinding`) | pass | `TypeOK`, `NoOverlap`, `AdmittedWithinLimit`, `MappedDataLoaded`, `NoLostWrite`, `CallsReturn` |
| cache_memops | `CacheMemOps.cfg` (module `MC_CacheMemOps`) | pass | `TypeOK`, `CallMatchesReference`, `HookTransfers`, `PinsMatchCursor` |

What they show:
- **shard_two_clients.** Pins are safe and counts are exact despite the
  races: it checks 2,037,900 distinct states in about 45 s.
  - `PinnedFrameStable`: no victim loop can take a page a client holds,
    even one pinned by the fast path between the victim's `get_pte` and its
    `lock()`.
  - `RefCountExact`: the 13-bit count equals the pins held plus those the
    server took for Pins still being answered.
  - `ReplacementReconciled`: once the mailboxes are drained, the Clock
    holds exactly the unreferenced resident frames and `pinned_size` counts
    the referenced pages.
  - `EmptyClockOnlyFromLag`: the victim loop finds the Clock empty only
    while some client's `NotifyDirectPin` is unread (still to be posted or
    queued). The empty Clock does happen here, and with it the hang below
    ("An empty Clock after a buffered `NotifyDirectPin`"). The property
    shows that a lagging notification is its only cause: victim pops,
    dropped victims, parked evictions and loads, and `notify_unpin` never
    put `pinned_size` and the Clock out of step by themselves.
- **shard_one_client.** It checks 1,542,520 distinct states in about 70 s.
  - A client's own Pin cannot race its fast paths, because it is blocked
    in the wait loop. So no write is lost (`DataCoherent`); with two
    clients it is lost (the finding of shard_lost_write).
  - `MaxHeld = 3 > NumFrames = 2`, so the client can hold every frame and
    then miss. `PinReturns` shows the EMPTY_POINTER retry loop ends with
    "oom" rather than waiting forever (scenario S6).
- **shard_lost_write** (finding 1). TLC finds this 16-step trace:
  1. Client 1's Pin of a new page enters the victim loop and reads the
     victim's header
     (ref 0, clean).
  2. Client 2 fast-pins the victim, writes it and unpins it with the dirty
     bit.
  3. The server's `lock()` CAS still succeeds, and the victim is evicted
     as clean: the write never reaches the disk.
- **chpt_one_frame.** 10,873 distinct states, at the smallest table: one
  frame, a pool of one line and three tags in one bucket.
  - `ChainsWellFormed`: every chain ends, and no line is on two chains.
    Every tagged line is on its bucket's chain, and no tag is on two
    lines. Untagged lines are empty. Every overflow line is chained or
    pooled, exactly once. This holds while clients walk lines that the
    server unlinks, pools, re-tags and re-links.
  - `NumUsingExact`: `num_using` counts the existing or locked entries.
  - `PinsAccounted`: every `ref_count` equals the holders plus the clients
    between CAS and re-check, and a held page stays mapped. So the tag
    re-check does catch every CAS on a recycled line.

  The run goes up to the step where the pool runs out (finding 2).
- **chpt_pool_underflow** (finding 2). TLC finds this 14-step trace:
  1. Client c2 holds page 4.
  2. Client c1's Pin of page 0 ends EMPTY (the shard is full), leaving
     tag 0's overflow line allocated.
  3. c1 catches "oom" and pins page 8. Its tag needs another overflow
     line, and the pool is empty.
- **chpt_tag_error** (finding 3). TLC finds this 26-step trace:
  1. Client c1's walk stands on overflow line 5, matched for page 8.
  2. The server evicts page 8, pools line 5, and re-uses it for page 16,
     which c2 then holds.
  3. c1's CAS raises page 16's count from 1 to 2.
  4. c2's unpin sees 2 and sends no notify.
  5. c1's "Check Tag Error" decrement, from 1 to 0, sends none either.

  Page 16 is now unpinned, outside the Clock, and never evictable, and
  `pinned_size` over-counts by one.
- **mailbox** (89,281 distinct states, about 15 s).
  - `ImplementsRequestQueue`: under the refinement mapping `Queue(c)`, the
    protocol implements `RequestQueue`. `Queue(c)` is the local batch
    until the server starts on it, its rest while the server dispatches,
    and empty once the server's toggle equals the client's. So every
    posted request is dispatched exactly once and in order. This holds
    across the split stores, full and partial batches, and threads
    handing a cid on with its saved toggle.
  - `AnswerIsOwn`: a waiting pin finds only its own pointer in `resp()`,
    even though `resp_messages` keeps stale entries. It also holds when a
    pin answered by the async fiber returns with its batch in flight, so
    that a later `process_message` writes through a `status.responses`
    pointer into the stack slot the next pin's `resp()` reuses.
  - `CallsReturn`: every pin that misses, and every destructor `wait()`,
    returns.
- **tiers** (1,581,344 distinct states, about 80 s) checks these properties:
  - `TiersBalanced`: every holder is backed by exactly one pin in the
    tier below. The private ref count of a page is its direct slot plus
    the user's pins. The thread's shared pins are its private frame plus
    its `shared_pin` calls. This holds across misses that unpin one page
    and pin another, private evictions, and flushes.
  - `ReplacementExact`: in every sub-cache the Clock holds exactly the
    resident unpinned frames, and `pinned_size` counts the pinned ones.
    That is spec invariant 2 at the private tier.
  - `DirtyReachesShared`: a page the thread wrote and no longer pins at
    the shared tier is dirty there. The bit travels from the direct slot,
    through the private unpin and the private page table, to `evict_func`
    or `flush`.
  - `AccessOomOnlyWhenPinned`: an access throws "oom" only when every frame
    of the page's partition is pinned, by the user or by another direct
    slot. The retries of `PrivateCache::pin` then run on a cache that
    only this thread changes, so they can never succeed. The slot's old
    page is unpinned before the pin, so a slot never blocks its own new
    page; pinning first breaks the property (`AccessOom_pinfirst`).

  The four direct slots alone can pin all three frames of partition 0,
  and so can one user pin and two slots; the next pin or access there
  throws "oom" (scenario S6). The thread ends there, which is why
  the run sets `CHECK_DEADLOCK FALSE`.
- **Flush while the user holds a pin.** `IntegratedCache::flush` (run
  from the thread-exit hook and from `cache_flush`) unpins every private
  frame at the shared tier, including a frame the user still holds through
  a `pin` pointer; later writes through that pointer are then not reported
  dirty. The spec does not say whether flushing with pins held is allowed,
  so `tiers` keeps `FlushWhilePinned = FALSE` and flushes only when the user
  holds nothing. With `FlushWhilePinned = TRUE` TLC breaks
  `DirtyReachesShared` in five steps: pin page 0, flush, the shared tier
  writes page 0 back and evicts it, the user writes, the user unpins.
- **single_thread_cache** (85,288 distinct states, about 2 minutes, both
  policies).
  - `ReplacementExact`: the policy (Clock or LRU) holds exactly the frames of the resident
    unpinned pages, and `pinned_size` counts the pinned pages plus the
    frames that Pin contexts are evicting or loading. So a Pin that passes
    `full_pin()` on a full cache always finds a victim, and `pop` never
    spins.
  - `MappingExact`: a page the caller holds stays mapped, its `ref_count`
    is the caller's pins, its frame names it back (the asserts of
    Initing), and no two pages share a frame. This holds while other
    contexts wait on busy entries.
  - `NoLostWrite`: a page written since it was last written back is mapped
    and dirty, so the eviction that takes it writes it back.
  - `PopMatchesReference`: every pop returns the victim its policy
    promises. For the Clock this is `ClockReplacement`'s reference (the
    second-chance victim and prefetch hint). For the LRU, the cache evicts
    the frame whose page was unpinned longest ago among those not pinned
    since: `LruReplacement` refines `RecencyOrder` under the mapping "p
    stands behind q in the list" to "p was pushed before q", so
    `emplace_front`, the erase on a pin and `pop_back` must use the two
    ends of the list consistently. TLC breaks it both with the LRU taking
    its victim from the front (`pop_front`) and with the Clock's prefetch
    loop counting `loops--` (`Advance_postdec`). The cache never pushes a
    frame it holds (a frame is erased on its first pin), so LRU's `access`
    is not reached here. (The Clock part looks only at steps that pop,
    since a step of the cache that does not call the Clock leaves `ret`
    alone.)
  - `ImplementsReplacementSet`: the Clock and the LRU each refine
    `ReplacementSet`. A cache built with one policy leaves the other's
    variables alone, which both this property and `PopMatchesReference`
    allow.
  - `CallsReturn`: every pin and unpin ends and every flush returns.

- **shard_io** (436,501 distinct states, about 55 s) runs two Pin
  requests over two frames, three pages and one iocb, so a second I/O finds
  no idle iocb and spins in `write`/`read` until `progress` reaps the
  first.
  - `PinSeesLatest`: an answered pin (or one kept by the client) shows the
    page's last written version. The victim's write-back completes before
    the new page's read into the same frame is submitted, a dirty unpin
    reaches the eviction, and skipping the read on a frame's first load is
    sound for a freshly created file.
  - `IoMatchesWaiters`: every iocb in use belongs to a context still
    waiting on that I/O for that frame, and every waiting context has
    exactly one. `progress` run by any context sets the `finish` flag of
    the context that owns a reaped iocb.
  - `PinsComplete`: every Pin the server took is answered, even when one
    context spins on a full iocb queue and another parks on a busy entry.
- **binding** (876,498 distinct states, about 70 s).
  - `NoOverlap`: no two blocks handed out overlap, while threads pop,
    bump and free concurrently.
  - `AdmittedWithinLimit`: the traced size let through never exceeds
    `__total_real_alloc_threshold`, though two threads pass the early test
    together.
  - `MappedDataLoaded`: no mapping shows a page before the first mapping's
    read of the file, because every mapping returns through
    `lock_guard{*file_mutex}`.
  - `NoLostWrite`: in lazy mode a later mmap never overwrites a store.
  - `CallsReturn`: every call returns, as long as no allocation has
    aborted the process. The global-then-file lock order cannot deadlock.

- **cache_memops** (10,576 distinct states, about 20 s).
  - `CallMatchesReference`: every hook that returns leaves memory, and
    every scan returns, what the C library defines. It covers
    `cache_memcpy`'s stepping over misaligned page boundaries in all three
    branches, `cache_memmove`'s unsigned overlap test and direction on
    overlapping moves both ways, and the byte loops.
  - `HookTransfers`: a read or write hook that returns `r >= 0` has moved
    exactly the `r` bytes at its starting offset, advanced the offset by
    `r` and touched nothing else the user sees. It covers serial and
    parallel mode, two-chunk transfers, failed and short chunks, and every
    order of the pieces.
  - `PinsMatchCursor`: the pins held are exactly those of the copy in
    progress, one per cached cursor, and none between calls, including
    after a piece loop of a hook.

### Hazards left open

- **A file that already exists.** `MemoryPool::loaded` lets the first load
  into each frame skip the read, and the `AIO` constructor zero-fills only
  past the end of an existing file. With an old file, a page reads zeros on
  its first load and the file's old block after a later reload, with no
  write in between. `ShardIO` with `FreshFile = FALSE` breaks
  `PinSeesLatest` this way. Spec section 4.8 says the first load may return
  zeros, so the file is scratch space, and no run asserts otherwise.
- **The 13-bit `ref_count`.** `inc_ref_count` asserts against the
  `uint16_t` maximum, so 8192 pins of one page would wrap the count to 0
  (`compact_hash_page_table.hpp:63`). No model reaches 8192 pins.
- **A notification can stay in the local batch.** `Mailbox_notify_stuck.cfg`
  (run it by hand; it is not among the runs) breaks `RequestsTaken` with a
  lasso:
  1. A thread posts a notification with `request()`.
  2. It makes no other call on the slot.
  3. The request stays in its local batch for ever.

  The code submits a batch that is not full only from the pin wait,
  `wait()` and the destructor. `poll_message(sid)` with its default
  epoch 0 never submits, because `epoches` start at 1, and the unpin fast
  path's `poll_message` is commented out (`shared_cache.hpp:186`). Spec
  section 4.4 says a batch is also published when the caller polls, and
  scenario S4 says the frame must be back in replacement after the last
  unpin. The notification that puts it back can stay unsent indefinitely.
  The next entry shows where this leads when the stuck message is a
  `NotifyDirectPin`.
- **An empty Clock after a buffered `NotifyDirectPin`.** The
  shard_two_clients run reaches the victim loop on an empty Clock, and
  `EmptyClockOnlyFromLag` shows the cause is always an unread
  `NotifyDirectPin`. `SharedShard_clock_starvation.cfg` (run it by hand;
  the runs are at their limit) breaks `PinReturns` with two clients, with
  this trace:
  1. Client 2 fast-pins v1 while its `NotifyDirectPin` is still buffered.
  2. Client 1 unpins v1, then sends a Pin of v2.
  3. The server reads client 1's unpin notify (`pinned_size` 0) and the
     Pin, which passes `full_pin()`.
  4. The server enters the victim loop with an empty Clock, where
     `Clock::pop` spins forever (`replacement.hpp:122`: `assert(count > 0)`
     is compiled out). The server thread hangs and every client of the
     shard waits. Spec section 7 says a shard with no free frame answers
     with the no-frame sentinel and the client retries.
- **Eager writeback re-reads over unsynced stores.** With
  `__disable_lazy_mmap_writeback`, every later mmap of a file reads its
  region from disk into the one shared buffer (`cache.cpp:467-474`),
  overwriting what another thread stored there and has not yet msynced.
  `NoLostWrite` is stated for lazy mode. For eager mode TLC finds the
  overwrite in a few steps, but that is the mode's design, so no run checks
  it.
- **munmap/msync past `__mmap_size`.** No file matches, `offset` is read
  uninitialized, and the write goes to fd -1; the call still returns 0
  (`UnmapLookup` with `found = FALSE`).
- **The allocator's last block** may run past `total_size`: `allocate`
  tests only `offset >= total_size` (`cached_allocator.hpp:66`).
- **`cache_aligned_alloc_hook` leaks** its cache block and returns the real
  `aligned_alloc` (`cache.cpp:378-392`).
- **`stpcpy` returns its destination.** POSIX says `stpcpy` returns a
  pointer to the NUL it wrote; the hook returns `vl`, the start
  (`cache.cpp:989`). `strcpy` and `strcat` are unaffected, as they return
  `dest`. `CacheMemOps_stpcpy.cfg` (run it by hand) breaks
  `StpcpyReturnsEnd` at once. A plain unit test would show it too, so
  `CallMatchesReference` checks `stpcpy`'s bytes and not its result.
- **`cache_memcpy` pins one page past a range that ends on a page
  boundary** (`cache.cpp:644` and `651`). The pin comes before the loop
  tests whether bytes remain, so it loads an unrelated page into the
  private cache. When that page lies past the cache space, the pin throws
  "Virtual Page ID Error" and the other cursor's pin is never released.
  The cache_memops run reaches the throw (`pc = "thrown"`), and
  `PinsMatchCursor` is stated for the calls that return.
- **A read or write hook that fails after a first chunk returns -1**
  (`cache.cpp:1047`, `1118`), though earlier chunks were transferred and
  the file offset moved. `HookTransfers` covers every result `r >= 0`.
- **Not modelled:** `calloc`'s unchecked `n_elem * elem_sz`; the SIGTRAP handler restoring a rewritten base
  register over the instruction's result (`segfault_handler.cpp:198-204`).

- **The direct cache can exhaust a partition.** The tiers run reaches it:
  1. There are 3 partitions of 3 frames, so the direct cache gets
     `nextPowerOf2(9)/4 = 4` slots.
  2. Accesses to pages 0, 3 and 6, all in partition 0, land in slots 0, 3
     and 2 and pin all three frames.
  3. Page 9 lands in empty slot 1. Its private pin finds `full_pin()`, and
     `PrivateCache::pin` retries on a cache nothing else changes until it
     throws "oom".

  The code rounds up where the spec says "the next power of two ≤
  actual_num_ppages_per_thread / 4". With an odd partition count every
  slot can hold a page of the same partition. For 3 partitions of 1000
  frames the direct cache has 1024 slots, so an access pattern with a
  stride of 3 pages aborts the thread.

- **flush's retry loop ends early.** In `SingleThreadCache::flush` the
  do-while loop sets `min_processing = i` for every index it calls again,
  so it holds the *last* such index, and the next pass starts there. An
  earlier context whose `evict_func` still returns false is never called
  again. The loop then ends and the frame is freed while its write-back is
  still in flight. With `FlushAsync = TRUE`, TLC breaks `NoLostWrite` in 15
  states:
  1. Page 0 is written and unpinned; page 1 is pinned and unpinned.
  2. `flush` evicts both frames, and both `evict_func` calls return false.
  3. The first pass calls both again, so `min_processing` is 1.
  4. The second pass starts at 1, and context 1 completes.
  5. The third pass finds nothing from index 1 on, and the loop ends.
  6. Page 0 is unmapped, and its write never completed.

  No run checks this, because no instantiation in the repository reaches it.
  The benchmark's callbacks return true, and `SharedCache`'s shard flush
  is commented out (`shared_cache.hpp:477`). `shared_single_thread_cache.hpp`
  has the same loop. The spec says `flush` "returns when all I/O
  completes".
- **flush with pins held.** `flush` evicts a pinned frame as dirty and
  unmaps its page, but it does not lower `pinned_size`. The caller's later
  unpin finds no entry. With `FlushWhilePinned = TRUE`, TLC breaks
  `ReplacementExact` in 5 steps. From then on `full_pin()` refuses pins
  while frames are free.

### Bounds and why they are enough

- **SharedShard, two clients.**
  - Sizes: 2 clients, 2 pages and 1 frame.
  - Counters: `MaxHeld = 1`, `MailboxCap = 3` (= MAX_COMMS),
    `MaxVersion = 1` and `MaxRetry = 1`.
  - One frame forces an eviction on every miss, and two pages give every
    victim a successor. Two clients are the smallest number that can race
    a fast path against another client's Pin.
  - Symmetry over clients and pages is sound for these invariants.
- **SharedShard, one client.**
  - Sizes: 3 pages and 2 frames.
  - Counters: `MaxHeld = 3`, `MaxVersion = 2`, `MailboxCap = 3` and
    `MaxRetry = 1`.
  - With these values the client can hold every frame and still miss,
    write a page twice, and evict both clean and dirty pages.
  - The run uses no symmetry, because it checks a liveness property.
- **ChptBuckets.**
  - Sizes: 2 clients and 1 frame, so `bucket_size` is 2 and the pool has
    one line.
  - Pages `{0, 4, 8}` have tags 0, 2 and 4, all in bucket 0. Two tags need
    the bucket line and the overflow line, and the third recycles the
    overflow line from one tag to another while a walk stands on it.
  - Symmetry over the interchangeable clients is sound, since there is no
    liveness property.
  - `MaxRetry = 0`: a Pin that gets EMPTY_POINTER throws "oom" at once.
    The 2^20 retries end the same way when the frames stay pinned.
  - `PinnedDrift = 1` stops following `pinned_size` once it strays more
    than 1 outside `0 .. max_ppage_id`, which only a drift like finding 3
    can cause.
  - `chpt_pool_underflow` uses the same table. `chpt_tag_error` uses 2
    frames (two pool lines) and pages `{0, 1, 8, 16}`, so that a pooled
    line comes back with a different tag while a walk stands on it.
- **SingleThreadCache.**
  - Sizes: 2 frames, 3 pages and 3 contexts. A Pin that misses then
    evicts while the other two contexts wait on the victim's or the new
    page's busy entry.
  - `MaxHeld = 3` bounds the pins held or asked for. It is one more than
    the frames, so a Pin can get `EMPTY_PPAGE_ID`.
  - `PrefetchLoops = 4` stands for the 1024 of `Clock::pop`. The second
    loop depends on it only through `(loops - 1) mod NumFrames`, and
    3 ≡ 1023 (mod 2). The recursion of 1023 steps overflows TLC's stack.
    `SweepBound = 4 = 2 * NumFrames`, because `pop`'s first loop meets a 1
    within two turns.
  - 3 frames with 4 pages take over 9 minutes, because of the liveness
    check.

- **Mailbox.**
  - Batch sizes: with `MaxComms = 2`, two requests already fill a batch.
    Two slots then cover:
    - a batch that submits itself;
    - a batch submitted by the pin wait, or by the destructor;
    - the server serving one slot while the other posts;
    - cid reuse, where a slot's two requests are posted by different
      threads.
  - `MaxReqs` is the only bound. Epochs restart at 1 for every thread and
    never exceed one more than the number of requests.

- **ClientTiers.** `tiers` uses 3 partitions of 3 frames, giving
  `nextPowerOf2(9)/4 = 4` direct slots. Pages `{0, 3, 6, 9, 12}` are all
  in partition 0, two more than its frames, so the sub-cache evicts. They
  fall in slots 0, 3, 2, 1 and 0, so a direct miss can replace a slot (0
  and 12) or fill an empty one, and the four slots can outnumber the
  partition's frames. The user holds up to one pin. Partition 0 stands
  for any, since the tiers treat partitions alike; a page of another
  partition, or a second user pin, takes the run past five minutes. It
  checks 1,581,344 distinct states in about 80 s.

- **ShardIO.**
  - Sizes: 2 request slots, 3 pages, 2 frames and 1 iocb
    (`MAX_DEPTH` = 1), with one kept pin per slot.
  - Counters: `MaxVersion = 1`; `FreshFile = TRUE`.
  - Two frames let one context evict (a write) while another loads (a
    read), so with one iocb the second spins in `write`/`read`. Three
    pages and kept pins let both frames be pinned while a third page is
    asked for (`full_pin()`), and let a kept pin's frame be re-pinned.
  - The run uses no symmetry, because it checks a liveness property.
- **CacheBinding.** Two threads, each making at most `MaxCalls = 2`
  calls. Sizes 0..3 cover the real malloc (0), untraced cache allocation
  (1, 2) and the traced path (3). The guard's limit 3 lets only one traced
  call through, so two threads race for it and one backs out. `LargeOrder = 1`
  sends orders 1 and 2 to the shared list, and a freed block can be popped
  by either thread. `TotalSize = 6` pages run out after a few bumps, so
  `bad_alloc` happens. The file has 3 pages, `MmapSize = 2`, and the
  regions `[1,2]` (two threads map it, store, re-read and write back) and
  `[2,1]` (too short, goes to the real mmap). No region lies past
  `__mmap_size`: that case writes nothing back, and no property here
  depends on write-back.

- **CacheMemOps.** Three cache pages of 2 bytes, 4 bytes of ordinary
  memory, `BufLen = 3` and a 4-byte file; `n` and `count` up to
  `MaxLen = 4`; one call per behaviour (`MaxCalls = 1`), from either of two
  initial cache contents, in both modes.
  - A 4-byte range starting at any offset crosses one or two page
    boundaries on each side, at different points, so the stepping meets
    both sides wrapping in one step and each alone. Ranges end on the
    space's last boundary, which reaches the throw.
  - `BufLen = 3` is not a multiple of the page size, so a 4-byte transfer
    takes two chunks and the pieces of a chunk do not line up with the
    pages of the user buffer.
  - The bytes mix NULs into unequal values, so scans stop early, late
    and at a mismatch, and overlapping moves show a wrong direction.
  - `WordBits = 5` keeps every offset below a quarter of `2^WordBits`, as
    64-bit addresses are below a quarter of `2^64`, so the unsigned test
    means the same as in the code.
  - Two calls per behaviour give the same checks from more states, but
    take more than half an hour.

### Fairness

- **The server thread** never blocks: `server_loop` visits every mailbox
  each round, and the async fiber re-runs every parked context each round.
  So every server action is weakly fair. `ResumeBegin` is strongly fair,
  because a parked Begin is retried each round while its slot's busy bit
  comes and goes.
- **A client inside `SharedCache::pin` or `unpin`** runs until the call
  returns, so its continuation steps (`SendNotifyPin`, `SendPin`,
  `ReceivePin`, `SendNotifyUnpin`) are weakly fair.
- **Starting a new pin or unpin** is the application's choice and is not
  fair.

- **ChptBuckets** checks no liveness and assumes no fairness. Its runs set
  `CHECK_DEADLOCK FALSE`, because the model really does stop when the
  server thread stops. That is UB on an empty pool, or `Clock::pop`
  spinning after the frames leaked by finding 3. Clients waiting on that
  server wait forever, as in the code.

- **Mailbox.**
  - **Server:** the server loop never blocks and each pass visits every
    request line, so `ServerVisit(c)` per slot and the rest of the server
    are weakly fair. The async fiber runs at every yield of a pass with
    pending requests, and I/O completes, so it is strongly fair.
  - **Client:** a thread inside a call executes its next statement, so
    `InCall(c)` is weakly fair: the poll loops of `request()`, the pin
    wait and `wait()`, and the two stores of a copy. Posting, pinning,
    calling `progress()` and ending a thread are the application's choice
    and carry no fairness. That is why the stuck notification (Hazards left
    open) is a real gap and not an artefact.

- **SingleThreadCache.** The caller calls `process` on a context until it
  ends (the loops of `bench_single_thread_cache`), and the callbacks'
  I/O completes. So resuming from Evicting or Loading with a callback that
  returns true is weakly fair, as are the steps of `flush`. A context in
  Begin can go on only while its page is not busy, which comes and goes,
  so it is strongly fair. Starting a call is the caller's choice and is not
  fair.

- **ShardIO.** The server thread runs the context it is in to its next
  return (`Continue(r)`: Initing, EvictDone, LoadDone), so that is weakly
  fair. The async fiber re-runs every parked context on each pass
  (`partition_server.hpp:287-325`), but a context can be re-run only while
  the server is free and its entry is not busy, which come and go, so
  `Resume(r)` is strongly fair. The kernel completes every submitted iocb
  (weak fairness on `Kernel(i)`). New Pins, writes, keeps and unpins are
  the clients' choice and carry no fairness.
- **CacheBinding.** A thread inside a call runs until it returns, so
  every step of a call in progress is weakly fair (`Step(t)`). Starting a
  call is the program's choice and is not fair. The run sets
  `CHECK_DEADLOCK FALSE`: every thread stops after `MaxCalls` calls, and
  `bad_alloc` aborts the process.

- **ClientTiers** checks only safety and assumes no fairness. Every call
  is the application's choice.

- **CacheMemOps** checks only safety and assumes no fairness: every call
  is the program's choice, and the run has no liveness property. The run
  sets `CHECK_DEADLOCK FALSE`: the thread stops after `MaxCalls` calls, and
  a throw out of `cache_memcpy` ends it.

### Fault variants

Each property of a passing run has a fault variant in the same module (see
`PROJECT.json` "mutants"). The variant is a plausible bug in the code it
replaces, such as a dropped guard, a swapped decrement or a missing reset.
TLC finds the property violated when the variant replaces the original.
This shows the property depends on the code it is about.

## 4. Not modelled, and why

- **I/O backends** other than `AIO` (`DummyIO`, `MemCopy`, io_uring and
  SPDK) are not used by `SharedCache`. `SharedShard` takes a write or a
  read as one step that completes eventually; `ShardIO` models `AIO`.
- **The instrumentation** (`src/llvm-plugin`, the segfault trap of
  `src/bind`) is code generation and x86 register state, out of TLC's
  reach. The hooks of `cache.cpp` are in `CacheBinding` and
  `CacheMemOps`, except the remaining stdio/string hooks, which copy
  through the same `CachedPtr` access.
- **Benchmarks and playground** are drivers, not part of the library.
- **The partitioner**: only `RoundRobinPartitioner` is used, as `v % P` in
  `ClientTiers`. The shard models take one shard.
- **HashPageTable** is used by no instantiation (its use in
  `private_cache.hpp` is commented out). Its `put`, `get` and `del` mean
  the same as `DirectPageTable`'s.
- **The UnPin/DirtyUnpin server path** is unreachable with
  `ENABLE_DIRECT_UNPIN = true`.
- **The shared cache's flush** is never called (its call is commented
  out).
- **Fiber-specific direct caches** (`MAX_FIBERS_PER_THREAD > 1`) are not
  the default build. `ClientTiers` models one direct cache per thread.
- **`InternalMMapAllocator`** (`mmap_allocator.hpp`) is used nowhere in
  the repository. It repeats `InternalCachedAllocator`'s per-thread and
  shared free lists and bump pointer over anonymous memory, and
  `CacheBinding` models those.
- **`PrivateCache::get` / `set`** are `pin`, a copy and `unpin`. The model
  covers them with `Pin`, `Write` and `Unpin`.

## 5. Plan

ChptBuckets, Mailbox, ClientTiers, SingleThreadCache (with both
replacement policies), ShardIO and CacheMemOps are done: their runs are in
section 3. Remaining work, in order of importance:

1. **Flushing with pins held.** This is the one hazard no run covers,
   because the spec leaves open whether a caller may flush while it holds
   pins. If it may, `FlushWhilePinned = TRUE` shows the breakage (see the
   hazard at `single_thread_cache.hpp:413`), and this should become a
   violation run with a finding.
2. **LRU's `access` branch.** `SingleThreadCache` never pushes a frame it
   holds, so no run reaches this branch. A cache that did (a shared
   engine built with `LRU`) would exercise it under `PopMatchesReference`.
