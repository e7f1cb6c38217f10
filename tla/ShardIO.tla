------------------------------ MODULE ShardIO ------------------------------
(***************************************************************************)
(* The I/O path of one shard of the shared cache: the Pin state machine of *)
(* SharedSingleThreadCache (src/include/shared_single_thread_cache.hpp)    *)
(* driving the evict_func and load_func of SharedCache                     *)
(* (src/include/shared_cache.hpp), which talk to the AIO backend           *)
(* (src/include/io_backend.hpp) through an IOContext {first, processing,   *)
(* finish}, over the MemoryPool's first_loaded bits                        *)
(* (src/include/memory_pool.hpp).                                          *)
(*                                                                         *)
(* Actors: the shard's server thread, which runs one context's process()   *)
(* at a time (cur) and re-runs parked contexts from the async fiber; the   *)
(* kernel, which completes submitted iocbs in any order; and the clients,  *)
(* whose pins are held, written and released.                              *)
(*                                                                         *)
(* SharedShard takes an eviction's write and a load's read as one step;    *)
(* here they are the backend's iocbs.  The client fast path is SharedShard's *)
(* subject: an unpin here is the client's CAS and the server's             *)
(* notify_unpin in one step.                                               *)
(***************************************************************************)
EXTENDS Naturals, FiniteSets

CONSTANTS
    Reqs,        \* the request slots whose Pin contexts the server runs
    Pages,       \* the shard's block ids the requests touch
    NumFrames,   \* num_ppages_per_partition
    Iocbs,       \* the AIO backend's iocbs (MAX_DEPTH of them)
    MaxVersion,  \* bound on the versions written to one page
    FreshFile,   \* the backing file was created by the AIO constructor
    Old,         \* content of a block of a file that existed before
    NoPage, NoFrame, NoReq, NoPin

ASSUME NumFrames \in Nat \ {0} /\ MaxVersion \in Nat /\ FreshFile \in BOOLEAN

Frames == 0 .. NumFrames - 1
Versions == 0 .. MaxVersion

VARIABLES
    pte,         \* CHPT header of each page: exist, busy, dirty, ref, frame
    owner,       \* states[f].internal.vpage_id
    repl,        \* the frames held by the Clock
    pinned_size, cur_id,
    first_loaded,\* MemoryPool::first_loaded
    ctx,         \* the context of each request slot
    cur,         \* the request whose process() the server is running
    iocb,        \* each iocb: idle, preparing, inflight or done, and its I/O
    mem, disk,   \* frame contents and block contents
    latest,      \* the last version a client wrote to each page (history)
    kept         \* a pin each client keeps while it issues its next request

vars == <<pte, owner, repl, pinned_size, cur_id, first_loaded, ctx, cur, iocb,
          mem, disk, latest, kept>>
engineVars == <<pte, owner, repl, pinned_size, cur_id>>

NoPte == [exist |-> FALSE, busy |-> FALSE, dirty |-> FALSE, ref |-> 0, frame |-> NoFrame]
FreshIO == [first |-> TRUE, processing |-> FALSE, finish |-> FALSE]
Idle == [phase |-> "idle", v |-> NoPage, f |-> NoFrame, pre |-> NoPage, dirty |-> FALSE,
         proc |-> FALSE, io |-> FreshIO, wrote |-> FALSE]
NoIo == [st |-> "idle", op |-> "none", f |-> NoFrame, v |-> NoPage, req |-> NoReq]

ServerFree == cur = NoReq
Runs(r) == cur \in {r, NoReq}
IdleIocbs == {i \in Iocbs : iocb[i].st = "idle"}

(***************************************************************************)
(* AIO::progress: io_submit every prepared iocb, then io_getevents with    *)
(* min_nr 0 reaps what the kernel has completed: each iocb goes back to    *)
(* idle_iocbs and its finish flag is set.  Applied to iocbs and contexts.  *)
(***************************************************************************)
ProgressIocbs(io) ==
    [i \in Iocbs |-> CASE io[i].st = "preparing" -> [io[i] EXCEPT !.st = "inflight"]
                       [] io[i].st = "done" -> NoIo
                       [] OTHER -> io[i]]
ProgressCtx_nofinish(io, cx) == cx
ProgressCtx(io, cx) ==
    [r \in Reqs |-> IF \E i \in Iocbs : io[i].st = "done" /\ io[i].req = r
                    THEN [cx[r] EXCEPT !.io.finish = TRUE]
                    ELSE cx[r]]

\* AIO::write / AIO::read: take an idle iocb, prepare it, remember &finish.
Submit(r, i, op) ==
    iocb' = [iocb EXCEPT ![i] = [st |-> "preparing", op |-> op, f |-> ctx[r].f,
                                 v |-> IF op = "write" THEN ctx[r].pre ELSE ctx[r].v,
                                 req |-> r]]

(***************************************************************************)
(* The body of evict_func and load_func after their own first test: yield  *)
(* once (first), then submit (the while (!ret) loop: with no idle iocb,    *)
(* write/read call progress and fail, and the loop goes round), then call  *)
(* progress until finish is set.  Returning false parks the context       *)
(* (cur = NoReq); returning true, or the retry loop going round, keeps the *)
(* server in this context's process() (cur = r).                          *)
(***************************************************************************)
IoCallback_noprogress(r, op) ==
    LET io == ctx[r].io IN
    \/ /\ io.first
       /\ ctx' = [ctx EXCEPT ![r].io.first = FALSE] /\ cur' = NoReq
       /\ UNCHANGED iocb
    \/ /\ ~io.first /\ ~io.processing /\ IdleIocbs # {}
       /\ \E i \in IdleIocbs : Submit(r, i, op)
       /\ ctx' = [ctx EXCEPT ![r].io.processing = TRUE] /\ cur' = NoReq
    \/ /\ ~io.first /\ ~io.processing /\ IdleIocbs = {}
       /\ iocb' = ProgressIocbs(iocb) /\ ctx' = ProgressCtx(iocb, ctx) /\ cur' = r
    \/ /\ io.processing /\ ~io.finish
       /\ UNCHANGED <<iocb, ctx>> /\ cur' = NoReq
    \/ /\ io.processing /\ io.finish
       /\ ctx' = [ctx EXCEPT ![r].proc = FALSE] /\ cur' = r
       /\ UNCHANGED iocb
IoCallback(r, op) ==
    LET io == ctx[r].io IN
    \/ /\ io.first
       /\ ctx' = [ctx EXCEPT ![r].io.first = FALSE] /\ cur' = NoReq
       /\ UNCHANGED iocb
    \/ /\ ~io.first /\ ~io.processing /\ IdleIocbs # {}
       /\ \E i \in IdleIocbs : Submit(r, i, op)
       /\ ctx' = [ctx EXCEPT ![r].io.processing = TRUE] /\ cur' = NoReq
    \/ /\ ~io.first /\ ~io.processing /\ IdleIocbs = {}
       /\ iocb' = ProgressIocbs(iocb) /\ ctx' = ProgressCtx(iocb, ctx) /\ cur' = r
    \/ /\ io.processing /\ ~io.finish
       /\ iocb' = ProgressIocbs(iocb) /\ ctx' = ProgressCtx(iocb, ctx) /\ cur' = NoReq
    \/ /\ io.processing /\ io.finish
       /\ ctx' = [ctx EXCEPT ![r].proc = FALSE] /\ cur' = r
       /\ UNCHANGED iocb

(***************************************************************************)
(* process(), Begin: a busy entry parks the context (return), else on to   *)
(* Initing.  PinBegin is a new Pin request; ResumeBegin is the async fiber *)
(* running a parked one again.                                             *)
(***************************************************************************)
Begin(r, v) ==
    IF pte[v].busy
    THEN ctx' = [ctx EXCEPT ![r] = [Idle EXCEPT !.phase = "begin", !.v = v]] /\ cur' = NoReq
    ELSE ctx' = [ctx EXCEPT ![r] = [Idle EXCEPT !.phase = "initing", !.v = v]] /\ cur' = r

PinBegin(r, v) ==
    /\ ServerFree /\ ctx[r].phase = "idle"
    /\ Begin(r, v)
    /\ UNCHANGED <<engineVars, first_loaded, iocb, mem, disk, latest, kept>>

ResumeBegin(r) ==
    /\ ServerFree /\ ctx[r].phase = "begin"
    /\ Begin(r, ctx[r].v)
    /\ UNCHANGED <<engineVars, first_loaded, iocb, mem, disk, latest, kept>>

(***************************************************************************)
(* Initing of a Pin.  A resident page is pinned (a 0 -> 1 pin leaves the   *)
(* Clock).  Otherwise full_pin() answers EMPTY_PPAGE_ID; a full cache pops *)
(* a victim from the Clock, deletes its mapping and maps the page busy in  *)
(* its frame, then calls evict_func; a cache with frames left allocates    *)
(* one and goes on with processing = false.                                *)
(***************************************************************************)
Initing(r) ==
    LET v == ctx[r].v
        e == pte[v]
    IN /\ cur = r /\ ctx[r].phase = "initing"
       /\ \/ /\ e.exist
             /\ pte' = [pte EXCEPT ![v].ref = @ + 1]
             /\ repl' = IF e.ref = 0 THEN repl \ {e.frame} ELSE repl
             /\ pinned_size' = IF e.ref = 0 THEN pinned_size + 1 ELSE pinned_size
             /\ ctx' = [ctx EXCEPT ![r].phase = "held", ![r].f = e.frame]
             /\ cur' = NoReq
             /\ UNCHANGED cur_id
          \/ /\ ~e.exist /\ pinned_size >= NumFrames
             /\ ctx' = [ctx EXCEPT ![r] = Idle] /\ cur' = NoReq
             /\ UNCHANGED <<pte, repl, pinned_size, cur_id>>
          \/ /\ ~e.exist /\ pinned_size < NumFrames /\ cur_id >= NumFrames
             /\ \E f \in repl :
                  LET pre == owner[f] IN
                  /\ pte' = [pte EXCEPT ![pre] = [NoPte EXCEPT !.busy = TRUE],
                                        ![v] = [exist |-> TRUE, busy |-> TRUE, dirty |-> FALSE,
                                                ref |-> 1, frame |-> f]]
                  /\ repl' = repl \ {f}
                  /\ ctx' = [ctx EXCEPT ![r].phase = "evicting", ![r].f = f, ![r].pre = pre,
                                        ![r].dirty = pte[pre].dirty, ![r].proc = TRUE,
                                        ![r].io = FreshIO]
             /\ pinned_size' = pinned_size + 1
             /\ cur' = r /\ UNCHANGED cur_id
          \/ /\ ~e.exist /\ pinned_size < NumFrames /\ cur_id < NumFrames
             /\ pte' = [pte EXCEPT ![v] = [exist |-> TRUE, busy |-> TRUE, dirty |-> FALSE,
                                           ref |-> 1, frame |-> cur_id]]
             /\ cur_id' = cur_id + 1 /\ pinned_size' = pinned_size + 1
             /\ ctx' = [ctx EXCEPT ![r].phase = "evicting", ![r].f = cur_id, ![r].proc = FALSE]
             /\ cur' = r /\ UNCHANGED repl
       /\ UNCHANGED <<owner, first_loaded, iocb, mem, disk, latest, kept>>

(***************************************************************************)
(* Evicting.  evict_func returns true at once for a clean victim; a dirty  *)
(* one is written back through the backend.  With processing false, the   *)
(* victim's mapping lock is released and the frame is given to the new    *)
(* page (init_state), with a fresh IOContext for load_func.               *)
(***************************************************************************)
EvictCall(r) ==
    /\ Runs(r) /\ ctx[r].phase = "evicting" /\ ctx[r].proc
    /\ \/ /\ ~ctx[r].dirty
          /\ ctx' = [ctx EXCEPT ![r].proc = FALSE] /\ cur' = r
          /\ UNCHANGED iocb
       \/ ctx[r].dirty /\ IoCallback(r, "write")
    /\ UNCHANGED <<engineVars, first_loaded, mem, disk, latest, kept>>

EvictDone(r) ==
    LET k == ctx[r] IN
    /\ cur = r /\ k.phase = "evicting" /\ ~k.proc
    /\ pte' = IF k.pre = NoPage THEN pte ELSE [pte EXCEPT ![k.pre].busy = FALSE]
    /\ owner' = [owner EXCEPT ![k.f] = k.v]
    /\ ctx' = [ctx EXCEPT ![r].phase = "loading", ![r].proc = TRUE, ![r].io = FreshIO]
    /\ UNCHANGED <<repl, pinned_size, cur_id, first_loaded, cur, iocb, mem, disk, latest, kept>>

(***************************************************************************)
(* Loading.  load_func calls MemoryPool::loaded, which sets the frame's    *)
(* first_loaded bit and returns its old value: the first load into a      *)
(* frame returns true without reading.  Then the read, as for a write.    *)
(* Once done, the page's mapping lock is released and the Pin is answered.*)
(***************************************************************************)
LoadCall(r) ==
    LET f == ctx[r].f IN
    /\ Runs(r) /\ ctx[r].phase = "loading" /\ ctx[r].proc
    /\ first_loaded' = [first_loaded EXCEPT ![f] = TRUE]
    /\ \/ /\ ~first_loaded[f]
          /\ ctx' = [ctx EXCEPT ![r].proc = FALSE] /\ cur' = r
          /\ UNCHANGED iocb
       \/ first_loaded[f] /\ IoCallback(r, "read")
    /\ UNCHANGED <<engineVars, mem, disk, latest, kept>>

LoadDone(r) ==
    /\ cur = r /\ ctx[r].phase = "loading" /\ ~ctx[r].proc
    /\ pte' = [pte EXCEPT ![ctx[r].v].busy = FALSE]
    /\ ctx' = [ctx EXCEPT ![r].phase = "held"]
    /\ cur' = NoReq
    /\ UNCHANGED <<owner, repl, pinned_size, cur_id, first_loaded, iocb, mem, disk, latest, kept>>

\* The kernel completes a submitted iocb, in any order: the block is
\* written from the frame, or the frame is read from the block.
Kernel(i) ==
    LET io == iocb[i] IN
    /\ io.st = "inflight"
    /\ iocb' = [iocb EXCEPT ![i].st = "done"]
    /\ IF io.op = "write"
       THEN disk' = [disk EXCEPT ![io.v] = mem[io.f]] /\ UNCHANGED mem
       ELSE mem' = [mem EXCEPT ![io.f] = disk[io.v]] /\ UNCHANGED disk
    /\ UNCHANGED <<engineVars, first_loaded, ctx, cur, latest, kept>>

\* The client stores through its pinned pointer.
ClientWrite(r) ==
    LET k == ctx[r] IN
    /\ k.phase = "held" /\ latest[k.v] < MaxVersion
    /\ latest' = [latest EXCEPT ![k.v] = @ + 1]
    /\ mem' = [mem EXCEPT ![k.f] = latest[k.v] + 1]
    /\ ctx' = [ctx EXCEPT ![r].wrote = TRUE]
    /\ UNCHANGED <<engineVars, first_loaded, cur, iocb, disk, kept>>

\* A client keeps an answered pin while it issues its next request, and
\* releases it later; the model keeps at most one such pin per request
\* slot, so a client releases its older pin before it keeps a newer one.
Keep(r) ==
    /\ ctx[r].phase = "held" /\ kept[r] = NoPin
    /\ kept' = [kept EXCEPT ![r] = [v |-> ctx[r].v, f |-> ctx[r].f, wrote |-> ctx[r].wrote]]
    /\ ctx' = [ctx EXCEPT ![r] = Idle]
    /\ UNCHANGED <<engineVars, first_loaded, cur, iocb, mem, disk, latest>>

(***************************************************************************)
(* Unpin of pin p: the client's dec_ref_count CAS ORs in the dirty bit;   *)
(* when it took the count from 1 to 0 the server's notify_unpin lowers    *)
(* pinned_size and gives the frame back to the Clock.                     *)
(***************************************************************************)
UnpinPin_always(p) ==
    /\ pte' = [pte EXCEPT ![p.v].ref = @ - 1, ![p.v].dirty = @ \/ p.wrote]
    /\ pinned_size' = pinned_size - 1
    /\ repl' = IF pte[p.v].ref = 1 THEN repl \cup {p.f} ELSE repl
UnpinPin_nodirty(p) ==
    /\ pte' = [pte EXCEPT ![p.v].ref = @ - 1]
    /\ pinned_size' = IF pte[p.v].ref = 1 THEN pinned_size - 1 ELSE pinned_size
    /\ repl' = IF pte[p.v].ref = 1 THEN repl \cup {p.f} ELSE repl
UnpinPin(p) ==
    /\ pte' = [pte EXCEPT ![p.v].ref = @ - 1, ![p.v].dirty = @ \/ p.wrote]
    /\ pinned_size' = IF pte[p.v].ref = 1 THEN pinned_size - 1 ELSE pinned_size
    /\ repl' = IF pte[p.v].ref = 1 THEN repl \cup {p.f} ELSE repl

Unpin(r) ==
    /\ ServerFree /\ kept[r] # NoPin
    /\ UnpinPin(kept[r])
    /\ kept' = [kept EXCEPT ![r] = NoPin]
    /\ UNCHANGED <<owner, cur_id, first_loaded, ctx, cur, iocb, mem, disk, latest>>

(***************************************************************************)
(* The shard starts empty.  Frames come from an anonymous mapping (zero).  *)
(* The AIO constructor zero-fills the file only past its old end, so a     *)
(* file that existed keeps its old blocks.                                 *)
(***************************************************************************)
Init ==
    /\ pte = [v \in Pages |-> NoPte]
    /\ owner = [f \in Frames |-> NoPage]
    /\ repl = {} /\ pinned_size = 0 /\ cur_id = 0
    /\ first_loaded = [f \in Frames |-> FALSE]
    /\ ctx = [r \in Reqs |-> Idle]
    /\ cur = NoReq
    /\ iocb = [i \in Iocbs |-> NoIo]
    /\ mem = [f \in Frames |-> 0]
    /\ disk \in [Pages -> IF FreshFile THEN {0} ELSE {0, Old}]
    /\ latest = [v \in Pages |-> 0]
    /\ kept = [r \in Reqs |-> NoPin]

\* The server going on with the context whose process() it is in, and the
\* async fiber re-running a parked context.
Continue(r) == Initing(r) \/ EvictDone(r) \/ LoadDone(r)
Resume(r) == ResumeBegin(r) \/ EvictCall(r) \/ LoadCall(r)

ServerStep(r) == Continue(r) \/ Resume(r)

ClientStep(r) ==
    \/ \E v \in Pages : PinBegin(r, v)
    \/ ClientWrite(r) \/ Keep(r) \/ Unpin(r)

Next == \/ \E r \in Reqs : ServerStep(r) \/ ClientStep(r)
        \/ \E i \in Iocbs : Kernel(i)

\* The server thread runs a context's process() to its next return; the
\* async fiber re-runs every parked context each round, so a parked step
\* that is enabled again and again is taken (strong fairness: another
\* context may hold the server or the page's busy bit in between).  The
\* kernel completes every submitted iocb.  Pins and unpins are the
\* clients' choice.
Fairness ==
    /\ \A r \in Reqs : WF_vars(Continue(r)) /\ SF_vars(Resume(r))
    /\ \A i \in Iocbs : WF_vars(Kernel(i))

Spec == Init /\ [][Next]_vars /\ Fairness

-----------------------------------------------------------------------------
Phases == {"idle", "begin", "initing", "evicting", "loading", "held"}

TypeOK ==
    /\ pte \in [Pages -> [exist : BOOLEAN, busy : BOOLEAN, dirty : BOOLEAN,
                          ref : Nat, frame : Frames \cup {NoFrame}]]
    /\ owner \in [Frames -> Pages \cup {NoPage}]
    /\ repl \subseteq Frames
    /\ pinned_size \in 0 .. NumFrames /\ cur_id \in 0 .. NumFrames
    /\ first_loaded \in [Frames -> BOOLEAN]
    /\ \A r \in Reqs : ctx[r].phase \in Phases
    /\ cur \in Reqs \cup {NoReq}
    /\ \A i \in Iocbs : iocb[i].st \in {"idle", "preparing", "inflight", "done"}
    /\ mem \in [Frames -> Versions \cup {Old}]
    /\ disk \in [Pages -> Versions \cup {Old}]

\* A Pin answered with a frame gives the client the page as last written:
\* the victim's write-back completed before its frame was read into, a
\* dirty page is written before it is dropped, and the first load of a
\* frame (which skips the read) is of a page nobody wrote.
PinSeesLatest ==
    /\ \A r \in Reqs : ctx[r].phase = "held" => mem[ctx[r].f] = latest[ctx[r].v]
    /\ \A r \in Reqs : kept[r] # NoPin => mem[kept[r].f] = latest[kept[r].v]

\* Every iocb in use carries the finish flag of a context still waiting on
\* that I/O for that frame, and every context waiting on I/O has exactly one
\* iocb in use: AIO::progress sets each reaped request's flag and returns its
\* iocb, and the callbacks move on only once the flag is set.
IoMatchesWaiters ==
    LET Waiting(r) == /\ ctx[r].phase \in {"evicting", "loading"} /\ ctx[r].proc
                      /\ ctx[r].io.processing /\ ~ctx[r].io.finish
    IN /\ \A i \in Iocbs : iocb[i].st # "idle" =>
              iocb[i].req \in Reqs /\ Waiting(iocb[i].req) /\ ctx[iocb[i].req].f = iocb[i].f
       /\ \A r \in Reqs : Waiting(r) =>
              Cardinality({i \in Iocbs : iocb[i].st # "idle" /\ iocb[i].req = r}) = 1

\* Every Pin the server has taken is answered: with a frame, or with
\* EMPTY_PPAGE_ID when every frame is pinned.
PinsComplete ==
    \A r \in Reqs : ctx[r].phase \in {"begin", "initing", "evicting", "loading"}
                      ~> ctx[r].phase \in {"held", "idle"}
=============================================================================
