------------------------- MODULE SingleThreadCache -------------------------
(***************************************************************************)
(* class SingleThreadCache of src/include/single_thread_cache.hpp with the *)
(* DirectPageTable of src/include/page_table.hpp and, as its             *)
(* ReplacementType, the Clock (as bench_single_thread_cache builds it) or  *)
(* the LRU of src/include/replacement.hpp: policy is the template          *)
(* argument, chosen once.                                                  *)
(*                                                                         *)
(* pin and unpin return a context; process(context) runs it until it ends  *)
(* or must wait: on a page whose entry is busy (phase Begin), or on an     *)
(* evict_func or load_func that returned false (phase Evicting or Loading, *)
(* processing set).  The caller keeps the context and calls process again. *)
(* Ctxs are the contexts a caller can have in flight at once; each run of  *)
(* process up to a return point is one step.  The callbacks' answer is a   *)
(* nondeterministic choice: TRUE, done, or FALSE, call again later.        *)
(*                                                                         *)
(* The Clock is module ClockReplacement and the LRU module LruReplacement, *)
(* instantiated on this module's variables; the cache calls the policy's   *)
(* push, erase and pop.  Each step calls at most one of them, except       *)
(* flush, which pops once per unpinned frame and is therefore split into   *)
(* one step per frame (no other call runs meanwhile: the cache has one     *)
(* thread).                                                                *)
(***************************************************************************)
EXTENDS Naturals, FiniteSets, Sequences, SequencesExt

CONSTANTS
    VPages,           \* the virtual pages the caller uses
    NumFrames,        \* max_ppage_id
    Ctxs,             \* contexts the caller may have in flight at once
    MaxHeld,          \* bound on the pins the caller holds or has asked for
    FlushWhilePinned, \* whether the caller may flush while it holds pins
    FlushAsync,       \* whether evict_func may return false inside flush
    PrefetchLoops, SweepBound, NoFrame,  \* of ClockReplacement
    NoPage,           \* internal_state_type::EMPTY_VPAGE_ID
    NoEntry           \* DirectPageTable::get returns {} (an entry equal to empty_value)

Frames == 0 .. NumFrames - 1

VARIABLES
    page_table,    \* vpage -> NoEntry or [ppage, busy, dirty, ref_count]
    states,        \* states[f].internal.vpage_id
    pinned_size, cur_id, recycle_pool,
    policy,        \* ReplacementType: "Clock" or "LRU"
    repl_states, repl_hand, repl_count, repl_ret,  \* Clock
    lru_list, lru_ret,                             \* LRU
    repl_spinning, \* the thread is stuck in a pop called on an empty policy
    ctx,           \* ctx[c]: the context c the caller has in flight
    flushing,      \* flush(): its stage, loop index, min_processing and contexts
    held,          \* held[v]: pins the caller holds on v
    written        \* written[v]: v was written since it was last written back

clockVars == <<repl_states, repl_hand, repl_count, repl_ret>>
lruVars == <<lru_list, lru_ret>>
replVars == <<policy, clockVars, lruVars, repl_spinning>>
vars == <<page_table, states, pinned_size, cur_id, recycle_pool, replVars,
          ctx, flushing, held, written>>

Replacement == INSTANCE ClockReplacement WITH
    states <- repl_states, hand <- repl_hand, count <- repl_count,
    ret <- repl_ret, spinning <- repl_spinning

Lru == INSTANCE LruReplacement WITH list <- lru_list, ret <- lru_ret

\* replacement.push, erase and pop of the policy the cache is built with
ReplPush(p) ==
    /\ IF policy = "Clock" THEN Replacement!push(p) /\ UNCHANGED lruVars
                           ELSE Lru!push(p) /\ UNCHANGED <<clockVars, repl_spinning>>
    /\ UNCHANGED policy

ReplErase(p) ==
    /\ IF policy = "Clock" THEN Replacement!erase(p) /\ UNCHANGED lruVars
                           ELSE Lru!erase(p) /\ UNCHANGED <<clockVars, repl_spinning>>
    /\ UNCHANGED policy

ReplPop ==
    /\ IF policy = "Clock" THEN Replacement!pop /\ UNCHANGED lruVars
                           ELSE Lru!pop /\ UNCHANGED <<clockVars, repl_spinning>>
    /\ UNCHANGED policy

\* the pair the last pop returned, and the frames the policy holds
ReplRet == IF policy = "Clock" THEN repl_ret ELSE lru_ret
ReplMembers == IF policy = "Clock" THEN {f \in Frames : repl_states[f] # 0}
                                   ELSE ToSet(lru_list)

Entry(f, busy, dirty, ref) == [ppage |-> f, busy |-> busy, dirty |-> dirty, ref_count |-> ref]

\* A context after End, or not yet made
Idle == [type |-> "Pin", phase |-> "End", vpage |-> NoPage, pre_vpage |-> NoPage,
         ppage |-> NoFrame, has_pre |-> FALSE, dirty |-> FALSE,
         is_write |-> FALSE, processing |-> FALSE]

NewContext(type, v, w) == [Idle EXCEPT !.type = type, !.phase = "Begin", !.vpage = v, !.is_write = w]

full == cur_id >= NumFrames /\ recycle_pool = <<>>
full_pin == pinned_size >= NumFrames

NotIdle == {c \in Ctxs : ctx[c].phase # "End"}
Flushing == flushing.active
FlushAnswers == IF FlushAsync THEN BOOLEAN ELSE {TRUE}

(***************************************************************************)
(* process(): the continuations shared by several entry points.  Each     *)
(* takes the page table as the steps before it left it.                   *)
(***************************************************************************)

\* Fault variant (for CallsReturn): the entry stays busy after the load
LoadCall_keepbusy(c, k, pt, ok) ==
    IF ok
      THEN /\ page_table' = [pt EXCEPT ![k.vpage] = Entry(k.ppage, TRUE, FALSE, 1)]
           /\ ctx' = [ctx EXCEPT ![c] = Idle]
           /\ held' = [held EXCEPT ![k.vpage] = @ + 1]
      ELSE /\ page_table' = pt
           /\ ctx' = [ctx EXCEPT ![c] = [k EXCEPT !.phase = "Loading", !.processing = TRUE]]
           /\ UNCHANGED held

\* load_func returned ok; on TRUE the Loading phase ends the pin
LoadCall(c, k, pt, ok) ==
    IF ok
      THEN /\ page_table' = [pt EXCEPT ![k.vpage] = Entry(k.ppage, FALSE, FALSE, 1)]
           /\ ctx' = [ctx EXCEPT ![c] = Idle]
           /\ held' = [held EXCEPT ![k.vpage] = @ + 1]
      ELSE /\ page_table' = pt
           /\ ctx' = [ctx EXCEPT ![c] = [k EXCEPT !.phase = "Loading", !.processing = TRUE]]
           /\ UNCHANGED held

\* The Evicting phase after the victim is written back: forget the victim,
\* map the frame to the new page (busy) and call load_func
EvictDone(c, k, pt, lok) ==
    LET pt1 == IF k.has_pre THEN [pt EXCEPT ![k.pre_vpage] = NoEntry] ELSE pt
    IN /\ states' = [states EXCEPT ![k.ppage] = k.vpage]
       /\ LoadCall(c, k, [pt1 EXCEPT ![k.vpage] = Entry(k.ppage, TRUE, FALSE, 0)], lok)

\* evict_func(pre_vpage, ppage, dirty) returned eok; a dirty victim is
\* written back by the call that returns TRUE
EvictCall(c, k, pt, eok, lok) ==
    IF eok
      THEN /\ written' = IF k.dirty THEN [written EXCEPT ![k.pre_vpage] = FALSE] ELSE written
           /\ EvictDone(c, k, pt, lok)
      ELSE /\ page_table' = pt
           /\ ctx' = [ctx EXCEPT ![c] = [k EXCEPT !.phase = "Evicting", !.processing = TRUE]]
           /\ UNCHANGED <<states, held, written>>

\* replacement.pop(): its assert is compiled out.  On an empty clock the
\* first loop of pop never ends; on an empty LRU list, back() reads the
\* list's end node: the model stops the thread in both cases.
PopVictim ==
    \/ /\ IF policy = "Clock" THEN repl_count = 0 ELSE lru_list = <<>>
       /\ repl_spinning' = TRUE
       /\ UNCHANGED <<policy, clockVars, lruVars>>
    \/ ReplPop

\* Fault variant (for NoLostWrite): the victim is evicted as clean
PinEvict_clean(c, k, eok, lok) ==
    /\ PopVictim
    /\ IF repl_spinning'
         THEN UNCHANGED <<page_table, states, ctx, held, written>>
         ELSE LET f == ReplRet'[1]
                  pre == states[f]
                  k1 == [k EXCEPT !.ppage = f, !.pre_vpage = pre, !.has_pre = TRUE, !.dirty = FALSE]
                  pt == [page_table EXCEPT ![pre].busy = TRUE,
                                           ![k.vpage] = Entry(f, TRUE, FALSE, 0)]
              IN EvictCall(c, k1, pt, eok, lok)
    /\ UNCHANGED <<cur_id, recycle_pool>>

\* Initing of a Pin of a page not mapped, with the cache full: take the
\* Clock's victim, mark both entries busy and evict the victim
PinEvict(c, k, eok, lok) ==
    /\ PopVictim
    /\ IF repl_spinning'
         THEN UNCHANGED <<page_table, states, ctx, held, written>>
         ELSE LET f == ReplRet'[1]
                  pre == states[f]
                  k1 == [k EXCEPT !.ppage = f, !.pre_vpage = pre, !.has_pre = TRUE,
                                  !.dirty = page_table[pre].dirty]
                  \* the new entry's dirty and ref_count are left uninitialised;
                  \* EvictDone overwrites the entry before anything reads them
                  pt == [page_table EXCEPT ![pre].busy = TRUE,
                                           ![k.vpage] = Entry(f, TRUE, FALSE, 0)]
              IN EvictCall(c, k1, pt, eok, lok)
    /\ UNCHANGED <<cur_id, recycle_pool>>

\* alloc(): the last recycled frame, else the next never-used one
PinAlloc(c, k, lok) ==
    /\ IF recycle_pool # <<>>
         THEN /\ recycle_pool' = Front(recycle_pool)
              /\ UNCHANGED cur_id
              /\ EvictDone(c, [k EXCEPT !.ppage = Last(recycle_pool)], page_table, lok)
         ELSE /\ cur_id' = cur_id + 1
              /\ UNCHANGED recycle_pool
              /\ EvictDone(c, [k EXCEPT !.ppage = cur_id], page_table, lok)
    /\ UNCHANGED <<replVars, written>>

\* Fault variant (for TypeOK): no full_pin() check
PinMiss_nofullpin(c, k, eok, lok) ==
    /\ pinned_size' = pinned_size + 1
    /\ IF full THEN PinEvict(c, k, eok, lok) ELSE PinAlloc(c, k, lok)

\* Initing of a Pin of a page not mapped
PinMiss(c, k, eok, lok) ==
    IF full_pin
      THEN /\ ctx' = [ctx EXCEPT ![c] = Idle]   \* EMPTY_PPAGE_ID
           /\ UNCHANGED <<page_table, states, pinned_size, cur_id, recycle_pool,
                          replVars, held, written>>
      ELSE /\ pinned_size' = pinned_size + 1
           /\ IF full THEN PinEvict(c, k, eok, lok) ELSE PinAlloc(c, k, lok)

\* Fault variant (for ReplacementExact): the first pin is not counted
PinHit_nocount(c, k) ==
    LET e == page_table[k.vpage] IN
    /\ IF e.ref_count = 0
         THEN ReplErase(e.ppage) /\ UNCHANGED pinned_size
         ELSE UNCHANGED <<replVars, pinned_size>>
    /\ page_table' = [page_table EXCEPT ![k.vpage].ref_count = @ + 1]
    /\ ctx' = [ctx EXCEPT ![c] = Idle]
    /\ held' = [held EXCEPT ![k.vpage] = @ + 1]
    /\ UNCHANGED <<states, cur_id, recycle_pool, written>>

\* Initing of a Pin of a mapped page: take it out of the Clock on its first pin
PinHit(c, k) ==
    LET e == page_table[k.vpage] IN
    /\ IF e.ref_count = 0
         THEN /\ ReplErase(e.ppage)
              /\ pinned_size' = pinned_size + 1
         ELSE UNCHANGED <<replVars, pinned_size>>
    /\ page_table' = [page_table EXCEPT ![k.vpage].ref_count = @ + 1]
    /\ ctx' = [ctx EXCEPT ![c] = Idle]
    /\ held' = [held EXCEPT ![k.vpage] = @ + 1]
    /\ UNCHANGED <<states, cur_id, recycle_pool, written>>

\* Begin: a busy entry makes process return in phase Begin
BusyWait(c, k) ==
    /\ page_table[k.vpage] # NoEntry
    /\ page_table[k.vpage].busy
    /\ ctx' = [ctx EXCEPT ![c] = k]

\* Fault variant (for MappingExact): Begin does not wait on a busy entry
PinProcess_nobusy(c, k, eok, lok) ==
    \/ page_table[k.vpage] # NoEntry /\ PinHit(c, k)
    \/ page_table[k.vpage] = NoEntry /\ PinMiss(c, k, eok, lok)

\* process() of a Pin context from phase Begin
PinProcess(c, k, eok, lok) ==
    \/ /\ BusyWait(c, k)
       /\ UNCHANGED <<page_table, states, pinned_size, cur_id, recycle_pool,
                      replVars, held, written>>
    \/ /\ page_table[k.vpage] # NoEntry
       /\ ~page_table[k.vpage].busy
       /\ PinHit(c, k)
    \/ /\ page_table[k.vpage] = NoEntry
       /\ PinMiss(c, k, eok, lok)

\* Initing of an UnPin of a mapped page
UnpinMapped(c, k) ==
    LET e == page_table[k.vpage]
        e1 == [e EXCEPT !.dirty = e.dirty \/ k.is_write,
                        !.ref_count = IF e.ref_count > 0 THEN @ - 1 ELSE @]
    IN /\ IF e.ref_count = 1
            THEN /\ pinned_size' = pinned_size - 1
                 /\ ReplPush(e.ppage)
            ELSE UNCHANGED <<pinned_size, replVars>>
       /\ page_table' = [page_table EXCEPT ![k.vpage] = e1]
       /\ ctx' = [ctx EXCEPT ![c] = Idle]

\* process() of an UnPin context from phase Begin
UnpinProcess(c, k) ==
    /\ \/ /\ BusyWait(c, k)
          /\ UNCHANGED <<page_table, pinned_size, replVars>>
       \/ /\ page_table[k.vpage] # NoEntry
          /\ ~page_table[k.vpage].busy
          /\ UnpinMapped(c, k)
       \/ /\ page_table[k.vpage] = NoEntry   \* is_unpin = false
          /\ ctx' = [ctx EXCEPT ![c] = Idle]
          /\ UNCHANGED <<page_table, pinned_size, replVars>>
    /\ UNCHANGED <<states, cur_id, recycle_pool>>

(***************************************************************************)
(* The caller's calls and process() resuming a context                    *)
(***************************************************************************)

\* the cache thread is not spinning in Clock::pop
Running == ~repl_spinning

\* pins the caller holds, plus the Pin contexts it has in flight
Asked == MapThenSumSet(LAMBDA v : held[v], VPages)
         + Cardinality({c \in NotIdle : ctx[c].type = "Pin"})

\* pin(v): make a context and process it
StartPin(c, v, eok, lok) ==
    /\ Running /\ ~Flushing
    /\ ctx[c].phase = "End"
    /\ Asked < MaxHeld
    /\ PinProcess(c, NewContext("Pin", v, FALSE), eok, lok)
    /\ UNCHANGED flushing

\* unpin(v, is_write) of a page the caller holds, after w writes to it
StartUnpin(c, v, w) ==
    /\ Running /\ ~Flushing
    /\ ctx[c].phase = "End"
    /\ held[v] > 0
    /\ held' = [held EXCEPT ![v] = @ - 1]
    /\ written' = [written EXCEPT ![v] = @ \/ w]
    /\ UnpinProcess(c, NewContext("UnPin", v, w))
    /\ UNCHANGED flushing

\* process() of a context that returned in phase Begin
ResumeBegin(c, eok, lok) ==
    /\ Running
    /\ ctx[c].phase = "Begin"
    /\ IF ctx[c].type = "Pin"
         THEN PinProcess(c, ctx[c], eok, lok)
         ELSE UnpinProcess(c, ctx[c]) /\ UNCHANGED <<held, written>>
    /\ UNCHANGED flushing

\* process() of a context waiting for evict_func
ResumeEvicting(c, eok, lok) ==
    /\ Running
    /\ ctx[c].phase = "Evicting"
    /\ EvictCall(c, ctx[c], page_table, eok, lok)
    /\ UNCHANGED <<pinned_size, cur_id, recycle_pool, replVars, flushing>>

\* process() of a context waiting for load_func
ResumeLoading(c, lok) ==
    /\ Running
    /\ ctx[c].phase = "Loading"
    /\ LoadCall(c, ctx[c], page_table, lok)
    /\ UNCHANGED <<states, pinned_size, cur_id, recycle_pool, replVars, written, flushing>>

(***************************************************************************)
(* flush(): the first loop evicts every mapped frame (a pinned one as      *)
(* dirty, an unpinned one after a replacement.pop()); the do-while loop    *)
(* calls evict_func again on the contexts still processing, in passes      *)
(* from index start; the last loop unmaps the pages and frees the frames.  *)
(* Each evict_func call is one step (no other call of the cache runs       *)
(* meanwhile).  The caller flushes with no context in flight.  FlushAsync  *)
(* says whether flush's evict_func may return false.                       *)
(***************************************************************************)
NoFlush == [active |-> FALSE, stage |-> "scan", next |-> 0, min |-> NumFrames, ctxs |-> <<>>]

StartFlush ==
    /\ Running /\ ~Flushing
    /\ NotIdle = {}
    /\ FlushWhilePinned \/ \A v \in VPages : held[v] = 0
    /\ flushing' = [NoFlush EXCEPT !.active = TRUE]
    /\ UNCHANGED <<page_table, states, pinned_size, cur_id, recycle_pool, replVars,
                   ctx, held, written>>

\* one turn of the first loop of flush, on frame flushing.next; after the
\* last frame the do-while loop starts with start = min_processing = 0
FlushScan(eok) ==
    LET f == flushing.next
        v == states[f]
        nextf == IF f + 1 = NumFrames
                   THEN [flushing EXCEPT !.next = 0, !.stage = "wait"]
                   ELSE [flushing EXCEPT !.next = f + 1]
    IN /\ Running /\ Flushing
       /\ flushing.stage = "scan"
       /\ IF v = NoPage
            THEN /\ flushing' = nextf
                 /\ UNCHANGED <<replVars, written>>
            ELSE LET e == page_table[v]
                     dirty == e.ref_count > 0 \/ e.dirty
                 IN /\ IF e.ref_count > 0 THEN UNCHANGED replVars ELSE PopVictim
                    /\ IF repl_spinning'
                         THEN UNCHANGED <<flushing, written>>
                         ELSE /\ written' = IF eok /\ dirty THEN [written EXCEPT ![v] = FALSE]
                                                           ELSE written
                              /\ flushing' = [nextf EXCEPT !.ctxs = Append(@,
                                   [ppage |-> f, pre_vpage |-> v, dirty |-> dirty,
                                    processing |-> ~eok])]
       /\ UNCHANGED <<page_table, states, pinned_size, cur_id, recycle_pool, ctx, held>>

\* one turn of the for loop of a pass: context i is called again if it is
\* still processing, and min_processing becomes i
FlushPass(eok) ==
    LET i == flushing.next
        k == flushing.ctxs[i + 1]
    IN /\ Running /\ Flushing
       /\ flushing.stage = "wait"
       /\ i < Len(flushing.ctxs)
       /\ IF k.processing
            THEN /\ written' = IF eok /\ k.dirty THEN [written EXCEPT ![k.pre_vpage] = FALSE]
                                                ELSE written
                 /\ flushing' = [flushing EXCEPT !.ctxs[i + 1].processing = ~eok,
                                                 !.min = i, !.next = i + 1]
            ELSE /\ flushing' = [flushing EXCEPT !.next = i + 1]
                 /\ UNCHANGED written
       /\ UNCHANGED <<page_table, states, pinned_size, cur_id, recycle_pool, replVars, ctx, held>>

\* while (min_processing != max_ppage_id): the next pass starts at
\* min_processing, the last index that was still processing
FlushPassEnd ==
    /\ Running /\ Flushing
    /\ flushing.stage = "wait"
    /\ flushing.next = Len(flushing.ctxs)
    /\ flushing' = IF flushing.min = NumFrames
                     THEN [flushing EXCEPT !.stage = "free"]
                     ELSE [flushing EXCEPT !.next = flushing.min, !.min = NumFrames]
    /\ UNCHANGED <<page_table, states, pinned_size, cur_id, recycle_pool, replVars,
                   ctx, held, written>>

\* the last loop of flush: page_table.del, init_state and free
FlushFinish ==
    LET cs == flushing.ctxs
        gone == {cs[i].pre_vpage : i \in DOMAIN cs}
        freed == {cs[i].ppage : i \in DOMAIN cs}
    IN /\ Running /\ Flushing
       /\ flushing.stage = "free"
       /\ page_table' = [v \in VPages |-> IF v \in gone THEN NoEntry ELSE page_table[v]]
       /\ states' = [f \in Frames |-> IF f \in freed THEN NoPage ELSE states[f]]
       /\ recycle_pool' = recycle_pool \o [i \in DOMAIN cs |-> cs[i].ppage]
       /\ flushing' = NoFlush
       /\ UNCHANGED <<pinned_size, cur_id, replVars, ctx, held, written>>

Init ==
    /\ page_table = [v \in VPages |-> NoEntry]
    /\ states = [f \in Frames |-> NoPage]
    /\ pinned_size = 0
    /\ cur_id = 0
    /\ recycle_pool = <<>>
    /\ policy \in {"Clock", "LRU"}
    /\ Replacement!Init
    /\ Lru!Init
    /\ ctx = [c \in Ctxs |-> Idle]
    /\ flushing = NoFlush
    /\ held = [v \in VPages |-> 0]
    /\ written = [v \in VPages |-> FALSE]

Next ==
    \/ \E c \in Ctxs :
         \/ \E v \in VPages, eok, lok \in BOOLEAN : StartPin(c, v, eok, lok)
         \/ \E v \in VPages, w \in BOOLEAN : StartUnpin(c, v, w)
         \/ \E eok, lok \in BOOLEAN : ResumeBegin(c, eok, lok)
         \/ \E eok, lok \in BOOLEAN : ResumeEvicting(c, eok, lok)
         \/ \E lok \in BOOLEAN : ResumeLoading(c, lok)
    \/ StartFlush
    \/ \E eok \in FlushAnswers : FlushScan(eok) \/ FlushPass(eok)
    \/ FlushPassEnd
    \/ FlushFinish

\* The caller calls process() on a context until it ends (the loops of
\* bench_single_thread_cache), and evict_func and load_func finish their
\* I/O: so every resumption is fair.  A context in Begin can only go on
\* while its page is not busy, which comes and goes: strong fairness.
Fairness ==
    /\ \A c \in Ctxs :
         /\ SF_vars(\E eok, lok \in BOOLEAN : ResumeBegin(c, eok, lok))
         /\ WF_vars(ResumeEvicting(c, TRUE, TRUE))
         /\ WF_vars(ResumeLoading(c, TRUE))
    /\ WF_vars(\E eok \in FlushAnswers : FlushScan(eok))
    /\ WF_vars(FlushPass(TRUE))
    /\ WF_vars(FlushPassEnd)
    /\ WF_vars(FlushFinish)

Spec == Init /\ [][Next]_vars /\ Fairness

(***************************************************************************)
(* Properties                                                              *)
(***************************************************************************)
Contexts == [type : {"Pin", "UnPin"}, phase : {"Begin", "Evicting", "Loading", "End"},
             vpage : VPages \cup {NoPage}, pre_vpage : VPages \cup {NoPage},
             ppage : Frames \cup {NoFrame}, has_pre : BOOLEAN, dirty : BOOLEAN,
             is_write : BOOLEAN, processing : BOOLEAN]

TypeOK ==
    /\ page_table \in [VPages -> {NoEntry} \cup [ppage : Frames, busy : BOOLEAN,
                                                 dirty : BOOLEAN, ref_count : 0 .. MaxHeld]]
    /\ states \in [Frames -> VPages \cup {NoPage}]
    /\ pinned_size \in 0 .. NumFrames
    /\ cur_id \in 0 .. NumFrames
    /\ recycle_pool \in Seq(Frames)
    /\ ctx \in [Ctxs -> Contexts]
    /\ held \in [VPages -> 0 .. MaxHeld]
    /\ written \in [VPages -> BOOLEAN]
    /\ policy \in {"Clock", "LRU"}
    /\ Replacement!TypeOK
    /\ Lru!TypeOK

\* a page mapped and not being evicted or loaded
Resident(v) == page_table[v] # NoEntry /\ ~page_table[v].busy

\* The policy holds exactly the frames of the resident unpinned pages, and
\* pinned_size counts the pinned pages plus the frames that Pin contexts
\* are evicting or loading, so that whenever full() holds and full_pin()
\* does not the Clock has a victim and pop never spins (Initing of a Pin,
\* notify of unpin, and flush, which pops once per unpinned frame).
ReplacementExact ==
    /\ Running
    /\ ~Flushing =>
         /\ ReplMembers =
              {page_table[v].ppage : v \in {w \in VPages : Resident(w) /\ page_table[w].ref_count = 0}}
         /\ pinned_size = Cardinality({v \in VPages : Resident(v) /\ page_table[v].ref_count > 0})
                          + Cardinality({c \in Ctxs : ctx[c].phase \in {"Evicting", "Loading"}})

\* Every page the caller holds stays mapped, with a ref_count equal to the
\* caller's pins, in a frame whose state names it; and no two resident
\* pages share a frame (the asserts of Initing), across evictions that run
\* while other contexts wait on busy entries, frames recycled by flush, and
\* pins of pages whose eviction is still in flight.
MappingExact ==
    /\ \A v \in VPages :
         /\ held[v] > 0 => Resident(v)
         /\ Resident(v) => /\ page_table[v].ref_count = held[v]
                           /\ states[page_table[v].ppage] = v
    /\ \A v, w \in VPages :
         Resident(v) /\ Resident(w) /\ v # w => page_table[v].ppage # page_table[w].ppage

\* A write is never lost: a page written since it was last written back is
\* still mapped and dirty, so the evict_func call that evicts it (in
\* Initing of a Pin or in flush) is told to write it back.
NoLostWrite == \A v \in VPages : written[v] => page_table[v] # NoEntry /\ page_table[v].dirty

\* Every pop returns the victim its policy promises, under the calls this
\* cache makes (in Initing of a Pin and in flush): the Clock's pop the
\* second-chance victim and prefetch hint, and the LRU's pop the frame
\* whose page was unpinned (pushed) longest ago among those not pinned
\* since, as the order of push, of erase on a pin and of pop_back keep the
\* list in recency order.
PopMatchesReference == /\ Replacement!PopMatchesReference
                       /\ Lru!ImplementsRecencyOrder

\* Both policies refine the replacement set under the calls this cache makes.
ImplementsReplacementSet == /\ Replacement!ImplementsReplacementSet
                            /\ Lru!ImplementsReplacementSet

\* Every pin and unpin the caller starts ends, and every flush returns: a
\* context waiting on a busy entry is not starved by the busy bit of the
\* page coming back, and no two contexts wait on each other.
CallsReturn ==
    /\ \A c \in Ctxs : ctx[c].phase # "End" ~> ctx[c].phase = "End"
    /\ Flushing ~> ~Flushing

=============================================================================
