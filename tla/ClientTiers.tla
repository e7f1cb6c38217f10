---------------------------- MODULE ClientTiers ----------------------------
(***************************************************************************)
(* The two client tiers of one thread above the shared cache, in the      *)
(* default build (PURE_THREADING: one fiber per thread, so one direct      *)
(* cache per thread):                                                      *)
(*                                                                         *)
(*  - DirectCache (direct_cache.hpp): NumPinned slots, page v in slot      *)
(*    v & (NumPinned-1), each holding one pin on the private cache and a   *)
(*    dirty bit;                                                           *)
(*  - PrivateCache (private_cache.hpp): one SharedSingleThreadCache per    *)
(*    partition with NumLocal frames, whose evict callback unpins the page *)
(*    at the shared cache and whose load callback pins it there;           *)
(*  - IntegratedCache (integrated_cache.hpp): creates both lazily, routes  *)
(*    access to the direct tier, pin/unpin to the private tier,            *)
(*    shared_pin/shared_unpin to the shared tier, and flushes both.        *)
(*                                                                         *)
(* The thread is sequential and both callbacks of the private engine       *)
(* return true (they block), so every IntegratedCache call is one atomic   *)
(* step.  The shared tier is abstracted to what this thread holds there:   *)
(* its pins (shared_ref), the dirty bits its unpins set (shared_dirty),    *)
(* and whether it wrote the page's shared frame since the shared tier last *)
(* wrote it back (written).  The shared tier may write back and evict a    *)
(* page whenever this thread holds no pin on it (SharedEvict); its own     *)
(* protocol is modelled in SharedShard and Mailbox.                        *)
(***************************************************************************)
EXTENDS Naturals, FiniteSets, FiniteSetsExt

CONSTANTS
    VPages,           \* the global page ids the thread touches
    NumParts,         \* partitions (server threads) of the shared cache
    NumLocal,         \* num_local_ppages_per_partition: frames of a private sub-cache
    NoPage,           \* EMPTY slot of the direct cache
    MaxUserPins,      \* bound on pages the user holds pinned at once
    FlushWhilePinned  \* may the user call flush() while holding pins?

ASSUME VPages \subseteq Nat /\ NumParts \in Nat \ {0} /\ NumLocal \in Nat
ASSUME FlushWhilePinned \in BOOLEAN

MAX_FIBERS_PER_THREAD == 1
MAX_NUM_PINNED == 2^30

\* RoundRobinPartitioner: page v lives in partition v % NumParts.
Part(v) == v % NumParts
Parts == 0 .. NumParts - 1

\* nextPowerOf2 by its bit trick on 64-bit words: the least power of two
\* >= n, and 0 for n = 0 (n-1 wraps to all ones, n+1 wraps back to 0).
NextPowerOf2(n) == IF n = 0 THEN 0 ELSE Min({k \in {2^i : i \in 0 .. n} : k >= n})

\* DirectCache::num_pinned, from the private cache's actual_num_ppages_per_thread.
NumPinned ==
    Min({MAX_NUM_PINNED, Max({(NextPowerOf2(NumLocal * NumParts) \div 4) \div MAX_FIBERS_PER_THREAD, 1})})

Slots == 0 .. NumPinned - 1
SlotOf(v) == v % NumPinned        \* vpage_id & num_pinned_mask

VARIABLES
    direct_cache,  \* thread_direct_cache() # nullptr
    store,         \* store[s].first: the page in direct slot s, or NoPage
    dirty,         \* dirty[s]
    private_cache, \* internal_private_cache() # nullptr
    pte,           \* the private sub-caches' page tables, by page
    pinned_size,   \* pinned_size of the sub-cache of each partition
    replacement,   \* the frames (named by their page) in each sub-cache's Clock
    shared_ref,    \* pins this thread holds on each page at the shared tier
    shared_dirty,  \* the shared tier's dirty bit of each page
    written,       \* the thread wrote the page since the shared tier wrote it back
    user_pins,     \* pages the user holds through IntegratedCache::pin
    user_shared,   \* pages the user holds through IntegratedCache::shared_pin
    user_wrote,    \* the user wrote through the pointer of its pin
    oom            \* "none", or the call that threw "oom"

vars == <<direct_cache, store, dirty, private_cache, pte, pinned_size, replacement,
          shared_ref, shared_dirty, written, user_pins, user_shared, user_wrote, oom>>

EmptyPte == [exist |-> FALSE, dirty |-> FALSE, ref |-> 0]

(***************************************************************************)
(* The private engine and the shared-tier pins it holds, as one record, so *)
(* that a call made of several engine calls (an access that unpins one     *)
(* page and pins another) is the composition of their effects.             *)
(***************************************************************************)
engine == [pte |-> pte, pinned_size |-> pinned_size, replacement |-> replacement,
           shared_ref |-> shared_ref, shared_dirty |-> shared_dirty]

SetEngine(e) == /\ pte' = e.pte
                /\ pinned_size' = e.pinned_size
                /\ replacement' = e.replacement
                /\ shared_ref' = e.shared_ref
                /\ shared_dirty' = e.shared_dirty

\* SharedCache::pin and SharedCache::unpin(v, is_write), as seen by this thread.
SharedPin(e, v) == [e EXCEPT !.shared_ref[v] = @ + 1]
SharedUnpin(e, v, is_write) ==
    [e EXCEPT !.shared_ref[v] = @ - 1, !.shared_dirty[v] = @ \/ is_write]

Mapped(e, p) == {v \in VPages : Part(v) = p /\ e.pte[v].exist}
full(e, p) == Cardinality(Mapped(e, p)) >= NumLocal
full_pin(e, p) == e.pinned_size[p] >= NumLocal

\* Initing, UnPin: page_table.unpin; on the last pin the frame goes back
\* to the replacement.
PrivUnpin_anyref(e, v, is_write) ==
    IF ~e.pte[v].exist THEN e
    ELSE [e EXCEPT !.pte[v] = [@ EXCEPT !.ref = @ - 1, !.dirty = @ \/ is_write],
                   !.pinned_size[Part(v)] = @ - 1,
                   !.replacement[Part(v)] = @ \cup {v}]
PrivUnpin(e, v, is_write) ==
    IF ~e.pte[v].exist THEN e
    ELSE LET last == e.pte[v].ref = 1
         IN [e EXCEPT !.pte[v] = [@ EXCEPT !.ref = @ - 1, !.dirty = @ \/ is_write],
                      !.pinned_size[Part(v)] = IF last THEN @ - 1 ELSE @,
                      !.replacement[Part(v)] = IF last THEN @ \cup {v} ELSE @]

\* Initing, Pin, page resident: page_table.pin; the first pin takes the
\* frame out of the replacement.
PrivHit_noerase(e, v) ==
    LET first == e.pte[v].ref = 0
    IN [e EXCEPT !.pte[v].ref = @ + 1,
                 !.pinned_size[Part(v)] = IF first THEN @ + 1 ELSE @]
PrivHit(e, v) ==
    LET first == e.pte[v].ref = 0
    IN [e EXCEPT !.pte[v].ref = @ + 1,
                 !.pinned_size[Part(v)] = IF first THEN @ + 1 ELSE @,
                 !.replacement[Part(v)] = IF first THEN @ \ {v} ELSE @]

\* Victim w popped from the Clock, its mapping deleted, and evict_func:
\* SharedCache::unpin(w, dirty of w).
PrivEvict_clean(e, w) ==
    [SharedUnpin(e, w, FALSE) EXCEPT !.pte[w] = EmptyPte,
                                     !.replacement[Part(w)] = @ \ {w}]
PrivEvict(e, w) ==
    [SharedUnpin(e, w, e.pte[w].dirty) EXCEPT !.pte[w] = EmptyPte,
                                              !.replacement[Part(w)] = @ \ {w}]

\* create_mapping with ref 1 (pinned_size++ before), then load_func:
\* SharedCache::pin(v).
PrivLoad(e, v) ==
    [SharedPin(e, v) EXCEPT !.pte[v] = [exist |-> TRUE, dirty |-> FALSE, ref |-> 1],
                            !.pinned_size[Part(v)] = @ + 1]

\* A pin of the sub-cache returns EMPTY_PPAGE_ID: PrivateCache::pin retries
\* on an unchanged cache until it throws "oom".
PinFails(e, v) == ~e.pte[v].exist /\ full_pin(e, Part(v))

\* The engines a successful SharedSingleThreadCache::pin(v) may leave.
PinOutcomes(e, v) ==
    IF e.pte[v].exist THEN {PrivHit(e, v)}
    ELSE IF full_pin(e, Part(v)) THEN {}
    ELSE IF full(e, Part(v))
         THEN {PrivLoad(PrivEvict(e, w), v) :
                  w \in {u \in e.replacement[Part(v)] : e.pte[u].ref = 0}}
    ELSE {PrivLoad(e, v)}

(***************************************************************************)
(* Operations of IntegratedCache.  get_direct_cache / get_private_cache    *)
(* create the tiers on first use; an "oom" ends the thread.                *)
(***************************************************************************)
Running == oom = "none"
UserPinCount == Cardinality({v \in VPages : user_pins[v] = 1 \/ user_shared[v] = 1})

\* DirectCache::access, slot hit: OR in is_write.
AccessHit(v, is_write) ==
    /\ Running
    /\ store[SlotOf(v)] = v
    /\ dirty' = [dirty EXCEPT ![SlotOf(v)] = @ \/ is_write]
    /\ written' = [written EXCEPT ![v] = @ \/ is_write]
    /\ UNCHANGED <<direct_cache, store, private_cache, pte, pinned_size, replacement,
                   shared_ref, shared_dirty, user_pins, user_shared, user_wrote, oom>>

\* DirectCache::access, slot miss: unpin the slot's page at the private
\* cache with the slot's dirty bit, then pin v there; the slot is clean.
Released_keep(s) == engine
Released(s) ==
    IF store[s] # NoPage THEN PrivUnpin(engine, store[s], dirty[s]) ELSE engine

AccessMiss(v, is_write) ==
    /\ Running
    /\ store[SlotOf(v)] # v
    /\ \E e \in PinOutcomes(Released(SlotOf(v)), v) : SetEngine(e)
    /\ store' = [store EXCEPT ![SlotOf(v)] = v]
    /\ dirty' = [dirty EXCEPT ![SlotOf(v)] = is_write]
    /\ written' = [written EXCEPT ![v] = @ \/ is_write]
    /\ direct_cache' = TRUE
    /\ private_cache' = TRUE
    /\ UNCHANGED <<user_pins, user_shared, user_wrote, oom>>

\* Fault variant (for AccessOomOnlyWhenPinned): the private pin is tried
\* before the slot's old page is unpinned
AccessOom_pinfirst(v) ==
    /\ Running
    /\ store[SlotOf(v)] # v
    /\ PinFails(engine, v)
    /\ SetEngine(Released(SlotOf(v)))
    /\ store' = [store EXCEPT ![SlotOf(v)] = v]
    /\ oom' = "access"
    /\ direct_cache' = TRUE
    /\ private_cache' = TRUE
    /\ UNCHANGED <<dirty, written, user_pins, user_shared, user_wrote>>

\* The same miss when the private pin fails: the slot has already been
\* released and set to v (store[..].first = vpage_id precedes cache.pin).
AccessOom(v) ==
    /\ Running
    /\ store[SlotOf(v)] # v
    /\ PinFails(Released(SlotOf(v)), v)
    /\ SetEngine(Released(SlotOf(v)))
    /\ store' = [store EXCEPT ![SlotOf(v)] = v]
    /\ oom' = "access"
    /\ direct_cache' = TRUE
    /\ private_cache' = TRUE
    /\ UNCHANGED <<dirty, written, user_pins, user_shared, user_wrote>>

\* IntegratedCache::pin -> PrivateCache::pin.
Pin(v) ==
    /\ Running
    /\ user_pins[v] = 0 /\ user_shared[v] = 0 /\ UserPinCount < MaxUserPins
    /\ \E e \in PinOutcomes(engine, v) : SetEngine(e)
    /\ user_pins' = [user_pins EXCEPT ![v] = 1]
    /\ private_cache' = TRUE
    /\ UNCHANGED <<direct_cache, store, dirty, written, user_shared, user_wrote, oom>>

PinOom(v) ==
    /\ Running
    /\ user_pins[v] = 0 /\ user_shared[v] = 0 /\ UserPinCount < MaxUserPins
    /\ PinFails(engine, v)
    /\ oom' = "pin"
    /\ private_cache' = TRUE
    /\ UNCHANGED <<direct_cache, store, dirty, pte, pinned_size, replacement, shared_ref,
                   shared_dirty, written, user_pins, user_shared, user_wrote>>

\* The user writes through the pointer of one of its pins.
Write(v) ==
    /\ Running
    /\ user_pins[v] = 1 \/ user_shared[v] = 1
    /\ written' = [written EXCEPT ![v] = TRUE]
    /\ user_wrote' = [user_wrote EXCEPT ![v] = TRUE]
    /\ UNCHANGED <<direct_cache, store, dirty, private_cache, pte, pinned_size, replacement,
                   shared_ref, shared_dirty, user_pins, user_shared, oom>>

\* IntegratedCache::unpin(v, is_write) -> PrivateCache::unpin; the user
\* passes is_write exactly when it wrote.
Unpin(v) ==
    /\ Running
    /\ user_pins[v] = 1
    /\ SetEngine(PrivUnpin(engine, v, user_wrote[v]))
    /\ user_pins' = [user_pins EXCEPT ![v] = 0]
    /\ user_wrote' = [user_wrote EXCEPT ![v] = FALSE]
    /\ private_cache' = TRUE
    /\ UNCHANGED <<direct_cache, store, dirty, written, user_shared, oom>>

\* IntegratedCache::shared_pin / shared_unpin go straight to SharedCache.
SharedPinCall(v) ==
    /\ Running
    /\ user_pins[v] = 0 /\ user_shared[v] = 0 /\ UserPinCount < MaxUserPins
    /\ shared_ref' = [shared_ref EXCEPT ![v] = @ + 1]
    /\ user_shared' = [user_shared EXCEPT ![v] = 1]
    /\ UNCHANGED <<direct_cache, store, dirty, private_cache, pte, pinned_size, replacement,
                   shared_dirty, written, user_pins, user_wrote, oom>>

SharedUnpinCall(v) ==
    /\ Running
    /\ user_shared[v] = 1
    /\ SetEngine(SharedUnpin(engine, v, user_wrote[v]))
    /\ user_shared' = [user_shared EXCEPT ![v] = 0]
    /\ user_wrote' = [user_wrote EXCEPT ![v] = FALSE]
    /\ UNCHANGED <<direct_cache, store, dirty, private_cache, written, user_pins, oom>>

(***************************************************************************)
(* IntegratedCache::flush: DirectCache::flush unpins every slot at the     *)
(* private cache with its dirty bit and the direct cache is deleted; then  *)
(* PrivateCache::flush runs SharedSingleThreadCache::flush on every        *)
(* sub-cache, which evicts every frame (dirty when still pinned), waits    *)
(* for the client's messages and rebuilds the sub-caches, and the private  *)
(* cache is deleted (its destructor flushes the empty sub-caches again and *)
(* releases the client).                                                   *)
(***************************************************************************)
HeldByDirect(v) == store[SlotOf(v)] = v

\* The private page-table entry of v once DirectCache::flush has unpinned
\* v's slot with the slot's dirty bit.
AfterDirectFlush(v) ==
    [ref |-> pte[v].ref - (IF HeldByDirect(v) THEN 1 ELSE 0),
     dirty |-> pte[v].dirty \/ (HeldByDirect(v) /\ dirty[SlotOf(v)])]

\* SharedSingleThreadCache::flush evicts every resident frame, as dirty
\* when it is still pinned and with its own dirty bit otherwise.
FlushDirty(v) ==
    pte[v].exist /\ (AfterDirectFlush(v).ref > 0 \/ AfterDirectFlush(v).dirty)

Flush ==
    /\ Running
    /\ FlushWhilePinned \/ \A v \in VPages : user_pins[v] = 0
    /\ shared_ref' = [v \in VPages |-> IF pte[v].exist THEN shared_ref[v] - 1 ELSE shared_ref[v]]
    /\ shared_dirty' = [v \in VPages |-> shared_dirty[v] \/ FlushDirty(v)]
    /\ store' = [s \in Slots |-> NoPage]
    /\ dirty' = [s \in Slots |-> FALSE]
    /\ pte' = [v \in VPages |-> EmptyPte]
    /\ pinned_size' = [p \in Parts |-> 0]
    /\ replacement' = [p \in Parts |-> {}]
    /\ direct_cache' = FALSE
    /\ private_cache' = FALSE
    /\ UNCHANGED <<written, user_pins, user_shared, user_wrote, oom>>

\* Another thread's traffic makes the shared tier write page v back (if it
\* is dirty) and evict it; it can do so only while this thread holds no pin
\* on v.
SharedEvict(v) ==
    /\ shared_ref[v] = 0
    /\ written[v] \/ shared_dirty[v]
    /\ written' = [written EXCEPT ![v] = FALSE]
    /\ shared_dirty' = [shared_dirty EXCEPT ![v] = FALSE]
    /\ UNCHANGED <<direct_cache, store, dirty, private_cache, pte, pinned_size, replacement,
                   shared_ref, user_pins, user_shared, user_wrote, oom>>

Init ==
    /\ direct_cache = FALSE
    /\ store = [s \in Slots |-> NoPage]
    /\ dirty = [s \in Slots |-> FALSE]
    /\ private_cache = FALSE
    /\ pte = [v \in VPages |-> EmptyPte]
    /\ pinned_size = [p \in Parts |-> 0]
    /\ replacement = [p \in Parts |-> {}]
    /\ shared_ref = [v \in VPages |-> 0]
    /\ shared_dirty = [v \in VPages |-> FALSE]
    /\ written = [v \in VPages |-> FALSE]
    /\ user_pins = [v \in VPages |-> 0]
    /\ user_shared = [v \in VPages |-> 0]
    /\ user_wrote = [v \in VPages |-> FALSE]
    /\ oom = "none"

Next ==
    \/ Flush
    \/ \E v \in VPages :
         \/ \E w \in BOOLEAN : AccessHit(v, w) \/ AccessMiss(v, w)
         \/ AccessOom(v)
         \/ Pin(v) \/ PinOom(v) \/ Write(v) \/ Unpin(v)
         \/ SharedPinCall(v) \/ SharedUnpinCall(v)
         \/ SharedEvict(v)

Spec == Init /\ [][Next]_vars

-----------------------------------------------------------------------------
TypeOK ==
    /\ direct_cache \in BOOLEAN /\ private_cache \in BOOLEAN
    /\ store \in [Slots -> VPages \cup {NoPage}]
    /\ dirty \in [Slots -> BOOLEAN]
    /\ pte \in [VPages -> [exist : BOOLEAN, dirty : BOOLEAN, ref : Nat]]
    /\ pinned_size \in [Parts -> 0 .. NumLocal]
    /\ replacement \in [Parts -> SUBSET VPages]
    /\ shared_ref \in [VPages -> Nat]
    /\ shared_dirty \in [VPages -> BOOLEAN]
    /\ written \in [VPages -> BOOLEAN]
    /\ user_pins \in [VPages -> 0 .. 1] /\ user_shared \in [VPages -> 0 .. 1]
    /\ user_wrote \in [VPages -> BOOLEAN]
    /\ oom \in {"none", "access", "pin"}

(***************************************************************************)
(* Every holder of a page is backed by exactly one pin in the tier below:  *)
(* the private reference count of v is the number of direct slots and user *)
(* pins holding v, and this thread's shared pins on v are its private      *)
(* frame (load_func pins, evict_func and flush unpin) plus its own         *)
(* shared_pin calls.  A leaked or doubled pin anywhere in the              *)
(* access / pin / unpin / evict / flush paths breaks this.                 *)
(***************************************************************************)
TiersBalanced ==
    Running => \A v \in VPages :
        /\ pte[v].ref = (IF HeldByDirect(v) THEN 1 ELSE 0) + user_pins[v]
        /\ shared_ref[v] = (IF pte[v].exist THEN 1 ELSE 0) + user_shared[v]

(***************************************************************************)
(* The private sub-caches' bookkeeping (spec section 8, invariant 2, at    *)
(* the private tier): a frame is in a sub-cache's Clock exactly when its   *)
(* page is resident with no pins, and pinned_size counts the pinned        *)
(* frames.  A frame missing from the Clock is never evicted; a pinned one  *)
(* in it can be evicted under its holder.                                  *)
(***************************************************************************)
ReplacementExact ==
    \A p \in Parts :
        /\ replacement[p] = {v \in VPages : Part(v) = p /\ pte[v].exist /\ pte[v].ref = 0}
        /\ pinned_size[p] = Cardinality({v \in VPages : Part(v) = p /\ pte[v].ref > 0})

(***************************************************************************)
(* No write is lost between the tiers: if the thread wrote a page (through *)
(* a direct slot or a pinned pointer) and no longer holds it pinned at the *)
(* shared tier, the shared tier has been told the page is dirty, so it     *)
(* writes it back before evicting it.  The dirty bit travels direct slot   *)
(* -> private unpin -> private page table -> evict_func / flush -> shared  *)
(* unpin; dropping it anywhere loses the write.                            *)
(***************************************************************************)
DirtyReachesShared ==
    \A v \in VPages : written[v] /\ shared_ref[v] = 0 => shared_dirty[v]

\* the resident pages of partition p that the user or a direct slot pins
PinnedBy(p) == {u \in VPages : /\ Part(u) = p
                              /\ pte[u].exist
                              /\ \/ user_pins[u] = 1
                                 \/ \E s \in Slots : store[s] = u}

(***************************************************************************)
(* An access throws "oom" only when it must: every frame of the accessed   *)
(* page's partition is pinned, by the user or by another direct slot, so   *)
(* that the retries of PrivateCache::pin on a cache only this thread      *)
(* changes can never succeed.  The slot's old page is unpinned before the *)
(* pin (DirectCache::access), so a slot never blocks its own new page.     *)
(* The direct slots alone can fill a partition: NumPinned comes from the   *)
(* frames of all partitions, and one partition may own several slots.      *)
(***************************************************************************)
AccessOomOnlyWhenPinned ==
    oom = "access" =>
        \E s \in Slots : /\ store[s] # NoPage
                        /\ ~pte[store[s]].exist
                        /\ Cardinality(PinnedBy(Part(store[s]))) >= NumLocal

=============================================================================
