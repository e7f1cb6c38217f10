----------------------------- MODULE ChptBuckets -----------------------------
(***************************************************************************)
(* The bucket chains and the overflow pool of CompactHashPageTable         *)
(* (src/include/compact_hash_page_table.hpp) as one shard of the shared    *)
(* cache drives them.  A cache line of the table packs SlotsPerLine page   *)
(* table entries that share a tag (vpage_id / NUM_PACK_PAGES); the line of *)
(* tag t is looked up by walking the chain that starts at the primary      *)
(* line store[t % bucket_size], and overflow lines are taken from and      *)
(* returned to `pool`.                                                     *)
(*                                                                         *)
(* Two kinds of actor share the table.  The shard's server thread runs a   *)
(* Pin request (SharedSingleThreadCache::process, Begin to End) as one     *)
(* step: it is the only writer of tags, next pointers, num_using and the   *)
(* pool.  Client threads run the fast path of SharedCache::pin and unpin:  *)
(* the walk of CompactHashPageTable::pin without a hint, its CAS on the    *)
(* header and its re-check of the tag are separate steps, since nothing   *)
(* stops the server from unlinking, recycling and re-tagging a line in     *)
(* between.  The NotifyDirectPin/NotifyDirectUnpin a client sends is       *)
(* applied with the client's step (the mailbox that delays it is modelled  *)
(* in SharedShard).                                                        *)
(***************************************************************************)
EXTENDS Naturals, Integers, Sequences, FiniteSets, SequencesExt, Functions

CONSTANTS
    Clients,        \* client threads of the shard
    VPages,         \* block ids the clients pin (small naturals)
    NumFrames,      \* max_ppage_id of the shard
    SlotsPerLine,   \* packed_cache_line::NUM_PACK_PAGES
    MaxRetry,       \* retries of SharedCache::pin after EMPTY_POINTER before "oom"
    PinnedDrift,    \* how far pinned_size is followed outside 0 .. max_ppage_id
    NoLine,         \* nullptr
    EmptyTag,       \* EMPTY_TAG
    NoPage,         \* no page
    NoFrame         \* EMPTY_PPAGE_ID

ASSUME NumFrames \in Nat \ {0} /\ SlotsPerLine \in Nat \ {0} /\ MaxRetry \in Nat
ASSUME PinnedDrift \in Nat
ASSUME VPages \subseteq Nat

BucketSize == 2 * NumFrames                         \* bucket_size(max_ppage_id * 2)
Lines == 0 .. BucketSize + NumFrames - 1            \* store[]
OverflowLines == BucketSize .. BucketSize + NumFrames - 1
Offsets == 0 .. SlotsPerLine - 1
Frames == 0 .. NumFrames - 1

tag_of(v) == v \div SlotsPerLine
offset_of(v) == v % SlotsPerLine
get_bucket(t) == t % BucketSize
Tags == {tag_of(v) : v \in VPages}

EMPTY_HEADER == [exist |-> FALSE, busy |-> FALSE, ref |-> 0]

VARIABLES
    chpt,         \* the table: [tag, num_using, next, headers, ppage_ids, pool]
    owner,        \* states[p].internal.vpage_id
    cur_id,       \* frames handed out by alloc()
    pinned_size,  \* SharedSingleThreadCache::pinned_size (int64_t)
    repl,         \* frames held by the replacement (ReplacementSet)
    fault,        \* "none", or how the server thread stopped
    pc,           \* client program counter
    want,         \* page the client is pinning
    at,           \* line the client's walk stands on
    pre_ref,      \* ref count the client's CAS found
    held,         \* page the client holds pinned
    retry         \* retry_loops of SharedCache::pin

vars == <<chpt, owner, cur_id, pinned_size, repl, fault, pc, want, at, pre_ref, held, retry>>

(***************************************************************************)
(* Lookups.  A chain is the sequence of lines from a primary line along   *)
(* next; the fuel bounds a walk that would otherwise go round a cycle.     *)
(***************************************************************************)
RECURSIVE ChainFrom(_, _, _)
ChainFrom(T, l, fuel) ==
    IF l = NoLine \/ fuel = 0 THEN <<>>
    ELSE <<l>> \o ChainFrom(T, T.next[l], fuel - 1)

Chain(T, t) == ChainFrom(T, get_bucket(t), Cardinality(Lines) + 1)

\* find_cacheline(tag): the first line of the chain carrying the tag
find_cacheline(T, t) ==
    LET ch == Chain(T, t)
        i == SelectInSeq(ch, LAMBDA l : T.tag[l] = t)
    IN IF i = 0 THEN NoLine ELSE ch[i]

\* find_cacheline_hint(tag): the line of the tag, or the line to chain a new
\* one after (NoLine: create at the primary line, which is free)
find_cacheline_hint(T, t) ==
    LET l == find_cacheline(T, t) IN
    IF l # NoLine THEN [exist |-> TRUE, line |-> l]
    ELSE [exist |-> FALSE,
          line |-> IF T.tag[get_bucket(t)] = EmptyTag THEN NoLine
                   ELSE Last(Chain(T, t))]

\* find_pre_cacheline(tag, end): the line whose next is end
find_pre_cacheline(T, t, end) ==
    LET ch == Chain(T, t)
        i == SelectInSeq(ch, LAMBDA l : T.next[l] = end)
    IN IF i = 0 THEN NoLine ELSE ch[i]

(***************************************************************************)
(* Chain maintenance, done by the server thread only.                     *)
(***************************************************************************)
\* create_cacheline(tag, pre): the primary line, or pool.back() chained
\* after pre.  The caller has checked that the pool is not empty.
NewLine(T, t, pre) == IF pre = NoLine THEN get_bucket(t) ELSE Last(T.pool)

create_cacheline(T, t, pre) ==
    IF pre = NoLine THEN [T EXCEPT !.tag[get_bucket(t)] = t]
    ELSE LET l == Last(T.pool) IN
         [T EXCEPT !.tag[l] = t, !.next[pre] = l, !.pool = Front(T.pool)]

\* Fault variant (for TypeOK): a primary line is returned to the pool too
delete_cacheline_pool_primary(T, l) ==
    LET pre == find_pre_cacheline(T, T.tag[l], l)
        T1 == IF pre # NoLine
                THEN [T EXCEPT !.next[pre] = T.next[l], !.next[l] = NoLine,
                               !.pool = Append(T.pool, l)]
                ELSE [T EXCEPT !.pool = Append(T.pool, l)]
    IN [T1 EXCEPT !.tag[l] = EmptyTag]

\* Fault variant (for ChainsWellFormed): the line is pooled but left linked
delete_cacheline_nounlink(T, l) ==
    LET pre == find_pre_cacheline(T, T.tag[l], l)
        T1 == IF pre # NoLine THEN [T EXCEPT !.pool = Append(T.pool, l)] ELSE T
    IN [T1 EXCEPT !.tag[l] = EmptyTag]

\* Fault variant (for NoPoolUnderflow): the line is unlinked, never pooled
delete_cacheline_nopool(T, l) ==
    LET pre == find_pre_cacheline(T, T.tag[l], l)
        T1 == IF pre # NoLine
                THEN [T EXCEPT !.next[pre] = T.next[l], !.next[l] = NoLine]
                ELSE T
    IN [T1 EXCEPT !.tag[l] = EmptyTag]

\* delete_cacheline: an overflow line is unlinked and returned to the pool;
\* a primary line (no predecessor) only loses its tag and keeps its next
delete_cacheline(T, l) ==
    LET pre == find_pre_cacheline(T, T.tag[l], l)
        T1 == IF pre # NoLine
                THEN [T EXCEPT !.next[pre] = T.next[l], !.next[l] = NoLine,
                               !.pool = Append(T.pool, l)]
                ELSE T
    IN [T1 EXCEPT !.tag[l] = EmptyTag]

\* find_or_create_hint, in the Begin phase of every Pin
OverflowNeeded(T, v) ==
    LET h == find_cacheline_hint(T, tag_of(v)) IN ~h.exist /\ h.line # NoLine

PoolUnderflow(T, v) == OverflowNeeded(T, v) /\ T.pool = <<>>

find_or_create_hint(T, v) ==
    LET h == find_cacheline_hint(T, tag_of(v)) IN
    IF h.exist THEN [table |-> T, line |-> h.line]
    ELSE [table |-> create_cacheline(T, tag_of(v), h.line),
          line |-> NewLine(T, tag_of(v), h.line)]

(***************************************************************************)
(* Entries.  The header CASes of pte_header; the server holds busy while   *)
(* it maps or unmaps, so its steps see busy only through these calls.      *)
(***************************************************************************)
CanIncRef(h) == h.exist /\ ~h.busy          \* inc_ref_count
CanLock(h) == h.ref = 0 /\ ~h.busy           \* lock

\* create_mapping(vpage_id, ppage_id, 1, hint)
create_mapping(T, l, o, p) ==
    IF ~CanLock(T.headers[l][o]) THEN T
    ELSE [T EXCEPT !.headers[l][o] = [exist |-> TRUE, busy |-> TRUE, ref |-> 1],
                   !.ppage_ids[l][o] = p,
                   !.num_using[l] = @ + 1]

\* delete_mapping(vpage_id, hint)
delete_mapping(T, l, o) ==
    IF ~CanLock(T.headers[l][o]) THEN T
    ELSE [T EXCEPT !.headers[l][o] = [exist |-> FALSE, busy |-> TRUE, ref |-> 0],
                   !.ppage_ids[l][o] = NoFrame]

\* Fault variant (for NumUsingExact): num_using-- whether or not the entry exists
release_mapping_lock_alwaysdec(T, l, o) ==
    IF ~T.headers[l][o].busy THEN T
    ELSE LET T1 == [T EXCEPT !.headers[l][o].busy = FALSE, !.num_using[l] = @ - 1]
         IN IF T1.num_using[l] = 0 THEN delete_cacheline(T1, l) ELSE T1

\* release_mapping_lock(vpage_id, hint): an entry left empty is uncounted,
\* and a line left with no entry is deleted
release_mapping_lock(T, l, o) ==
    IF ~T.headers[l][o].busy THEN T
    ELSE LET T1 == [T EXCEPT !.headers[l][o].busy = FALSE,
                             !.num_using[l] = IF T.headers[l][o].exist THEN @ ELSE @ - 1]
         IN IF T1.num_using[l] = 0 THEN delete_cacheline(T1, l) ELSE T1

\* get_pte(vpage_id)
get_pte(T, v) ==
    LET l == find_cacheline(T, tag_of(v)) IN
    IF l = NoLine THEN EMPTY_HEADER @@ [ppage_id |-> NoFrame]
    ELSE T.headers[l][offset_of(v)] @@ [ppage_id |-> T.ppage_ids[l][offset_of(v)]]

(***************************************************************************)
(* The server's Pin, Begin to End.                                        *)
(***************************************************************************)
full_pin == pinned_size >= NumFrames
full == cur_id >= NumFrames

\* the victim loop keeps a popped frame only if its entry can be locked
Evictable(T, p) == LET e == get_pte(T, owner[p]) IN e.ref = 0 /\ ~e.busy

\* Initing with a victim, then Evicting and Loading: the victim's entry is
\* deleted, the new one created in its frame, then the victim's lock and
\* the new entry's lock are released, in this order
evict_into(T, l, o, w) ==
    LET pv == owner[w]
        pl == find_cacheline(T, tag_of(pv))
        po == offset_of(pv)
    IN release_mapping_lock(
         release_mapping_lock(create_mapping(delete_mapping(T, pl, po), l, o, w), pl, po),
         l, o)

\* Initing with a fresh frame from alloc(), then Loading
load_into(T, l, o, p) == release_mapping_lock(create_mapping(T, l, o, p), l, o)

Hint(c) == find_or_create_hint(chpt, want[c])
Entry(c) == Hint(c).table.headers[Hint(c).line][offset_of(want[c])]

Granted(c) ==
    /\ held' = [held EXCEPT ![c] = want[c]]
    /\ pc' = [pc EXCEPT ![c] = "idle"]
    /\ retry' = [retry EXCEPT ![c] = 0]
    /\ want' = [want EXCEPT ![c] = NoPage]
    /\ UNCHANGED <<at, pre_ref>>

ServerUp(c) == pc[c] = "slow" /\ fault = "none"

\* Begin: find_or_create_hint would take pool.back() of an empty pool
ServerPinUnderflow(c) ==
    /\ ServerUp(c)
    /\ PoolUnderflow(chpt, want[c])
    /\ fault' = "pool_underflow"
    /\ UNCHANGED <<chpt, owner, cur_id, pinned_size, repl, pc, want, at, pre_ref, held, retry>>

\* Initing, entry exists: page_table.pin with the hint
ServerPinHit(c) ==
    /\ ServerUp(c)
    /\ ~PoolUnderflow(chpt, want[c])
    /\ Entry(c).exist
    /\ LET H == Hint(c) IN
         chpt' = [H.table EXCEPT !.headers[H.line][offset_of(want[c])].ref = @ + 1]
    /\ IF Entry(c).ref = 0
         THEN /\ repl' = repl \ {Hint(c).table.ppage_ids[Hint(c).line][offset_of(want[c])]}
              /\ pinned_size' = pinned_size + 1
         ELSE UNCHANGED <<repl, pinned_size>>
    /\ Granted(c)
    /\ UNCHANGED <<owner, cur_id, fault>>

\* Initing, entry missing and every frame pinned: EMPTY_PPAGE_ID; the line
\* find_or_create_hint created stays.  The client retries, then throws "oom".
ServerPinEmpty(c) ==
    /\ ServerUp(c)
    /\ ~PoolUnderflow(chpt, want[c])
    /\ ~Entry(c).exist
    /\ full_pin
    /\ chpt' = Hint(c).table
    /\ IF retry[c] + 1 > MaxRetry
         THEN /\ pc' = [pc EXCEPT ![c] = "idle"]
              /\ retry' = [retry EXCEPT ![c] = 0]
              /\ want' = [want EXCEPT ![c] = NoPage]
         ELSE /\ retry' = [retry EXCEPT ![c] = @ + 1]
              /\ UNCHANGED <<pc, want>>
    /\ UNCHANGED <<owner, cur_id, pinned_size, repl, fault, at, pre_ref, held>>

\* Initing, entry missing, a frame never used yet: alloc()
ServerPinAlloc(c) ==
    /\ ServerUp(c)
    /\ ~PoolUnderflow(chpt, want[c])
    /\ ~Entry(c).exist
    /\ ~full_pin
    /\ ~full
    /\ chpt' = load_into(Hint(c).table, Hint(c).line, offset_of(want[c]), cur_id)
    /\ owner' = [owner EXCEPT ![cur_id] = want[c]]
    /\ cur_id' = cur_id + 1
    /\ pinned_size' = pinned_size + 1
    /\ Granted(c)
    /\ UNCHANGED <<repl, fault>>

\* Initing, entry missing, all frames used: replacement.pop() until a frame
\* whose entry can be locked; the frames popped before it (dropped) are
\* those whose entry is referenced, in whatever order the clock gives
ServerPinEvict(c) ==
    /\ ServerUp(c)
    /\ ~PoolUnderflow(chpt, want[c])
    /\ ~Entry(c).exist
    /\ ~full_pin
    /\ full
    /\ LET T == Hint(c).table IN
       \E w \in repl :
       \E dropped \in SUBSET {p \in repl : ~Evictable(T, p)} :
         /\ Evictable(T, w)
         /\ chpt' = evict_into(T, Hint(c).line, offset_of(want[c]), w)
         /\ repl' = repl \ (dropped \cup {w})
         /\ owner' = [owner EXCEPT ![w] = want[c]]
    /\ pinned_size' = pinned_size + 1
    /\ Granted(c)
    /\ UNCHANGED <<cur_id, fault>>

\* the same, when no frame the clock holds can be locked: every frame is
\* popped and dropped, and pop() then spins on an empty clock
ServerPinSpin(c) ==
    /\ ServerUp(c)
    /\ ~PoolUnderflow(chpt, want[c])
    /\ ~Entry(c).exist
    /\ ~full_pin
    /\ full
    /\ \A w \in repl : ~Evictable(Hint(c).table, w)
    /\ chpt' = Hint(c).table
    /\ repl' = {}
    /\ pinned_size' = pinned_size + 1
    /\ fault' = "spin"
    /\ UNCHANGED <<owner, cur_id, pc, want, at, pre_ref, held, retry>>

(***************************************************************************)
(* notify_pin / notify_unpin, run for the NotifyDirectPin and              *)
(* NotifyDirectUnpin a client posts after a 0 -> 1 or 1 -> 0 transition    *)
(***************************************************************************)
notify_pin(T, v) ==
    LET e == get_pte(T, v) IN
    /\ pinned_size' = pinned_size + 1
    /\ repl' = IF e.ref > 0 THEN repl \ {e.ppage_id} ELSE repl

notify_unpin(T, v) ==
    LET e == get_pte(T, v) IN
    /\ pinned_size' = pinned_size - 1
    /\ repl' = IF e.exist /\ e.ref = 0 THEN repl \cup {e.ppage_id} ELSE repl

(***************************************************************************)
(* Client fast path: SharedCache::pin -> CompactHashPageTable::pin(block)  *)
(***************************************************************************)
pin_start(c, v) ==
    /\ pc[c] = "idle"
    /\ held[c] = NoPage
    /\ pc' = [pc EXCEPT ![c] = "walk"]
    /\ want' = [want EXCEPT ![c] = v]
    /\ at' = [at EXCEPT ![c] = get_bucket(tag_of(v))]
    /\ UNCHANGED <<chpt, owner, cur_id, pinned_size, repl, fault, pre_ref, held, retry>>

\* one line of find_cacheline(tag): compare its tag, else follow next;
\* the end of the chain sends the client to the server
pin_walk(c) ==
    /\ pc[c] = "walk"
    /\ \/ /\ at[c] = NoLine
          /\ pc' = [pc EXCEPT ![c] = "slow"]
          /\ UNCHANGED at
       \/ /\ at[c] # NoLine
          /\ chpt.tag[at[c]] = tag_of(want[c])
          /\ pc' = [pc EXCEPT ![c] = "cas"]
          /\ UNCHANGED at
       \/ /\ at[c] # NoLine
          /\ chpt.tag[at[c]] # tag_of(want[c])
          /\ at' = [at EXCEPT ![c] = chpt.next[at[c]]]
          /\ UNCHANGED pc
    /\ UNCHANGED <<chpt, owner, cur_id, pinned_size, repl, fault, want, pre_ref, held, retry>>

\* inc_ref_count on headers[offset] of the line found
pin_cas(c) ==
    /\ pc[c] = "cas"
    /\ LET h == chpt.headers[at[c]][offset_of(want[c])] IN
         \/ /\ CanIncRef(h)
            /\ chpt' = [chpt EXCEPT !.headers[at[c]][offset_of(want[c])].ref = @ + 1]
            /\ pre_ref' = [pre_ref EXCEPT ![c] = h.ref]
            /\ pc' = [pc EXCEPT ![c] = "recheck"]
            /\ UNCHANGED at
         \/ /\ ~CanIncRef(h)
            /\ pc' = [pc EXCEPT ![c] = "slow"]
            /\ at' = [at EXCEPT ![c] = NoLine]
            /\ UNCHANGED <<chpt, pre_ref>>
    /\ UNCHANGED <<owner, cur_id, pinned_size, repl, fault, want, held, retry>>

\* Fault variant (for PinsAccounted): the tag is not checked again after the CAS
pin_recheck_notag(c) ==
    /\ pc[c] = "recheck"
    /\ held' = [held EXCEPT ![c] = want[c]]
    /\ pc' = [pc EXCEPT ![c] = "idle"]
    /\ IF pre_ref[c] = 0 THEN notify_pin(chpt, want[c])
                         ELSE UNCHANGED <<pinned_size, repl>>
    /\ UNCHANGED <<chpt, owner, cur_id, fault, want, at, pre_ref, retry>>

\* if (cacheline->tag != tag): "Check Tag Error", dec_ref_count and miss;
\* else the pin succeeds, with a NotifyDirectPin when pre_ref_count == 0
pin_recheck(c) ==
    /\ pc[c] = "recheck"
    /\ LET l == at[c]
           o == offset_of(want[c])
       IN \/ /\ chpt.tag[l] # tag_of(want[c])
             /\ chpt' = [chpt EXCEPT !.headers[l][o].ref = @ - 1]
             /\ pc' = [pc EXCEPT ![c] = "slow"]
             /\ UNCHANGED <<pinned_size, repl, held>>
          \/ /\ chpt.tag[l] = tag_of(want[c])
             /\ held' = [held EXCEPT ![c] = want[c]]
             /\ pc' = [pc EXCEPT ![c] = "idle"]
             /\ IF pre_ref[c] = 0 THEN notify_pin(chpt, want[c])
                                  ELSE UNCHANGED <<pinned_size, repl>>
             /\ UNCHANGED chpt
    /\ at' = [at EXCEPT ![c] = NoLine]
    /\ pre_ref' = [pre_ref EXCEPT ![c] = 0]
    /\ UNCHANGED <<owner, cur_id, fault, want, retry>>

\* SharedCache::unpin with ENABLE_DIRECT_UNPIN: find_cacheline(tag, true),
\* dec_ref_count, and a NotifyDirectUnpin when pre_ref_count == 1
unpin(c) ==
    /\ pc[c] = "idle"
    /\ held[c] # NoPage
    /\ LET v == held[c]
           l == find_cacheline(chpt, tag_of(v))
           pre == chpt.headers[l][offset_of(v)].ref
           T1 == [chpt EXCEPT !.headers[l][offset_of(v)].ref = @ - 1]
       IN /\ chpt' = T1
          /\ IF pre = 1 THEN notify_unpin(T1, v) ELSE UNCHANGED <<pinned_size, repl>>
    /\ held' = [held EXCEPT ![c] = NoPage]
    /\ UNCHANGED <<owner, cur_id, fault, pc, want, at, pre_ref, retry>>

Init ==
    /\ chpt = [tag |-> [l \in Lines |-> EmptyTag],
               num_using |-> [l \in Lines |-> 0],
               next |-> [l \in Lines |-> NoLine],
               headers |-> [l \in Lines |-> [o \in Offsets |-> EMPTY_HEADER]],
               ppage_ids |-> [l \in Lines |-> [o \in Offsets |-> NoFrame]],
               pool |-> [i \in 1 .. NumFrames |-> BucketSize + i - 1]]
    /\ owner = [p \in Frames |-> NoPage]
    /\ cur_id = 0
    /\ pinned_size = 0
    /\ repl = {}
    /\ fault = "none"
    /\ pc = [c \in Clients |-> "idle"]
    /\ want = [c \in Clients |-> NoPage]
    /\ at = [c \in Clients |-> NoLine]
    /\ pre_ref = [c \in Clients |-> 0]
    /\ held = [c \in Clients |-> NoPage]
    /\ retry = [c \in Clients |-> 0]

\* pinned_size counts 0 -> 1 and 1 -> 0 transitions the server hears of; a
\* transition nobody reports makes it drift without bound, so steps that
\* would take it more than PinnedDrift outside its range are not followed
PinnedRange == -PinnedDrift .. NumFrames + PinnedDrift

Next ==
    /\ \E c \in Clients :
           \/ \E v \in VPages : pin_start(c, v)
           \/ pin_walk(c) \/ pin_cas(c) \/ pin_recheck(c) \/ unpin(c)
           \/ ServerPinUnderflow(c) \/ ServerPinHit(c) \/ ServerPinEmpty(c)
           \/ ServerPinAlloc(c) \/ ServerPinEvict(c) \/ ServerPinSpin(c)
    /\ pinned_size' \in PinnedRange

Spec == Init /\ [][Next]_vars

(***************************************************************************)
(* Properties                                                              *)
(***************************************************************************)
Header == [exist : BOOLEAN, busy : BOOLEAN, ref : 0 .. Cardinality(Clients) + 1]

TypeOK ==
    /\ chpt.tag \in [Lines -> Tags \cup {EmptyTag}]
    /\ chpt.num_using \in [Lines -> 0 .. SlotsPerLine]
    /\ chpt.next \in [Lines -> OverflowLines \cup {NoLine}]
    /\ chpt.headers \in [Lines -> [Offsets -> Header]]
    /\ chpt.ppage_ids \in [Lines -> [Offsets -> Frames \cup {NoFrame}]]
    /\ chpt.pool \in Seq(OverflowLines) /\ Len(chpt.pool) <= NumFrames
    /\ owner \in [Frames -> VPages \cup {NoPage}]
    /\ cur_id \in 0 .. NumFrames
    /\ pinned_size \in PinnedRange
    /\ repl \subseteq Frames
    /\ fault \in {"none", "pool_underflow", "spin"}
    /\ pc \in [Clients -> {"idle", "walk", "cas", "recheck", "slow"}]
    /\ held \in [Clients -> VPages \cup {NoPage}]

Primaries == 0 .. BucketSize - 1

\* The chains stay a hash table with overflow lines from the pool: every
\* chain ends, no line sits on two chains, every tagged line is on the
\* chain of its own bucket and no tag is on two lines (so find_cacheline
\* finds every entry), an untagged line holds no entry (the empty_cacheline
\* asserts of create_cacheline and delete_cacheline), and every overflow
\* line is either chained or in the pool, once.  It is about the order of
\* release_mapping_lock, delete_cacheline and create_cacheline inside a Pin.
ChainsWellFormed ==
    LET chain == [b \in Primaries |-> ChainFrom(chpt, b, Cardinality(Lines) + 1)]
        onChain == [b \in Primaries |-> ToSet(chain[b])]
        chained == UNION {onChain[b] : b \in Primaries}
        pooled == ToSet(chpt.pool)
    IN
    /\ \A b \in Primaries : Len(chain[b]) <= Cardinality(Lines)
    /\ \A b1, b2 \in Primaries : b1 # b2 => onChain[b1] \cap onChain[b2] = {}
    /\ \A l \in Lines : chpt.tag[l] # EmptyTag => l \in onChain[get_bucket(chpt.tag[l])]
    /\ \A l1, l2 \in Lines : l1 # l2 /\ chpt.tag[l1] = chpt.tag[l2] => chpt.tag[l1] = EmptyTag
    /\ \A l \in Lines : chpt.tag[l] = EmptyTag =>
           \A o \in Offsets : chpt.headers[l][o] = EMPTY_HEADER /\ chpt.ppage_ids[l][o] = NoFrame
    /\ IsInjective(chpt.pool)
    /\ pooled \cap chained = {}
    /\ pooled \cup (chained \cap OverflowLines) = OverflowLines

\* num_using of every line counts the entries that exist or are locked by
\* the server, so release_mapping_lock deletes a line exactly when its last
\* entry goes.
NumUsingExact ==
    \A l \in Lines :
        chpt.num_using[l] = Cardinality({o \in Offsets : chpt.headers[l][o].exist
                                                         \/ chpt.headers[l][o].busy})

\* Every reference count is the number of clients holding the page plus the
\* clients between the CAS of CompactHashPageTable::pin and its tag check on
\* that entry, and a page a client holds stays mapped to a frame that backs
\* it, whether the pin took the fast path or the server's Pin.
PinsAccounted ==
    LET lineOf == [c \in Clients |-> IF held[c] = NoPage THEN NoLine
                                     ELSE find_cacheline(chpt, tag_of(held[c]))]
    IN
    /\ \A l \in Lines, o \in Offsets :
         chpt.headers[l][o].ref =
             Cardinality({c \in Clients : held[c] # NoPage /\ lineOf[c] = l /\ offset_of(held[c]) = o})
           + Cardinality({c \in Clients : pc[c] = "recheck" /\ at[c] = l /\ offset_of(want[c]) = o})
    /\ \A c \in Clients : held[c] # NoPage =>
         /\ lineOf[c] # NoLine
         /\ chpt.headers[lineOf[c]][offset_of(held[c])].exist
         /\ owner[chpt.ppage_ids[lineOf[c]][offset_of(held[c])]] = held[c]

\* find_or_create_hint never takes pool.back() of an empty pool (the
\* assert(pool.size() > 0) of create_cacheline, compiled out).
NoPoolUnderflow == fault # "pool_underflow"

\* Spec 4.1: a frame is in the replacement structure iff its entry exists
\* with ref_count == 0, whenever no client is inside
\* CompactHashPageTable::pin and the server is running.
Settled == fault = "none" /\ \A c \in Clients : pc[c] \notin {"cas", "recheck"}

ReplacementExact ==
    Settled =>
        \A p \in Frames : owner[p] # NoPage =>
            (p \in repl <=> get_pte(chpt, owner[p]).ref = 0)

====
