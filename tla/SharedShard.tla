---------------------------- MODULE SharedShard ----------------------------
(***************************************************************************)
(* One shard of the shared cache (src/include/shared_cache.hpp) in the     *)
(* default build: ENABLE_DIRECT_PIN and ENABLE_DIRECT_UNPIN are on and the *)
(* shard runs SharedSingleThreadCache<Clock,...>                           *)
(* (src/include/shared_single_thread_cache.hpp) over a CompactHashPageTable*)
(* (src/include/compact_hash_page_table.hpp).                              *)
(*                                                                         *)
(* Actors:                                                                 *)
(*  - the server thread of the shard, which pops requests from the client  *)
(*    mailboxes and runs the pin state machine Begin -> Initing ->         *)
(*    Evicting -> Loading -> End; a context that waits on I/O or on a busy *)
(*    slot is parked and resumed later by the async fiber;                 *)
(*  - client threads, which pin and unpin pages with the lock-free 16-bit  *)
(*    header CAS of the CHPT (fast path) and only post a message to the    *)
(*    server on a miss (Pin) or on a 0<->1 reference transition            *)
(*    (NotifyDirectPin / NotifyDirectUnpin).                               *)
(*                                                                         *)
(* The CHPT is modelled at slot granularity (one header per page); the     *)
(* bucket chains are the subject of module ChptBuckets.  The Clock is      *)
(* modelled by the set of frames it holds (module ClockReplacement refines *)
(* that set); its pop on an empty clock spins forever, which is the action *)
(* SpinEmptyClock.  A mailbox is a FIFO per client: the batching and       *)
(* toggle protocol that implements it is module Mailbox.                   *)
(*                                                                         *)
(* Page contents are version numbers: latest[v] is the last version a      *)
(* client wrote to page v, mem[p] the content of frame p, disk[v] the      *)
(* content of block v on the device.                                       *)
(***************************************************************************)
EXTENDS Naturals, Sequences, FiniteSets, FiniteSetsExt

CONSTANTS
    Clients,     \* client threads (PartitionClient) talking to this shard
    VPages,      \* block ids of this shard that the clients touch
    NumFrames,   \* num_ppages_per_partition (max_ppage_id of the shard)
    MaxHeld,     \* pins a client holds at once (its private cache's frames)
    MailboxCap,  \* requests a client can have queued before request() blocks
    MaxVersion,  \* bound on the versions written to one page
    MaxRetry,    \* bound standing for the 1 << 20 retries before "oom"
    NoPage,      \* EMPTY_VPAGE_ID
    NoFrame,     \* EMPTY_PPAGE_ID
    EmptyPointer,\* EMPTY_POINTER: the "no frame" answer to a Pin
    NoResp       \* resp().pointer == nullptr: no answer yet

ASSUME NumFrames \in Nat \ {0}
ASSUME MaxHeld \in Nat \ {0} /\ MailboxCap \in Nat \ {0}
ASSUME MaxVersion \in Nat /\ MaxRetry \in Nat

Frames == 0 .. NumFrames - 1
Versions == 0 .. MaxVersion

VARIABLES
    hdr,         \* pte_header of each CHPT slot: exist, busy, dirty, ref_count
    ppage_ids,   \* ppage_ids[] of each CHPT slot
    owner,       \* states[p].internal.vpage_id
    repl,        \* the frames held by the Clock
    pinned_size, \* SharedSingleThreadCache::pinned_size (int64_t)
    cur_id,      \* SharedSingleThreadCache::cur_id
    loaded,      \* MemoryPool::first_loaded
    ctx,         \* the Pin context of each client's request at the server
    mem, disk, latest,
    pc,          \* client program counter
    target,      \* the page the client is pinning or notifying about
    ptr,         \* ptr[c][v]: frame whose pointer client c holds pinned, or NoFrame
    retry,       \* retry_loops of SharedCache::pin
    mbox,        \* the requests of each client not yet taken by the server
    resp         \* resp() of each client's pending Pin

vars == <<hdr, ppage_ids, owner, repl, pinned_size, cur_id, loaded, ctx,
          mem, disk, latest, pc, target, ptr, retry, mbox, resp>>
serverVars == <<hdr, ppage_ids, owner, repl, pinned_size, cur_id, loaded, ctx>>
dataVars == <<mem, disk, latest>>
clientVars == <<pc, target, ptr, retry>>

EMPTY_HEADER == [exist |-> FALSE, busy |-> FALSE, dirty |-> FALSE, ref |-> 0]
Header == [exist : BOOLEAN, busy : BOOLEAN, dirty : BOOLEAN, ref : Nat]
Phases == {"None", "Begin", "Victim", "Delete", "EvictIO", "LoadIO"}
NoCtx == [phase |-> "None", v |-> NoPage, p |-> NoFrame, pre |-> NoPage,
          pte |-> EMPTY_HEADER, dirty |-> FALSE]
ReqTypes == {"Pin", "NotifyDirectPin", "NotifyDirectUnpin"}

(***************************************************************************)
(* The 16-bit header CAS loops of pte_header.                              *)
(***************************************************************************)
\* inc_ref_count succeeds only on an existing slot that is not busy
CanIncRef(h) == h.exist /\ ~h.busy
IncRef(h) == [h EXCEPT !.ref = @ + 1]
\* Fault variant (for DataCoherent): the write flag is not ORed into the header
DecRef_nodirty(h, is_write) == [h EXCEPT !.ref = @ - 1]
\* dec_ref_count ORs the dirty bit in when the unpin follows a write
DecRef(h, is_write) == [h EXCEPT !.ref = @ - 1, !.dirty = @ \/ is_write]
\* Fault variant (for PinnedFrameStable): lock() ignores the reference count
CanLock_noref(h) == ~h.busy
\* lock(): sets busy only when ref_count == 0 and the slot is not busy
CanLock(h) == h.ref = 0 /\ ~h.busy

\* full(): every frame has been handed out once and none was freed
Full == cur_id >= NumFrames
\* Fault variant (for EmptyClockOnlyFromLag): full_pin() compares with >
FullPin_late == pinned_size > NumFrames
\* full_pin()
FullPin == pinned_size >= NumFrames

(***************************************************************************)
(* Client side (SharedCache::pin / SharedCache::unpin).                    *)
(***************************************************************************)
Held(c) == {v \in VPages : ptr[c][v] # NoFrame}

\* SharedCache::pin: the fast path CHPT pin; on success with a previous
\* reference count of 0 a NotifyDirectPin must be posted, on failure a Pin.
pin(c, v) ==
    /\ pc[c] = "idle"
    /\ v \notin Held(c)
    /\ Cardinality(Held(c)) < MaxHeld
    /\ target' = [target EXCEPT ![c] = v]
    /\ IF CanIncRef(hdr[v])
         THEN /\ hdr' = [hdr EXCEPT ![v] = IncRef(@)]
              /\ ptr' = [ptr EXCEPT ![c][v] = ppage_ids[v]]
              /\ pc' = [pc EXCEPT ![c] = IF hdr[v].ref = 0
                                          THEN "notifyPin" ELSE "idle"]
         ELSE /\ pc' = [pc EXCEPT ![c] = "sendPin"]
              /\ UNCHANGED <<hdr, ptr>>
    /\ UNCHANGED <<ppage_ids, owner, repl, pinned_size, cur_id, loaded, ctx,
                   dataVars, retry, mbox, resp>>

\* Fault variant (for TypeOK): request() appends without waiting for a free slot
Request_unbounded(c, type) ==
    mbox' = [mbox EXCEPT ![c] = Append(@, [type |-> type, v |-> target[c]])]
\* PartitionClient::request: append the message; blocks while the mailbox is full
Request(c, type) ==
    /\ Len(mbox[c]) < MailboxCap
    /\ mbox' = [mbox EXCEPT ![c] = Append(@, [type |-> type, v |-> target[c]])]

SendNotifyPin(c) ==
    /\ pc[c] = "notifyPin"
    /\ Request(c, "NotifyDirectPin")
    /\ pc' = [pc EXCEPT ![c] = "idle"]
    /\ UNCHANGED <<serverVars, dataVars, target, ptr, retry, resp>>

SendPin(c) ==
    /\ pc[c] = "sendPin"
    /\ Request(c, "Pin")
    /\ pc' = [pc EXCEPT ![c] = "waitPin"]
    /\ resp' = [resp EXCEPT ![c] = NoResp]
    /\ UNCHANGED <<serverVars, dataVars, target, ptr, retry>>

\* Fault variant (for PinReturns): retry_loops is never incremented
ReceivePin_nocount(c) ==
    /\ pc[c] = "waitPin"
    /\ resp[c] # NoResp
    /\ IF resp[c] = EmptyPointer
         THEN /\ pc' = [pc EXCEPT ![c] = "sendPin"]
              /\ UNCHANGED <<ptr, retry>>
         ELSE /\ ptr' = [ptr EXCEPT ![c][target[c]] = resp[c]]
              /\ pc' = [pc EXCEPT ![c] = "idle"]
              /\ retry' = [retry EXCEPT ![c] = 0]
    /\ UNCHANGED <<serverVars, dataVars, target, mbox, resp>>

\* The wait loop of SharedCache::pin: a pointer ends the pin, EMPTY_POINTER
\* re-sends the Pin until the retry bound throws "oom".
ReceivePin(c) ==
    /\ pc[c] = "waitPin"
    /\ resp[c] # NoResp
    /\ IF resp[c] = EmptyPointer
         THEN /\ pc' = [pc EXCEPT ![c] = IF retry[c] < MaxRetry THEN "sendPin" ELSE "idle"]
              /\ retry' = [retry EXCEPT ![c] = IF retry[c] < MaxRetry THEN @ + 1 ELSE 0]
              /\ UNCHANGED ptr
         ELSE /\ ptr' = [ptr EXCEPT ![c][target[c]] = resp[c]]
              /\ pc' = [pc EXCEPT ![c] = "idle"]
              /\ retry' = [retry EXCEPT ![c] = 0]
    /\ UNCHANGED <<serverVars, dataVars, target, mbox, resp>>

\* SharedCache::unpin after the client used the page, writing it when
\* is_write: the CHPT dec_ref_count; a 1 -> 0 transition posts a
\* NotifyDirectUnpin.
unpin(c, v, is_write) ==
    /\ pc[c] = "idle"
    /\ v \in Held(c)
    /\ is_write => latest[v] < MaxVersion
    /\ IF is_write
         THEN /\ latest' = [latest EXCEPT ![v] = @ + 1]
              /\ mem' = [mem EXCEPT ![ptr[c][v]] = latest[v] + 1]
         ELSE UNCHANGED <<latest, mem>>
    /\ hdr' = [hdr EXCEPT ![v] = DecRef(@, is_write)]
    /\ ptr' = [ptr EXCEPT ![c][v] = NoFrame]
    /\ target' = [target EXCEPT ![c] = v]
    /\ pc' = [pc EXCEPT ![c] = IF hdr[v].ref = 1 THEN "notifyUnpin" ELSE "idle"]
    /\ UNCHANGED <<ppage_ids, owner, repl, pinned_size, cur_id, loaded, ctx,
                   disk, retry, mbox, resp>>

SendNotifyUnpin(c) ==
    /\ pc[c] = "notifyUnpin"
    /\ Request(c, "NotifyDirectUnpin")
    /\ pc' = [pc EXCEPT ![c] = "idle"]
    /\ UNCHANGED <<serverVars, dataVars, target, ptr, retry, resp>>

(***************************************************************************)
(* Server side: SharedSingleThreadCache::process and notify_pin/unpin,     *)
(* driven by PartitionServer::server_loop and its async fiber.             *)
(***************************************************************************)
\* A process() call is under way (the server thread is inside the victim
\* loop of Initing): the server takes no other request meanwhile.
ServerFree == \A c \in Clients : ctx[c].phase \notin {"Victim", "Delete"}

\* The answer to a Pin, written to resp() directly or through the response message
Respond(c, pointer) == resp' = [resp EXCEPT ![c] = pointer]

\* delete_mapping(v) after a successful lock(): the slot stays busy, empty
DeleteMapping(h, v) == [h EXCEPT ![v] = [@ EXCEPT !.exist = FALSE, !.dirty = FALSE, !.busy = TRUE]]

\* release_mapping_lock(v): unlock() clears busy (the cache line bookkeeping
\* that follows is module ChptBuckets)
ReleaseMappingLock(h, v) == [h EXCEPT ![v].busy = FALSE]

\* Evicting (after the victim, if any, was written back) and Loading:
\* init_state and the new owner of frame p, then load_func, which returns at
\* once for a frame never loaded (MemoryPool::loaded) and otherwise reads
\* the block; once loaded the slot is released and the Pin answered.
EvictingThenLoading(c, v, p, h) ==
    /\ owner' = [owner EXCEPT ![p] = v]
    /\ IF ~loaded[p]
         THEN /\ loaded' = [loaded EXCEPT ![p] = TRUE]
              /\ hdr' = ReleaseMappingLock(h, v)
              /\ ctx' = [ctx EXCEPT ![c] = NoCtx]
              /\ Respond(c, p)
         ELSE /\ hdr' = h
              /\ ctx' = [ctx EXCEPT ![c] = [@ EXCEPT !.phase = "LoadIO", !.v = v, !.p = p]]
              /\ UNCHANGED <<loaded, resp>>

\* Fault variant (for RefCountExact): the mapping is created with ref_count 0
CreateMapping_ref0(h, v) == [h EXCEPT ![v] = [exist |-> TRUE, busy |-> TRUE, dirty |-> FALSE, ref |-> 0]]
\* create_mapping(v, p, 1): lock the empty slot and install exist, busy, ref 1
CreateMapping(h, v) == [h EXCEPT ![v] = [exist |-> TRUE, busy |-> TRUE, dirty |-> FALSE, ref |-> 1]]

\* Initing of a Pin whose slot is not busy
Initing(c, v) ==
    IF hdr[v].exist
      THEN \* page_table.pin; a 0 -> 1 transition leaves the replacement
           /\ hdr' = [hdr EXCEPT ![v] = IncRef(@)]
           /\ repl' = IF hdr[v].ref = 0 THEN repl \ {ppage_ids[v]} ELSE repl
           /\ pinned_size' = IF hdr[v].ref = 0 THEN pinned_size + 1 ELSE pinned_size
           /\ ctx' = [ctx EXCEPT ![c] = NoCtx]
           /\ Respond(c, ppage_ids[v])
           /\ UNCHANGED <<ppage_ids, owner, cur_id, loaded, dataVars>>
    ELSE IF FullPin
      THEN /\ ctx' = [ctx EXCEPT ![c] = NoCtx]
           /\ Respond(c, EmptyPointer)
           /\ UNCHANGED <<hdr, ppage_ids, owner, repl, pinned_size, cur_id, loaded, dataVars>>
    ELSE IF Full
      THEN \* enter the victim loop
           /\ pinned_size' = pinned_size + 1
           /\ ctx' = [ctx EXCEPT ![c] = [NoCtx EXCEPT !.phase = "Victim", !.v = v]]
           /\ UNCHANGED <<hdr, ppage_ids, owner, repl, cur_id, loaded, dataVars, resp>>
      ELSE \* alloc() a fresh frame, create_mapping, no eviction
           /\ pinned_size' = pinned_size + 1
           /\ cur_id' = cur_id + 1
           /\ ppage_ids' = [ppage_ids EXCEPT ![v] = cur_id]
           /\ EvictingThenLoading(c, v, cur_id, CreateMapping(hdr, v))
           /\ UNCHANGED <<repl, dataVars>>

\* The server takes a Pin: Begin parks it while the slot is busy
ServerPin(c) ==
    /\ ServerFree
    /\ mbox[c] # <<>>
    /\ Head(mbox[c]).type = "Pin"
    /\ mbox' = [mbox EXCEPT ![c] = Tail(@)]
    /\ LET v == Head(mbox[c]).v IN
         IF hdr[v].busy
           THEN /\ ctx' = [ctx EXCEPT ![c] = [NoCtx EXCEPT !.phase = "Begin", !.v = v]]
                /\ UNCHANGED <<hdr, ppage_ids, owner, repl, pinned_size, cur_id, loaded,
                               dataVars, resp>>
           ELSE Initing(c, v)
    /\ UNCHANGED clientVars

\* The async fiber re-runs a parked Begin; it proceeds once the slot is not busy
ResumeBegin(c) ==
    /\ ServerFree
    /\ ctx[c].phase = "Begin"
    /\ ~hdr[ctx[c].v].busy
    /\ Initing(c, ctx[c].v)
    /\ UNCHANGED <<clientVars, mbox>>

\* replacement.pop(), then get_pte of the victim's page (read before the lock)
PopVictim(c) ==
    /\ ctx[c].phase = "Victim"
    /\ \E p \in repl :
         /\ repl' = repl \ {p}
         /\ ctx' = [ctx EXCEPT ![c] = [@ EXCEPT !.phase = "Delete", !.p = p,
                                              !.pre = owner[p], !.pte = hdr[owner[p]]]]
    /\ UNCHANGED <<hdr, ppage_ids, owner, pinned_size, cur_id, loaded, dataVars,
                   clientVars, mbox, resp>>

\* Clock::pop with count == 0 loops over states[] forever
SpinEmptyClock(c) ==
    /\ ctx[c].phase = "Victim"
    /\ repl = {}
    /\ UNCHANGED vars

\* The victim check and delete_mapping: a victim that is pinned or busy by the
\* snapshot, or whose lock() CAS fails now, is dropped and the loop pops again.
\* Otherwise the mapping is deleted, context.dirty is taken from the snapshot,
\* the new mapping is created and evict_func writes a dirty victim back.
DeleteVictim(c) ==
    /\ ctx[c].phase = "Delete"
    /\ LET k == ctx[c]
           pre == k.pre
       IN IF k.pte.ref # 0 \/ k.pte.busy \/ ~CanLock(hdr[pre])
            THEN /\ ctx' = [ctx EXCEPT ![c].phase = "Victim"]
                 /\ UNCHANGED <<hdr, ppage_ids, owner, loaded, resp>>
            ELSE LET created == CreateMapping(DeleteMapping(hdr, pre), k.v)
                 IN /\ ppage_ids' = [ppage_ids EXCEPT ![pre] = NoFrame, ![k.v] = k.p]
                    /\ IF k.pte.dirty
                         THEN /\ hdr' = created
                              /\ ctx' = [ctx EXCEPT ![c] = [@ EXCEPT !.phase = "EvictIO",
                                                                   !.dirty = TRUE]]
                              /\ UNCHANGED <<owner, loaded, resp>>
                         \* release_mapping_lock of the victim, then Loading
                         ELSE EvictingThenLoading(c, k.v, k.p, ReleaseMappingLock(created, pre))
    /\ UNCHANGED <<repl, pinned_size, cur_id, dataVars, clientVars, mbox>>

\* The write-back of the victim completes; release_mapping_lock, then Loading
ResumeEvictIO(c) ==
    /\ ServerFree
    /\ ctx[c].phase = "EvictIO"
    /\ LET k == ctx[c] IN
         /\ disk' = [disk EXCEPT ![k.pre] = mem[k.p]]
         /\ EvictingThenLoading(c, k.v, k.p, ReleaseMappingLock(hdr, k.pre))
    /\ UNCHANGED <<ppage_ids, repl, pinned_size, cur_id, mem, latest, clientVars, mbox>>

\* The read of the block completes; release_mapping_lock and answer the Pin
ResumeLoadIO(c) ==
    /\ ServerFree
    /\ ctx[c].phase = "LoadIO"
    /\ LET k == ctx[c] IN
         /\ mem' = [mem EXCEPT ![k.p] = disk[k.v]]
         /\ hdr' = ReleaseMappingLock(hdr, k.v)
         /\ ctx' = [ctx EXCEPT ![c] = NoCtx]
         /\ Respond(c, k.p)
    /\ UNCHANGED <<ppage_ids, owner, repl, pinned_size, cur_id, loaded, disk, latest,
                   clientVars, mbox>>

\* Fault variant (for ReplacementReconciled): notify_pin never erases
notify_pin_noerase(c) ==
    /\ ServerFree
    /\ mbox[c] # <<>>
    /\ Head(mbox[c]).type = "NotifyDirectPin"
    /\ mbox' = [mbox EXCEPT ![c] = Tail(@)]
    /\ pinned_size' = pinned_size + 1
    /\ UNCHANGED <<hdr, ppage_ids, owner, repl, cur_id, loaded, ctx, dataVars, clientVars, resp>>

\* notify_pin: count the pin, take the frame out of the replacement if the
\* page is still referenced when the message is read
notify_pin(c) ==
    /\ ServerFree
    /\ mbox[c] # <<>>
    /\ Head(mbox[c]).type = "NotifyDirectPin"
    /\ mbox' = [mbox EXCEPT ![c] = Tail(@)]
    /\ LET v == Head(mbox[c]).v IN
         /\ pinned_size' = pinned_size + 1
         /\ repl' = IF hdr[v].ref > 0 THEN repl \ {ppage_ids[v]} ELSE repl
    /\ UNCHANGED <<hdr, ppage_ids, owner, cur_id, loaded, ctx, dataVars, clientVars, resp>>

\* notify_unpin: uncount the pin, give the frame back to the replacement if
\* the page exists unreferenced when the message is read
notify_unpin(c) ==
    /\ ServerFree
    /\ mbox[c] # <<>>
    /\ Head(mbox[c]).type = "NotifyDirectUnpin"
    /\ mbox' = [mbox EXCEPT ![c] = Tail(@)]
    /\ LET v == Head(mbox[c]).v IN
         /\ pinned_size' = pinned_size - 1
         /\ repl' = IF hdr[v].exist /\ hdr[v].ref = 0 THEN repl \cup {ppage_ids[v]} ELSE repl
    /\ UNCHANGED <<hdr, ppage_ids, owner, cur_id, loaded, ctx, dataVars, clientVars, resp>>

(***************************************************************************)
(* Specification                                                           *)
(***************************************************************************)
Init ==
    /\ hdr = [v \in VPages |-> EMPTY_HEADER]
    /\ ppage_ids = [v \in VPages |-> NoFrame]
    /\ owner = [p \in Frames |-> NoPage]
    /\ repl = {}
    /\ pinned_size = 0
    /\ cur_id = 0
    /\ loaded = [p \in Frames |-> FALSE]
    /\ ctx = [c \in Clients |-> NoCtx]
    /\ mem = [p \in Frames |-> 0]
    /\ disk = [v \in VPages |-> 0]
    /\ latest = [v \in VPages |-> 0]
    /\ pc = [c \in Clients |-> "idle"]
    /\ target = [c \in Clients |-> NoPage]
    /\ ptr = [c \in Clients |-> [v \in VPages |-> NoFrame]]
    /\ retry = [c \in Clients |-> 0]
    /\ mbox = [c \in Clients |-> <<>>]
    /\ resp = [c \in Clients |-> NoResp]

ClientStep(c) ==
    \/ \E v \in VPages : pin(c, v)
    \/ \E v \in VPages, w \in BOOLEAN : unpin(c, v, w)
    \/ SendNotifyPin(c) \/ SendPin(c) \/ ReceivePin(c) \/ SendNotifyUnpin(c)

ServerStep(c) ==
    \/ ServerPin(c) \/ ResumeBegin(c) \/ PopVictim(c) \/ SpinEmptyClock(c)
    \/ DeleteVictim(c) \/ ResumeEvictIO(c) \/ ResumeLoadIO(c)
    \/ notify_pin(c) \/ notify_unpin(c)

Next == \E c \in Clients : ClientStep(c) \/ ServerStep(c)

\* The server thread never blocks and its loop visits every mailbox and every
\* parked context each round; a client inside SharedCache::pin or unpin runs
\* on until it returns.  Whether a client starts a pin or unpin is its choice.
Fairness ==
    \A c \in Clients :
        /\ WF_vars(ServerPin(c)) /\ WF_vars(notify_pin(c)) /\ WF_vars(notify_unpin(c))
        /\ SF_vars(ResumeBegin(c)) /\ WF_vars(ResumeEvictIO(c)) /\ WF_vars(ResumeLoadIO(c))
        /\ WF_vars(PopVictim(c)) /\ WF_vars(DeleteVictim(c))
        /\ WF_vars(SendNotifyPin(c)) /\ WF_vars(SendPin(c)) /\ WF_vars(ReceivePin(c))
        /\ WF_vars(SendNotifyUnpin(c))

Spec == Init /\ [][Next]_vars /\ Fairness

(***************************************************************************)
(* Properties                                                              *)
(***************************************************************************)
TypeOK ==
    /\ hdr \in [VPages -> Header]
    /\ ppage_ids \in [VPages -> Frames \cup {NoFrame}]
    /\ owner \in [Frames -> VPages \cup {NoPage}]
    /\ repl \subseteq Frames
    /\ pinned_size \in Int
    /\ cur_id \in 0 .. NumFrames
    /\ loaded \in [Frames -> BOOLEAN]
    /\ \A c \in Clients : ctx[c].phase \in Phases
    /\ mem \in [Frames -> Versions] /\ disk \in [VPages -> Versions]
    /\ latest \in [VPages -> Versions]
    /\ pc \in [Clients -> {"idle", "notifyPin", "sendPin", "waitPin", "notifyUnpin"}]
    /\ ptr \in [Clients -> [VPages -> Frames \cup {NoFrame}]]
    /\ \A c \in Clients : Len(mbox[c]) <= MailboxCap
    /\ resp \in [Clients -> Frames \cup {EmptyPointer, NoResp}]

\* A reference the server took for client c's Pin and has not handed over yet
Owed(c, v) ==
    \/ ctx[c].phase \in {"EvictIO", "LoadIO"} /\ ctx[c].v = v
    \/ pc[c] = "waitPin" /\ target[c] = v /\ resp[c] \in Frames

\* Every pointer a client holds from a pin (fast path or server) stays the
\* frame that the CHPT maps its page to, with a non-zero reference count,
\* until the client unpins it: no eviction, by the victim loop of Initing,
\* can take a page that a client pinned through the lock-free fast path.
PinnedFrameStable ==
    \A c \in Clients, v \in VPages :
        ptr[c][v] # NoFrame =>
            /\ hdr[v].exist /\ ~hdr[v].busy /\ hdr[v].ref > 0
            /\ ppage_ids[v] = ptr[c][v]
            /\ owner[ptr[c][v]] = v

\* The 13-bit reference count of each slot equals the pins the clients hold
\* plus those the server took for a Pin still being answered: the fast-path
\* CAS, the server's pin and create_mapping(ref = 1) never lose or invent one.
RefCountExact ==
    \A v \in VPages :
        hdr[v].ref = Quantify(Clients, LAMBDA c : ptr[c][v] # NoFrame)
                     + Quantify(Clients, LAMBDA c : Owed(c, v))

\* No message is on its way to the server and no request is being served
Quiescent ==
    \A c \in Clients :
        /\ mbox[c] = <<>>
        /\ ctx[c] = NoCtx
        /\ pc[c] \in {"idle", "waitPin"}

\* Once every NotifyDirectPin/NotifyDirectUnpin has been read, the Clock holds
\* exactly the frames of unreferenced resident pages and pinned_size counts
\* the referenced ones, however the notifications of several clients were
\* interleaved with their fast-path pins and unpins and with victim pops.
ReplacementReconciled ==
    Quiescent =>
        /\ repl = {p \in Frames : /\ owner[p] # NoPage
                                  /\ hdr[owner[p]].exist
                                  /\ hdr[owner[p]].ref = 0}
        /\ pinned_size = Quantify(VPages, LAMBDA v : hdr[v].ref > 0)

\* Reading a page returns the last version written to it, whether it stayed
\* in its frame or was evicted and loaded back: a resident page that is not
\* being loaded holds the latest version in its frame, and a page that is
\* not resident holds it on the device.
DataCoherent ==
    \A v \in VPages :
        ~hdr[v].busy =>
            IF hdr[v].exist THEN mem[ppage_ids[v]] = latest[v]
                            ELSE disk[v] = latest[v]

\* a NotifyDirectPin that the server has not read: still to be posted by
\* the client, or queued in its mailbox
PinNotifyPending ==
    \E d \in Clients : \/ pc[d] = "notifyPin"
                      \/ \E i \in DOMAIN mbox[d] : mbox[d][i].type = "NotifyDirectPin"

\* The victim loop of Initing finds the Clock empty (and Clock::pop spins
\* for ever) only while a fast-path pin's NotifyDirectPin is unread:
\* full_pin() passed on a pinned_size that lags behind that pin, never on a
\* pinned_size or Clock that the victim pops, dropped victims, parked
\* evictions and loads or notify_unpin have put out of step.
EmptyClockOnlyFromLag ==
    \A c \in Clients : ctx[c].phase = "Victim" /\ repl = {} => PinNotifyPending

\* Every SharedCache::pin that misses the fast path eventually returns, with
\* a frame or by throwing "oom": the server answers every Pin (a parked
\* Begin, eviction or load is resumed) and the EMPTY_POINTER retry loop is
\* bounded even when the client itself holds every frame.
PinReturns == \A c \in Clients : pc[c] = "sendPin" ~> pc[c] = "idle"

=============================================================================
