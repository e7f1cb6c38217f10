----------------------------- MODULE CacheMemOps -----------------------------
(***************************************************************************)
(* The memory and string hooks of the binding (src/bind/cache.cpp          *)
(* 601-1143): cache_memcpy, cache_memset, cache_memmove, memchr, memcmp,   *)
(* strcmp, stpcpy/strcpy/strcat, strlen, and the read and write hooks that *)
(* move file data between a cached buffer and the hook's plain bounce      *)
(* buffer.  A pointer whose OFFSET_FLAG bit is set addresses the cache     *)
(* space; the hooks reach its bytes through CachedPtr (cached_ptr.hpp),    *)
(* either one byte at a time (get/operator[], which go through the         *)
(* direct cache and hold nothing afterwards) or a page at a time with      *)
(* pin/unpin (which hold a private-cache pin until the unpin).  The data   *)
(* a pinned page shows is the page's bytes, so the model keeps the bytes   *)
(* of every space in one function and the pins as a count per page.      *)
(*                                                                         *)
(* One thread calls the hooks.  The pieces of a parallel read or write     *)
(* (#pragma omp parallel for) copy disjoint byte ranges and each holds     *)
(* its own pins, so they are run one after another in any order.           *)
(***************************************************************************)
EXTENDS Integers, FiniteSetsExt

CONSTANTS
    PageSize,     \* scache::CACHE_PAGE_SIZE
    NumPages,     \* pages of the cache space; pinning page NumPages throws
    PlainSize,    \* bytes of ordinary (uncached) user memory
    BufLen,       \* local_buf_len of the read and write hooks
    FileCap,      \* bytes of the file behind fd; a read stops there (EOF)
                  \* and a write stops there (the disk is full)
    MaxLen,       \* bound on the n or count of a call
    WordBits,     \* width of size_t in the memmove overlap test
    MaxCalls,     \* bound on the number of hook calls of a behaviour
    InitCaches,   \* the cache space's possible initial bytes, 0 being NUL
    InitPlain, InitFile

CacheBytes == NumPages * PageSize
Word == 2 ^ WordBits
Spaces == {"c", "p", "b"}   \* cache space, user memory, hook's local_buf
SizeOf(sp) == CASE sp = "c" -> CacheBytes
              []   sp = "p" -> PlainSize
              []   sp = "b" -> BufLen

VARIABLES
    mem,       \* mem[sp][i]: the byte at offset i of space sp
    file,      \* the bytes of the file behind fd
    fpos,      \* the file offset of fd
    pins,      \* pins[g]: private-cache pins held on cache page g
    parallel,  \* !__disable_parallel_read_write
    pc,        \* where the calling thread is
    mc,        \* the locals of the cache_memcpy in progress
    hk,        \* the locals of the read or write hook in progress
    call,      \* the user call in progress, with the state it started in
    result,    \* the value the last user call returned
    calls      \* number of user calls made
vars == <<mem, file, fpos, pins, parallel, pc, mc, hk, call, result, calls>>

Ptr(sp, i) == [sp |-> sp, off |-> i]
Plus(p, k) == [p EXCEPT !.off = @ + k]
Cached(p) == p.sp = "c"
Page(p) == p.off \div PageSize
PageOff(p) == p.off % PageSize
Read(m, p) == m[p.sp][p.off]
Write(m, p, v) == [m EXCEPT ![p.sp][p.off] = v]
InRange(p, n) == p.off + n <= SizeOf(p.sp)
Overlap(p, n, q, k) ==
    p.sp = q.sp /\ p.off < q.off + k /\ q.off < p.off + n
Lo(a, b) == IF a <= b THEN a ELSE b

\* __real_memcpy of n bytes between non-overlapping ranges.
CopyBytes(m, d, s, n) ==
    [m EXCEPT ![d.sp] = [i \in DOMAIN m[d.sp] |->
        IF d.off <= i /\ i < d.off + n THEN m[s.sp][s.off + (i - d.off)]
                                       ELSE m[d.sp][i]]]

\* func of cache_memset: for (; n; n--, s++) *s = c;
SetBytes(m, d, c, n) ==
    [m EXCEPT ![d.sp] = [i \in DOMAIN m[d.sp] |->
        IF d.off <= i /\ i < d.off + n THEN c ELSE m[d.sp][i]]]

\* The byte loops of cache_memmove: for (; n; n--) *d++ = *s++; and
\* while (n) n--, d[n] = s[n];
RECURSIVE CopyForward(_, _, _, _)
CopyForward(m, d, s, n) ==
    IF n = 0 THEN m
    ELSE CopyForward(Write(m, d, Read(m, s)), Plus(d, 1), Plus(s, 1), n - 1)

\* Mutant: the backward loop copies front to back.
CopyBackward_forward(m, d, s, n) == CopyForward(m, d, s, n)

RECURSIVE CopyBackward(_, _, _, _)
CopyBackward(m, d, s, n) ==
    IF n = 0 THEN m
    ELSE CopyBackward(Write(m, Plus(d, n - 1), Read(m, Plus(s, n - 1))),
                      d, s, n - 1)

\* musl's overlap test: s - d - n <= -2 * n, evaluated as size_t.
Unsigned(x) == x % Word
NoOverlapTest(d, s, n) == Unsigned(s.off - d.off - n) <= Unsigned(-2 * n)

\* func of cache_memchr: for (; n && *s != c; s++, n--); the result is
\* s - a when n is left, else the null pointer.
RECURSIVE ChrScan(_, _, _, _)
ChrScan(m, s, c, n) ==
    IF n # 0 /\ Read(m, s) # c THEN ChrScan(m, Plus(s, 1), c, n - 1)
    ELSE <<s, n>>
Memchr(m, a, c, n) ==
    LET e == ChrScan(m, a, c, n) IN IF e[2] # 0 THEN e[1].off - a.off ELSE "null"

\* func of memcmp: for (; n && *l == *r; n--, l++, r++); n ? *l - *r : 0
RECURSIVE Memcmp(_, _, _, _)
Memcmp(m, l, r, n) ==
    IF n # 0 /\ Read(m, l) = Read(m, r)
    THEN Memcmp(m, Plus(l, 1), Plus(r, 1), n - 1)
    ELSE IF n # 0 THEN Read(m, l) - Read(m, r) ELSE 0

\* func of strcmp: for (; *l == *r && *l; l++, r++); return *l - *r;
RECURSIVE Strcmp(_, _, _)
Strcmp(m, l, r) ==
    IF Read(m, l) = Read(m, r) /\ Read(m, l) # 0
    THEN Strcmp(m, Plus(l, 1), Plus(r, 1))
    ELSE Read(m, l) - Read(m, r)

\* func of strlen: for (; *s; s++); return s - a;
RECURSIVE Strlen(_, _)
Strlen(m, s) == IF Read(m, s) # 0 THEN 1 + Strlen(m, Plus(s, 1)) ELSE 0

\* func of stpcpy: for (; (*d = *s); s++, d++);
RECURSIVE Stpcpy(_, _, _)
Stpcpy(m, d, s) ==
    LET m1 == Write(m, d, Read(m, s))
    IN IF Read(m, s) # 0 THEN Stpcpy(m1, Plus(d, 1), Plus(s, 1)) ELSE m1

-----------------------------------------------------------------------------
(* cache_memcpy (cache.cpp 601-745).  Each side whose pointer is cached is *)
(* pinned at its current page; every step copies up to the nearer end of a *)
(* pinned page, and a side that reaches its page end unpins that page and  *)
(* pins (d + step_len), the page after it, before d advances.              *)

NoPins == [g \in 0..NumPages - 1 |-> 0]
PinIf(pn, p) == IF Cached(p) THEN [pn EXCEPT ![Page(p)] = @ + 1] ELSE pn
UnpinIf(pn, p) == IF Cached(p) THEN [pn EXCEPT ![Page(p)] = @ - 1] ELSE pn
Room(p, po) == IF Cached(p) THEN {PageSize - po} ELSE {}

\* The call: d.pin(), s.pin(); both plain is __real_memcpy.  back is where
\* the caller resumes.
StartMemcpy(d, s, n, back) ==
    IF Cached(d) \/ Cached(s)
    THEN /\ pins' = PinIf(PinIf(pins, d), s)
         /\ mc' = [d |-> d, s |-> s, dpo |-> PageOff(d), spo |-> PageOff(s),
                   copied |-> 0, n |-> n, back |-> back]
         /\ pc' = "memcpy"
         /\ UNCHANGED mem
    ELSE /\ mem' = CopyBytes(mem, d, s, n)
         /\ pc' = back
         /\ UNCHANGED <<pins, mc>>

StepLen == Min({mc.n - mc.copied} \cup Room(mc.d, mc.dpo) \cup Room(mc.s, mc.spo))

\* One turn of the while loop.  A pin of a page past the cache space throws
\* ("Virtual Page ID Error"), leaving the pins taken so far.
McStep ==
    LET st == StepLen
        nd == Plus(mc.d, st)
        ns == Plus(mc.s, st)
        dw == Cached(mc.d) /\ mc.dpo + st = PageSize
        sw == Cached(mc.s) /\ mc.spo + st = PageSize
        p1 == IF dw THEN UnpinIf(pins, mc.d) ELSE pins
        p2 == IF dw THEN PinIf(p1, nd) ELSE p1
        p3 == IF sw THEN UnpinIf(p2, mc.s) ELSE p2
        p4 == IF sw THEN PinIf(p3, ns) ELSE p3
    IN /\ pc = "memcpy"
       /\ mc.copied < mc.n
       /\ mem' = CopyBytes(mem, mc.d, mc.s, st)
       /\ \/ /\ dw /\ Page(nd) >= NumPages
             /\ pins' = p1 /\ pc' = "thrown" /\ UNCHANGED mc
          \/ /\ ~(dw /\ Page(nd) >= NumPages)
             /\ sw /\ Page(ns) >= NumPages
             /\ pins' = p3 /\ pc' = "thrown" /\ UNCHANGED mc
          \/ /\ ~(dw /\ Page(nd) >= NumPages) /\ ~(sw /\ Page(ns) >= NumPages)
             /\ pins' = p4
             /\ mc' = [mc EXCEPT !.d = nd, !.s = ns, !.copied = @ + st,
                                 !.dpo = IF dw THEN 0 ELSE @ + st,
                                 !.spo = IF sw THEN 0 ELSE @ + st]
             /\ UNCHANGED pc
       /\ UNCHANGED <<file, fpos, parallel, hk, call, result, calls>>

\* Mutants: the source page is not unpinned; the destination page is
\* unpinned twice.
McEnd_nosrc ==
    /\ pc = "memcpy"
    /\ mc.copied = mc.n
    /\ pins' = UnpinIf(pins, mc.d)
    /\ pc' = mc.back
    /\ UNCHANGED <<mem, file, fpos, parallel, mc, hk, call, result, calls>>

McEnd_twice ==
    /\ pc = "memcpy"
    /\ mc.copied = mc.n
    /\ pins' = UnpinIf(UnpinIf(pins, mc.d), mc.d)
    /\ pc' = mc.back
    /\ UNCHANGED <<mem, file, fpos, parallel, mc, hk, call, result, calls>>

\* The loop is done: d.unpin(), s.unpin(), return to the caller.
McEnd ==
    /\ pc = "memcpy"
    /\ mc.copied = mc.n
    /\ pins' = UnpinIf(UnpinIf(pins, mc.d), mc.s)
    /\ pc' = mc.back
    /\ UNCHANGED <<mem, file, fpos, parallel, mc, hk, call, result, calls>>

-----------------------------------------------------------------------------
(* The user calls.  Their pointers are valid: ranges lie inside their      *)
(* space, the __restrict ones do not overlap and strings are terminated.   *)

ValidPtrs == UNION {{Ptr(sp, i) : i \in 0..SizeOf(sp) - 1} : sp \in {"c", "p"}}
Vals == {0, 1, 2}
HkNone == [op |-> "none", cur |-> Ptr("c", 0), count |-> 0, off |-> 0,
           ret |-> 0, len |-> 0, k |-> 0, todo |-> {}]
Terminated(p) == \E i \in p.off..SizeOf(p.sp) - 1 : mem[p.sp][i] = 0

\* Records the call and the state it starts in.
Begin(op, d, s, n, c, ret) ==
    /\ pc = "idle"
    /\ calls < MaxCalls
    /\ calls' = calls + 1
    /\ call' = [op |-> op, d |-> d, s |-> s, n |-> n, c |-> c,
                m0 |-> mem, f0 |-> file, p0 |-> fpos]
    /\ result' = ret

CallMemcpy ==
    \E d, s \in ValidPtrs, n \in 0..MaxLen :
        /\ InRange(d, n) /\ InRange(s, n) /\ ~Overlap(d, n, s, n)
        /\ Begin("memcpy", d, s, n, 0, d)
        /\ StartMemcpy(d, s, n, "idle")
        /\ UNCHANGED <<file, fpos, parallel, hk>>

\* cache_memset: the cached branch stores byte by byte through CachedPtr,
\* the other is __real_memset; both leave no pin.
CallMemset ==
    \E d \in ValidPtrs, c \in Vals, n \in 0..MaxLen :
        /\ InRange(d, n)
        /\ Begin("memset", d, d, n, c, d)
        /\ mem' = SetBytes(mem, d, c, n)
        /\ UNCHANGED <<file, fpos, pins, parallel, pc, mc, hk>>

\* cache_memmove: both cached returns at once when d == s, hands a copy
\* the overlap test clears to cache_memcpy, and otherwise copies byte by
\* byte forward when d < s and backward when not; a mixed call is a
\* cache_memcpy and both plain is __real_memmove.
CallMemmove ==
    \E d, s \in ValidPtrs, n \in 0..MaxLen :
        /\ InRange(d, n) /\ InRange(s, n)
        /\ Begin("memmove", d, s, n, 0, d)
        /\ \/ /\ Cached(d) /\ Cached(s)
              /\ \/ d.off = s.off /\ UNCHANGED <<mem, pins, pc, mc>>
                 \/ /\ d.off # s.off /\ NoOverlapTest(d, s, n)
                    /\ StartMemcpy(d, s, n, "idle")
                 \/ /\ d.off # s.off /\ ~NoOverlapTest(d, s, n)
                    /\ mem' = IF d.off < s.off THEN CopyForward(mem, d, s, n)
                                               ELSE CopyBackward(mem, d, s, n)
                    /\ UNCHANGED <<pins, pc, mc>>
           \/ /\ Cached(d) # Cached(s)
              /\ StartMemcpy(d, s, n, "idle")
           \/ /\ ~Cached(d) /\ ~Cached(s)
              /\ mem' = CopyBytes(mem, d, s, n)
              /\ UNCHANGED <<pins, pc, mc>>
        /\ UNCHANGED <<file, fpos, parallel, hk>>

\* memchr, memcmp, strcmp and strlen read bytes and hold nothing.
CallScan ==
    /\ \/ \E a \in ValidPtrs, c \in Vals, n \in 0..MaxLen :
            InRange(a, n) /\ Begin("memchr", a, a, n, c, Memchr(mem, a, c, n))
       \/ \E l, r \in ValidPtrs, n \in 0..MaxLen :
            InRange(l, n) /\ InRange(r, n) /\ Begin("memcmp", l, r, n, 0, Memcmp(mem, l, r, n))
       \/ \E l, r \in ValidPtrs :
            Terminated(l) /\ Terminated(r) /\ Begin("strcmp", l, r, 0, 0, Strcmp(mem, l, r))
       \/ \E a \in ValidPtrs :
            Terminated(a) /\ Begin("strlen", a, a, 0, 0, Strlen(mem, a))
    /\ UNCHANGED <<mem, file, fpos, pins, parallel, pc, mc, hk>>

\* stpcpy returns vl, its destination; strcpy calls stpcpy and returns
\* dest; strcat is strcpy(dest + strlen(dest), src).
CallStrcpy ==
    \E d, s \in ValidPtrs, op \in {"stpcpy", "strcpy", "strcat"} :
        LET at == IF op = "strcat" THEN Plus(d, Strlen(mem, d)) ELSE d
            k == Strlen(mem, s) + 1
        IN /\ Terminated(s) /\ (op = "strcat" => Terminated(d))
           /\ InRange(at, k) /\ ~Overlap(at, k, s, k)
           /\ op = "strcat" => ~Overlap(d, at.off - d.off + k, s, k)
           /\ Begin(op, d, s, 0, 0, d)
           /\ mem' = Stpcpy(mem, at, s)
           /\ UNCHANGED <<file, fpos, pins, parallel, pc, mc, hk>>

-----------------------------------------------------------------------------
(* The read and write hooks (cache.cpp 1029-1143).  A cached buffer is     *)
(* moved through local_buf in chunks of local_buf_len: with                *)
(* __disable_parallel_read_write by one cache_memcpy per chunk, otherwise  *)
(* by one cache_memcpy per CACHE_PAGE_SIZE piece of the chunk.  A chunk    *)
(* that fails returns -1; a short chunk ends the loop.  The cache_flush    *)
(* at the end writes dirty pages back and changes no byte the model keeps. *)

\* What __real_read and __real_write may return for len bytes at fpos.
IoResults(len) == {-1} \cup 0..Lo(len, FileCap - fpos)
LoadFile(m, p, k) ==
    [m EXCEPT ![p.sp] = [i \in DOMAIN m[p.sp] |->
        IF p.off <= i /\ i < p.off + k THEN file[fpos + (i - p.off)] ELSE m[p.sp][i]]]
StoreFile(m, p, k) ==
    [j \in DOMAIN file |->
        IF fpos <= j /\ j < fpos + k THEN m[p.sp][p.off + (j - fpos)] ELSE file[j]]

\* Mutant: the piece loop stops one byte short (local_off < local_ret - 1).
Pieces_short(k) == IF parallel THEN {lo \in 0..k - 2 : lo % PageSize = 0} ELSE {0}

Pieces(k) == IF parallel THEN {lo \in 0..k - 1 : lo % PageSize = 0} ELSE {0}
PieceLen(lo, k) == IF parallel THEN Lo(PageSize, k - lo) ELSE k

Return(r) == pc' = "idle" /\ result' = r

CallRead ==
    \E d \in ValidPtrs, count \in 0..MaxLen :
        /\ InRange(d, count)
        /\ Begin("read", d, d, count, 0, 0)
        /\ \/ /\ Cached(d)
              /\ hk' = [HkNone EXCEPT !.op = "read", !.cur = d, !.count = count]
              /\ pc' = "rd_loop"
              /\ UNCHANGED <<mem, fpos>>
           \/ /\ ~Cached(d)
              /\ \E k \in IoResults(count) :
                    /\ result' = k
                    /\ mem' = LoadFile(mem, d, k)
                    /\ fpos' = fpos + (IF k < 0 THEN 0 ELSE k)
              /\ UNCHANGED <<pc, hk>>
        /\ UNCHANGED <<file, pins, parallel, mc>>

ReadChunk ==
    /\ pc = "rd_loop"
    /\ \/ /\ hk.off < hk.count
          /\ LET len == Lo(hk.count - hk.off, BufLen) IN
             \E k \in IoResults(len) :
                \/ /\ k < 0
                   /\ Return(k)
                   /\ UNCHANGED <<mem, fpos, hk>>
                \/ /\ k >= 0
                   /\ mem' = LoadFile(mem, Ptr("b", 0), k)
                   /\ fpos' = fpos + k
                   /\ hk' = [hk EXCEPT !.len = len, !.k = k, !.todo = Pieces(k)]
                   /\ pc' = "rd_copy"
                   /\ UNCHANGED result
       \/ /\ hk.off >= hk.count
          /\ Return(hk.ret)
          /\ UNCHANGED <<mem, fpos, hk>>
    /\ UNCHANGED <<file, pins, parallel, mc, call, calls>>

\* One piece of the copy between the user buffer and local_buf.
CopyPiece ==
    /\ pc \in {"rd_copy", "wr_copy"}
    /\ \E lo \in hk.todo :
          /\ hk' = [hk EXCEPT !.todo = @ \ {lo}]
          /\ IF pc = "rd_copy"
             THEN StartMemcpy(Plus(hk.cur, lo), Ptr("b", lo), PieceLen(lo, hk.k), pc)
             ELSE StartMemcpy(Ptr("b", lo), Plus(hk.cur, lo), PieceLen(lo, hk.len), pc)
    /\ UNCHANGED <<file, fpos, parallel, call, result, calls>>

\* ret += local_ret; dst += local_ret; then a short chunk or a full count
\* returns, and otherwise off += local_buf_len.
ReadDone ==
    /\ pc = "rd_copy"
    /\ hk.todo = {}
    /\ LET ret == hk.ret + hk.k IN
          /\ hk' = [hk EXCEPT !.ret = ret, !.cur = Plus(@, hk.k), !.off = @ + BufLen]
          /\ \/ /\ hk.k < hk.len \/ ret = hk.count
                /\ Return(ret)
             \/ /\ ~(hk.k < hk.len \/ ret = hk.count)
                /\ pc' = "rd_loop"
                /\ UNCHANGED result
    /\ UNCHANGED <<mem, file, fpos, pins, parallel, mc, call, calls>>

CallWrite ==
    \E s \in ValidPtrs, count \in 0..MaxLen :
        /\ InRange(s, count)
        /\ Begin("write", s, s, count, 0, 0)
        /\ \/ /\ Cached(s)
              /\ hk' = [HkNone EXCEPT !.op = "write", !.cur = s, !.count = count]
              /\ pc' = "wr_loop"
              /\ UNCHANGED <<file, fpos>>
           \/ /\ ~Cached(s)
              /\ \E k \in IoResults(count) :
                    /\ result' = k
                    /\ file' = StoreFile(mem, s, k)
                    /\ fpos' = fpos + (IF k < 0 THEN 0 ELSE k)
              /\ UNCHANGED <<pc, hk>>
        /\ UNCHANGED <<mem, pins, parallel, mc>>

WriteChunk ==
    /\ pc = "wr_loop"
    /\ \/ /\ hk.off < hk.count
          /\ LET len == Lo(hk.count - hk.off, BufLen) IN
                hk' = [hk EXCEPT !.len = len, !.todo = Pieces(len)]
          /\ pc' = "wr_copy"
          /\ UNCHANGED result
       \/ /\ hk.off >= hk.count
          /\ Return(hk.ret)
          /\ UNCHANGED hk
    /\ UNCHANGED <<mem, file, fpos, pins, parallel, mc, call, calls>>

\* __real_write of the chunk, then the same bookkeeping as the read hook.
WriteDone ==
    /\ pc = "wr_copy"
    /\ hk.todo = {}
    /\ \E k \in IoResults(hk.len) :
          \/ /\ k < 0
             /\ Return(k)
             /\ UNCHANGED <<file, fpos, hk>>
          \/ /\ k >= 0
             /\ file' = StoreFile(mem, Ptr("b", 0), k)
             /\ fpos' = fpos + k
             /\ LET ret == hk.ret + k IN
                  /\ hk' = [hk EXCEPT !.ret = ret, !.cur = Plus(@, k), !.off = @ + BufLen]
                  /\ \/ /\ k < hk.len \/ ret = hk.count
                        /\ Return(ret)
                     \/ /\ ~(k < hk.len \/ ret = hk.count)
                        /\ pc' = "wr_loop"
                        /\ UNCHANGED result
    /\ UNCHANGED <<mem, pins, parallel, mc, call, calls>>

-----------------------------------------------------------------------------
Init ==
    /\ \E cache \in InitCaches :
          mem = [sp \in Spaces |->
                   CASE sp = "c" -> cache
                   []   sp = "p" -> InitPlain
                   []   sp = "b" -> [i \in 0..BufLen - 1 |-> 0]]
    /\ file = InitFile
    /\ fpos = 0
    /\ pins = NoPins
    /\ parallel \in BOOLEAN
    /\ pc = "idle"
    /\ mc = [d |-> Ptr("c", 0), s |-> Ptr("c", 0), dpo |-> 0, spo |-> 0,
             copied |-> 0, n |-> 0, back |-> "idle"]
    /\ hk = HkNone
    /\ call = [op |-> "none", d |-> Ptr("c", 0), s |-> Ptr("c", 0), n |-> 0,
               c |-> 0, m0 |-> mem, f0 |-> file, p0 |-> 0]
    /\ result = 0
    /\ calls = 0

Next ==
    \/ CallMemcpy \/ CallMemset \/ CallMemmove \/ CallScan \/ CallStrcpy
    \/ CallRead \/ CallWrite
    \/ McStep \/ McEnd
    \/ ReadChunk \/ CopyPiece \/ ReadDone
    \/ WriteChunk \/ WriteDone

Spec == Init /\ [][Next]_vars

-----------------------------------------------------------------------------
(* Properties.  The reference definitions say what the C library promises *)
(* of each call, from the state the call started in.                      *)

TypeOK ==
    /\ \A sp \in Spaces : mem[sp] \in [0..SizeOf(sp) - 1 -> Vals]
    /\ file \in [0..FileCap - 1 -> Vals]
    /\ fpos \in 0..FileCap
    /\ pins \in [0..NumPages - 1 -> Nat]
    /\ parallel \in BOOLEAN
    /\ pc \in {"idle", "memcpy", "rd_loop", "rd_copy", "wr_loop", "wr_copy", "thrown"}
    /\ mc.copied \in 0..mc.n
    /\ hk.todo \subseteq 0..BufLen - 1
    /\ calls \in 0..MaxCalls

Sign(x) == IF x > 0 THEN 1 ELSE IF x < 0 THEN -1 ELSE 0
RefStrlen(m, s) == Min({i \in 0..SizeOf(s.sp) - s.off - 1 : m[s.sp][s.off + i] = 0})
RefFirst(S) == IF S = {} THEN -1 ELSE Min(S)

\* What memory holds after a call that returned, by the C library's
\* definition of the call (memmove copies as if through a temporary).
RefMem(c) ==
    LET m == c.m0 IN
    CASE c.op \in {"memcpy", "memmove"} -> CopyBytes(m, c.d, c.s, c.n)
    []   c.op = "memset" -> SetBytes(m, c.d, c.c, c.n)
    []   c.op \in {"stpcpy", "strcpy"} -> CopyBytes(m, c.d, c.s, RefStrlen(m, c.s) + 1)
    []   c.op = "strcat" ->
            CopyBytes(m, Plus(c.d, RefStrlen(m, c.d)), c.s, RefStrlen(m, c.s) + 1)
    []   OTHER -> m

\* What a scan returns by the C library's definition; for memcmp and strcmp
\* only the sign is defined.
RefResult(c) ==
    LET m == c.m0
        At(p, i) == m[p.sp][p.off + i]
    IN CASE c.op = "memchr" ->
              LET f == RefFirst({i \in 0..c.n - 1 : At(c.d, i) = c.c})
              IN IF f = -1 THEN "null" ELSE f
       []   c.op = "memcmp" ->
              LET f == RefFirst({i \in 0..c.n - 1 : At(c.d, i) # At(c.s, i)})
              IN IF f = -1 THEN 0 ELSE Sign(At(c.d, f) - At(c.s, f))
       []   c.op = "strcmp" ->
              LET f == Min({i \in 0..Lo(RefStrlen(m, c.d), RefStrlen(m, c.s)) : At(c.d, i) # At(c.s, i) \/ At(c.d, i) = 0})
              IN Sign(At(c.d, f) - At(c.s, f))
       []   c.op = "strlen" -> RefStrlen(m, c.d)

\* Every memory and string hook that returns leaves memory as the C library
\* defines the call to, and every scan returns what the C library defines:
\* cache_memcpy's page stepping across the pins, cache_memmove's unsigned
\* overlap test and its choice of direction, and the byte loops of memchr,
\* memcmp, strcmp, strlen, stpcpy, strcpy and strcat.
CallMatchesReference ==
    (pc = "idle" /\ call.op \notin {"none", "read", "write"}) =>
        /\ mem = RefMem(call)
        /\ call.op \in {"memchr", "strlen"} => result = RefResult(call)
        /\ call.op \in {"memcmp", "strcmp"} => Sign(result) = RefResult(call)

\* A read or write hook that returns r >= 0 has moved exactly the r bytes at
\* the file offset it started from, between the file and the start of the
\* user buffer, advanced the offset by r and changed nothing else the user
\* can see, over every chunking, every short or failed chunk and every order
\* of the parallel pieces.
HookTransfers ==
    LET c == call
        User(m) == [sp \in {"c", "p"} |-> m[sp]]
    IN (pc = "idle" /\ c.op \in {"read", "write"} /\ result >= 0) =>
          /\ fpos = c.p0 + result
          /\ c.op = "read" =>
               /\ file = c.f0
               /\ User(mem) = User([c.m0 EXCEPT ![c.d.sp] = [i \in DOMAIN @ |->
                     IF c.d.off <= i /\ i < c.d.off + result
                     THEN c.f0[c.p0 + (i - c.d.off)] ELSE @[i]]])
          /\ c.op = "write" =>
               /\ User(mem) = User(c.m0)
               /\ file = [j \in DOMAIN c.f0 |->
                     IF c.p0 <= j /\ j < c.p0 + result
                     THEN c.m0[c.d.sp][c.d.off + (j - c.p0)] ELSE c.f0[j]]

\* The private-cache pins held are exactly those of the cache_memcpy in
\* progress, one on the page of each cached cursor, and none between
\* calls: every pin the page stepping takes is released, in the hooks'
\* parallel pieces as in a user memcpy.  A throw ends the thread.
PinsMatchCursor ==
    pc # "thrown" =>
        pins = IF pc = "memcpy" THEN PinIf(PinIf(NoPins, mc.d), mc.s) ELSE NoPins

\* stpcpy returns a pointer to the terminating NUL it wrote into the
\* destination (POSIX); the hook returns vl, the destination's start.  No
\* run checks this: CacheMemOps_stpcpy.cfg shows it violated.
StpcpyReturnsEnd ==
    (pc = "idle" /\ call.op = "stpcpy") =>
        result = Plus(call.d, RefStrlen(call.m0, call.s))
====
