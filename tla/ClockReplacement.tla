-------------------------- MODULE ClockReplacement --------------------------
(***************************************************************************)
(* class Clock of src/include/replacement.hpp, the replacement policy of   *)
(* every shard of the shared cache.  states[p] is 0 for a frame the clock  *)
(* does not hold, 2 for a frame pushed or accessed since the hand last     *)
(* passed it and 1 for a frame whose second chance is used up.  pop turns  *)
(* 2s into 1s until the hand stands on a 1, evicts it, and then moves the  *)
(* hand on (at most PrefetchLoops - 1 steps) to the next 1, which it       *)
(* returns for prefetching.  The clock is used by one server thread only,  *)
(* so each call is one atomic step.                                        *)
(***************************************************************************)
EXTENDS Naturals, FiniteSets

CONSTANTS
    NumFrames,      \* max_ppage_id
    PrefetchLoops,  \* size_t loops = 1024 of Clock::pop
    SweepBound,     \* steps after which the first loop of pop is taken to spin forever
    NoFrame         \* no frame popped by the last call

ASSUME NumFrames \in Nat \ {0} /\ PrefetchLoops \in Nat \ {0}
ASSUME SweepBound \in Nat /\ SweepBound >= 2 * NumFrames
\* the second loop of pop only depends on loops modulo NumFrames once it
\* can go round the whole circle
ASSUME PrefetchLoops > NumFrames /\ (PrefetchLoops - 1) % NumFrames = 1023 % NumFrames

Frames == 0 .. NumFrames - 1

VARIABLES
    states,   \* Clock::states
    hand,     \* Clock::hand
    count,    \* Clock::count
    ret,      \* the pair returned by the last pop, <<>> after any other call
    spinning  \* the server thread is stuck in the first loop of pop

vars == <<states, hand, count, ret, spinning>>

Next1(h) == (h + 1) % NumFrames

\* The first loop of pop: while (states[hand] != 1) { 2 -> 1; hand++ }.
\* It returns the states and hand it stops at, and the fuel left; fuel 0
\* means it has gone round twice without meeting a 1 and never stops.
RECURSIVE Sweep(_, _, _)
Sweep(st, h, fuel) ==
    IF fuel = 0 \/ st[h] = 1
      THEN [st |-> st, hand |-> h, fuel |-> fuel]
      ELSE Sweep(IF st[h] = 2 THEN [st EXCEPT ![h] = 1] ELSE st, Next1(h), fuel - 1)

\* Fault variant (for PopMatchesReference): loops-- instead of --loops
RECURSIVE Advance_postdec(_, _, _)
Advance_postdec(st, h, loops) ==
    IF st[h] = 1 \/ loops = 0 THEN h ELSE Advance_postdec(st, Next1(h), loops - 1)

\* The second loop: while (states[hand] != 1 && --loops) hand++
RECURSIVE Advance(_, _, _)
Advance(st, h, loops) ==
    IF st[h] = 1 \/ loops - 1 = 0 THEN h ELSE Advance(st, Next1(h), loops - 1)

\* Fault variant (for PopReturns): push counts a frame it already holds
push_nocheck(p) ==
    /\ ~spinning
    /\ count' = count + 1
    /\ states' = [states EXCEPT ![p] = 2]
    /\ ret' = <<>>
    /\ UNCHANGED <<hand, spinning>>

\* Clock::push: a frame not held enters with a second chance (count++),
\* a held one is accessed
push(p) ==
    /\ ~spinning
    /\ IF states[p] = 0
         THEN /\ count' = count + 1
              /\ states' = [states EXCEPT ![p] = 2]
         ELSE /\ states' = [states EXCEPT ![p] = 2]   \* access(p)
              /\ UNCHANGED count
    /\ ret' = <<>>
    /\ UNCHANGED <<hand, spinning>>

\* Fault variant (for TypeOK): erase uncounts a frame it does not hold
erase_noguard(p) ==
    /\ ~spinning
    /\ states' = [states EXCEPT ![p] = 0]
    /\ count' = count - 1
    /\ ret' = <<>>
    /\ UNCHANGED <<hand, spinning>>

\* Clock::erase
erase(p) ==
    /\ ~spinning
    /\ IF states[p] # 0
         THEN /\ states' = [states EXCEPT ![p] = 0]
              /\ count' = count - 1
         ELSE UNCHANGED <<states, count>>
    /\ ret' = <<>>
    /\ UNCHANGED <<hand, spinning>>

\* Fault variant (for ImplementsReplacementSet): the victim's state is not reset
pop_keepvictim ==
    /\ ~spinning
    /\ count > 0
    /\ LET s == Sweep(states, hand, SweepBound) IN
         IF s.fuel = 0
           THEN /\ spinning' = TRUE
                /\ UNCHANGED <<states, hand, count, ret>>
           ELSE LET nextHand == Advance(s.st, s.hand, PrefetchLoops)
                IN /\ states' = s.st
                   /\ count' = count - 1
                   /\ hand' = nextHand
                   /\ ret' = <<s.hand, nextHand>>
                   /\ UNCHANGED spinning

\* Clock::pop.  Its assert(count > 0) is compiled out in the release build:
\* the caller only pops when it believes the clock is not empty, so pop is
\* entered whenever count > 0, and on an empty clock it would spin.
pop ==
    /\ ~spinning
    /\ count > 0
    /\ LET s == Sweep(states, hand, SweepBound) IN
         IF s.fuel = 0
           THEN /\ spinning' = TRUE
                /\ UNCHANGED <<states, hand, count, ret>>
           ELSE LET after == [s.st EXCEPT ![s.hand] = 0]
                    nextHand == Advance(after, s.hand, PrefetchLoops)
                IN /\ states' = after
                   /\ count' = count - 1
                   /\ hand' = nextHand
                   /\ ret' = <<s.hand, nextHand>>
                   /\ UNCHANGED spinning

Init ==
    /\ states = [p \in Frames |-> 0]
    /\ hand = 0
    /\ count = 0
    /\ ret = <<>>
    /\ spinning = FALSE

Next == \/ \E p \in Frames : push(p) \/ erase(p)
        \/ pop

Spec == Init /\ [][Next]_vars

(***************************************************************************)
(* Properties                                                              *)
(***************************************************************************)
TypeOK ==
    /\ states \in [Frames -> 0 .. 2]
    /\ hand \in Frames
    /\ count \in Nat
    /\ spinning \in BOOLEAN

\* count, which pop trusts instead of the states, always equals the number of
\* frames held: push counts a frame only when it was not held and erase
\* uncounts it only when it was, so pop is never entered on an empty clock
\* and its first loop always meets a 1 within two sweeps.
PopReturns == ~spinning

\* Reference for pop: the frame evicted is the first frame in state 1 from
\* the hand round the circle, or, when no frame is in state 1, the first
\* frame held; the hand returned is the first frame in state 1 after the
\* evicted one, or PrefetchLoops - 1 frames further on when none is.
FirstFrom(h, S) ==
    (h + CHOOSE i \in 0 .. NumFrames - 1 :
                /\ (h + i) % NumFrames \in S
                /\ \A j \in 0 .. i - 1 : (h + j) % NumFrames \notin S) % NumFrames

RefVictim(st, h) ==
    LET ones == {p \in Frames : st[p] = 1}
        held == {p \in Frames : st[p] # 0}
    IN IF ones # {} THEN FirstFrom(h, ones) ELSE FirstFrom(h, held)

RefPrefetch(st, v) ==
    LET ones == {p \in Frames : st[p] = 1}
    IN IF ones # {} THEN FirstFrom(v, ones) ELSE (v + PrefetchLoops - 1) % NumFrames

\* Every pop returns the frame that second-chance order gives, and the
\* prefetch hint that the second loop of Clock::pop is meant to find.  (A
\* step pops when it returns a pair and takes a frame out; a step of a user
\* of the clock that makes no call leaves both alone.)
PopMatchesReference ==
    [][ret' # <<>> /\ count' = count - 1 =>
                      /\ ret'[1] = RefVictim(states, hand)
                      /\ ret'[2] = RefPrefetch(states', ret'[1])]_vars

\* The clock implements the replacement set the shard engine relies on:
\* the frames in a non-zero state are exactly the set it pushes to, erases
\* from and pops from.
Abs == INSTANCE ReplacementSet WITH members <- {p \in Frames : states[p] # 0},
                                    popped <- IF ret = <<>> THEN NoFrame ELSE ret[1]
ImplementsReplacementSet == Abs!Spec

=============================================================================
