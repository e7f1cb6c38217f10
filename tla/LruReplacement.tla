--------------------------- MODULE LruReplacement ---------------------------
(***************************************************************************)
(* class LRU of src/include/replacement.hpp, the other replacement policy  *)
(* a SingleThreadCache can be built with.  list is its std::list, front    *)
(* first; states[p], the iterator to p's node or list.end(), is the        *)
(* position of p in list or none, so it is not a variable of its own.      *)
(* push puts a new frame at the front and splices a held one there         *)
(* (access); pop takes the back and returns it with the new back, or 0,    *)
(* as the prefetch hint.  Each call is one atomic step of the one thread   *)
(* that owns the cache.                                                    *)
(***************************************************************************)
EXTENDS Naturals, Sequences, SequencesExt

CONSTANTS
    NumFrames,  \* max_ppage_id
    NoFrame     \* no frame popped by the last call

Frames == 0 .. NumFrames - 1

VARIABLES
    list,  \* LRU::list, front first
    ret    \* the pair returned by the last pop, <<>> after any other call

vars == <<list, ret>>

\* states[p] != list.end()
Held(p) == p \in ToSet(list)

\* the node states[p] points to
Pos(p) == CHOOSE i \in DOMAIN list : list[i] = p

\* LRU::access: list.splice(list.begin(), list, states[p])
access(p) == <<p>> \o RemoveAt(list, Pos(p))

\* LRU::push: a frame not held goes to the front, a held one is accessed
push(p) ==
    /\ list' = IF Held(p) THEN access(p) ELSE <<p>> \o list
    /\ ret' = <<>>

\* LRU::erase
erase(p) ==
    /\ list' = IF Held(p) THEN RemoveAt(list, Pos(p)) ELSE list
    /\ ret' = <<>>

\* Fault variant (for PopMatchesReference of SingleThreadCache): the victim is taken from the front
pop_front ==
    /\ list # <<>>
    /\ list' = Tail(list)
    /\ ret' = <<Head(list), IF Len(list) > 1 THEN list[2] ELSE 0>>

\* LRU::pop.  Its assert(list.size() > 0) is the caller's to keep: pop is
\* only entered on a list that is not empty.
pop ==
    /\ list # <<>>
    /\ list' = Front(list)
    /\ ret' = <<Last(list), IF Len(list) > 1 THEN list[Len(list) - 1] ELSE 0>>

Init == list = <<>> /\ ret = <<>>

Next == \/ \E p \in Frames : push(p) \/ erase(p)
        \/ pop

Spec == Init /\ [][Next]_vars

(***************************************************************************)
(* Properties                                                              *)
(***************************************************************************)
TypeOK == list \in Seq(Frames) /\ ret \in {<<>>} \cup (Frames \X Frames)

Popped == IF ret = <<>> THEN NoFrame ELSE ret[1]

\* The list implements the replacement set: its frames are the set pushed
\* to, erased from and popped from.
Abs == INSTANCE ReplacementSet WITH members <- ToSet(list), popped <- Popped
ImplementsReplacementSet == Abs!Spec

\* The list implements least-recently-used order: a frame nearer the back
\* was last pushed earlier, so pop returns the frame held whose last push
\* is the oldest (the front/back ends of emplace_front, splice and
\* pop_back agree).
\* <<p, q>>: p stands behind q in the list
Older == {<<list[e[2]], list[e[1]]>> : e \in {e \in (DOMAIN list) \X (DOMAIN list) : e[1] < e[2]}}
Recency == INSTANCE RecencyOrder WITH
    members <- ToSet(list),
    before <- Older,
    popped <- Popped
ImplementsRecencyOrder == Recency!Spec

=============================================================================
