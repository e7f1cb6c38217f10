--------------------------- MODULE ReplacementSet ---------------------------
(***************************************************************************)
(* What a replacement policy of src/include/replacement.hpp promises the   *)
(* shard engine that uses it: it holds a set of frames; push adds a frame  *)
(* (or refreshes one it holds), erase forgets a frame if held, and pop,    *)
(* which may only be called while the set is not empty, removes and        *)
(* returns one of the frames it holds.  Which frame pop picks is the       *)
(* policy's business; Clock and LRU refine this module.                    *)
(***************************************************************************)
CONSTANTS Frames, NoFrame

VARIABLES
    members,  \* the frames the policy holds
    popped    \* the frame returned by the last call if it was a pop, else NoFrame

Push(p) == /\ members' = members \cup {p}
           /\ popped' = NoFrame

Erase(p) == /\ members' = members \ {p}
            /\ popped' = NoFrame

Pop == \E p \in members : /\ members' = members \ {p}
                          /\ popped' = p

Init == members = {} /\ popped = NoFrame

Next == \/ \E p \in Frames : Push(p) \/ Erase(p)
        \/ Pop

Spec == Init /\ [][Next]_<<members, popped>>

=============================================================================
