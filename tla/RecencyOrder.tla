---------------------------- MODULE RecencyOrder ----------------------------
(***************************************************************************)
(* What a least-recently-used policy promises, stated without a list: it   *)
(* holds a set of frames and knows, for every two of them, which one was   *)
(* pushed (or pushed again) earlier.  push makes a frame the newest, erase *)
(* forgets a frame, and pop removes and returns the frame held that is     *)
(* older than every other frame held.  It refines ReplacementSet; class    *)
(* LRU of src/include/replacement.hpp refines it.                          *)
(***************************************************************************)
CONSTANTS Frames, NoFrame

VARIABLES
    members,  \* the frames held
    before,   \* <<p, q>> \in before: p was last pushed before q was
    popped    \* the frame returned by the last call if it was a pop, else NoFrame

\* the order with frame p left out
Forget(p) == {e \in before : e[1] # p /\ e[2] # p}

Push(p) == /\ members' = members \cup {p}
           /\ before' = Forget(p) \cup {<<q, p>> : q \in members \ {p}}
           /\ popped' = NoFrame

Erase(p) == /\ members' = members \ {p}
            /\ before' = Forget(p)
            /\ popped' = NoFrame

Oldest(p) == \A q \in members \ {p} : <<p, q>> \in before

Pop == \E p \in members : /\ Oldest(p)
                          /\ members' = members \ {p}
                          /\ before' = Forget(p)
                          /\ popped' = p

Init == members = {} /\ before = {} /\ popped = NoFrame

Next == \/ \E p \in Frames : Push(p) \/ Erase(p)
        \/ Pop

Spec == Init /\ [][Next]_<<members, before, popped>>

=============================================================================
