---------------------------- MODULE RequestQueue ----------------------------
(***************************************************************************)
(* What the partition mailboxes promise the shared cache, and what module  *)
(* SharedShard assumes of its variable mbox: every client slot has a FIFO  *)
(* of requests; the client appends to it while it holds fewer than Cap     *)
(* requests (request() blocks otherwise), and the server thread takes the  *)
(* requests of a slot one at a time in the order they were appended, each  *)
(* exactly once, and dispatches it to the shard.  Module Mailbox refines   *)
(* this module.                                                            *)
(***************************************************************************)
EXTENDS Naturals, Sequences

CONSTANTS
    Slots,  \* client ids
    Reqs,   \* the requests a client may post
    Cap,    \* requests a slot holds before request() blocks
    NoReq   \* no request dispatched yet

VARIABLES
    queue,     \* queue[c]: the requests of slot c not yet taken by the server
    dispatched \* the request the server took last

Post(c, r) ==
    /\ Len(queue[c]) < Cap
    /\ queue' = [queue EXCEPT ![c] = Append(@, r)]
    /\ UNCHANGED dispatched

Take(c) ==
    /\ queue[c] # <<>>
    /\ dispatched' = Head(queue[c])
    /\ queue' = [queue EXCEPT ![c] = Tail(@)]

Init == /\ queue = [c \in Slots |-> <<>>]
        /\ dispatched = NoReq

Next == \E c \in Slots : Take(c) \/ \E r \in Reqs : Post(c, r)

Spec == Init /\ [][Next]_<<queue, dispatched>>

=============================================================================
