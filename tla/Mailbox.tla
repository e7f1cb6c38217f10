------------------------------- MODULE Mailbox -------------------------------
(***************************************************************************)
(* The message fabric between the client threads and one server thread of *)
(* the shared cache: PartitionClient (src/include/partition_client.hpp),   *)
(* the loop of PartitionServer::server_loop                                *)
(* (src/include/partition_server.hpp) and message_type                     *)
(* (src/include/partition_type.hpp) in the default build: two cache lines  *)
(* per (server, client) pair, USING_SINGLE_CACHELINE = false,              *)
(* USING_FIBER_ASYNC_RESPONSE = true, no pre-processing pass and no timer  *)
(* fiber.                                                                  *)
(*                                                                         *)
(* A client slot (cid) is lent to one thread at a time.  The thread batches*)
(* up to MaxComms requests in its local message; submit_message flips the  *)
(* slot's toggle and copies the message to the request line, the body      *)
(* first and the 8-byte header last.  The server dispatches a batch whose  *)
(* header toggle differs from its own, one request per step, then flips    *)
(* its toggle and copies its response message back, again body first.  A  *)
(* Pin that waits for I/O is answered later by the server's async fiber,   *)
(* which writes the pointer straight into the pinning thread's resp().     *)
(* When the thread ends, ~PartitionClient flushes the slot and saves its   *)
(* toggle for the next thread that gets the cid.                           *)
(*                                                                         *)
(* The shard itself is abstracted: a Pin is answered with the pointer of   *)
(* its own request, either at once or through the async fiber; the         *)
(* notifications are answered with the pointer 1.                          *)
(***************************************************************************)
EXTENDS Naturals, Sequences, FiniteSets

CONSTANTS
    Slots,     \* client ids of the server's client_id_pool
    MaxComms,  \* message_type::MAX_COMMS
    MaxReqs,   \* bound on the requests posted on one slot
    NoSlot,    \* the server is between two mailboxes
    NoReq,     \* a request entry left zero by memset
    Null,      \* nullptr
    One        \* pointer 1, the answer to a notification

ASSUME MaxComms \in Nat \ {0} /\ MaxReqs \in Nat \ {0}

Idx == 1 .. MaxComms
\* Pin carries &resp(); NotifyDirectPin and NotifyDirectUnpin carry nullptr
Reqs == [type : {"Pin", "Notify"}, c : Slots, n : 1 .. MaxReqs]
\* the pointer answering a Pin is the request itself
Answers == Reqs \cup {Null, One}

VARIABLES
    \* client side, per slot
    pc,         \* "free" (cid in the pool), "idle", "pinwait" (SharedCache::pin), "leave" (~PartitionClient)
    lmsg,       \* local_message_pool[sid].reqs
    nreq,       \* local_message_statuses[sid].num_requests
    ctog,       \* toggles[sid]
    processing, \* local_message_processing[sid]
    pub,        \* submit_message has copied the body, the header store is pending
    epoch,      \* epoches[sid]
    mine,       \* the epoch request() returned to the waiting pin
    resp,       \* resp() of the waiting pin
    saved,      \* server.client_toggles[cid * MAX_THREADS + sid]
    sent,       \* requests posted on the slot so far (request numbering)
    \* shared cache lines, per slot
    reqHdr, reqBody,   \* server.requests[sid][cid]
    respHdr, respBody, \* server.responses[sid][cid]
    \* server thread
    stog,       \* toggles[cid] of server_loop
    rmsg,       \* resp_messages[cid].resps
    spc,        \* "scan", "proc" (dispatching a batch), "publish" (header store pending)
    scur,       \* the cid whose batch is being handled
    sidx,       \* index of the next request of the batch
    snum,       \* num_comm of the batch
    async,      \* Pins handed to the async fiber
    dispatched  \* the request last passed to first_process_func

clientVars == <<pc, lmsg, nreq, ctog, processing, pub, epoch, mine, resp, saved, sent>>
serverVars == <<stog, rmsg, spc, scur, sidx, snum, async, dispatched>>
vars == <<clientVars, reqHdr, reqBody, respHdr, respBody, serverVars>>

EmptyMsg == [i \in Idx |-> NoReq]
Toggle(b) == 1 - b

(***************************************************************************)
(* Client                                                                  *)
(***************************************************************************)
\* Fault variant (for ImplementsRequestQueue): the constructor does not
\* restore the saved toggle and starts from the zeroed toggles()
Join_nosaved(c) ==
    /\ pc[c] = "free"
    /\ pc' = [pc EXCEPT ![c] = "idle"]
    /\ ctog' = [ctog EXCEPT ![c] = 0]
    /\ lmsg' = [lmsg EXCEPT ![c] = EmptyMsg]
    /\ nreq' = [nreq EXCEPT ![c] = 0]
    /\ processing' = [processing EXCEPT ![c] = FALSE]
    /\ epoch' = [epoch EXCEPT ![c] = 1]
    /\ UNCHANGED <<pub, mine, resp, saved, sent, reqHdr, reqBody, respHdr, respBody, serverVars>>

\* The constructor: pop a free cid, restore its toggle, zero the local message
Join(c) ==
    /\ pc[c] = "free"
    /\ pc' = [pc EXCEPT ![c] = "idle"]
    /\ ctog' = [ctog EXCEPT ![c] = saved[c]]
    /\ lmsg' = [lmsg EXCEPT ![c] = EmptyMsg]
    /\ nreq' = [nreq EXCEPT ![c] = 0]
    /\ processing' = [processing EXCEPT ![c] = FALSE]
    /\ epoch' = [epoch EXCEPT ![c] = 1]
    /\ UNCHANGED <<pub, mine, resp, saved, sent, reqHdr, reqBody, respHdr, respBody, serverVars>>

\* submit_message after its poll_message, of the local message m holding
\* k requests: an empty batch is not sent; otherwise flip the toggle, mark
\* the batch in flight and copy the body (l[1..] of operator=); the header
\* store l[0] is Publish
SubmitMessage(c, m, k) ==
    IF k = 0
      THEN UNCHANGED <<ctog, processing, pub, epoch, reqBody>>
      ELSE /\ ctog' = [ctog EXCEPT ![c] = Toggle(@)]
           /\ processing' = [processing EXCEPT ![c] = TRUE]
           /\ pub' = [pub EXCEPT ![c] = TRUE]
           /\ reqBody' = [reqBody EXCEPT ![c] = m]
           /\ epoch' = [epoch EXCEPT ![c] = @ + 1]

\* the store of the header, behind the save_fence
Publish(c) ==
    /\ pub[c]
    /\ reqHdr' = [reqHdr EXCEPT ![c] = [toggle |-> ctog[c], num |-> nreq[c]]]
    /\ pub' = [pub EXCEPT ![c] = FALSE]
    /\ UNCHANGED <<pc, lmsg, nreq, ctog, processing, epoch, mine, resp, saved, sent,
                   reqBody, respHdr, respBody, serverVars>>

\* Fault variant (for TypeOK): a batch is submitted only once it holds
\* more than MAX_COMMS requests
Request_late(c, type) ==
    /\ pc[c] = IF type = "Pin" THEN "pinreq" ELSE "idle"
    /\ ~processing[c] /\ ~pub[c]
    /\ sent[c] < MaxReqs
    /\ LET r == [type |-> type, c |-> c, n |-> sent[c] + 1]
           m == [lmsg[c] EXCEPT ![nreq[c] + 1] = r]
       IN /\ lmsg' = [lmsg EXCEPT ![c] = m]
          /\ nreq' = [nreq EXCEPT ![c] = @ + 1]
          /\ sent' = [sent EXCEPT ![c] = @ + 1]
          /\ IF nreq[c] + 1 > MaxComms
               THEN SubmitMessage(c, m, nreq[c] + 1)
               ELSE UNCHANGED <<ctog, processing, pub, epoch, reqBody>>
          /\ IF type = "Pin"
               THEN /\ pc' = [pc EXCEPT ![c] = "pinwait"]
                    /\ mine' = [mine EXCEPT ![c] = epoch[c]]
               ELSE UNCHANGED <<pc, mine>>
    /\ UNCHANGED <<resp, saved, reqHdr, respHdr, respBody, serverVars>>

\* SharedCache::pin on a miss: resp() = {nullptr} on the stack, then request()
StartPin(c) ==
    /\ pc[c] = "idle"
    /\ sent[c] < MaxReqs
    /\ pc' = [pc EXCEPT ![c] = "pinreq"]
    /\ resp' = [resp EXCEPT ![c] = Null]
    /\ UNCHANGED <<lmsg, nreq, ctog, processing, pub, epoch, mine, saved, sent,
                   reqHdr, reqBody, respHdr, respBody, serverVars>>

\* request(sid, req, resps): once poll_message finds no batch in flight,
\* append the request and submit a full batch.  SharedCache::pin then waits
\* for resp(); the notifications of the fast paths return at once.
Request(c, type) ==
    /\ pc[c] = IF type = "Pin" THEN "pinreq" ELSE "idle"
    /\ ~processing[c] /\ ~pub[c]
    /\ sent[c] < MaxReqs
    /\ LET r == [type |-> type, c |-> c, n |-> sent[c] + 1]
           m == [lmsg[c] EXCEPT ![nreq[c] + 1] = r]
       IN /\ lmsg' = [lmsg EXCEPT ![c] = m]
          /\ nreq' = [nreq EXCEPT ![c] = @ + 1]
          /\ sent' = [sent EXCEPT ![c] = @ + 1]
          /\ IF nreq[c] + 1 = MaxComms
               THEN SubmitMessage(c, m, nreq[c] + 1)
               ELSE UNCHANGED <<ctog, processing, pub, epoch, reqBody>>
          /\ IF type = "Pin"
               THEN /\ pc' = [pc EXCEPT ![c] = "pinwait"]
                    /\ mine' = [mine EXCEPT ![c] = epoch[c]]
               ELSE UNCHANGED <<pc, mine>>
    /\ UNCHANGED <<resp, saved, reqHdr, respHdr, respBody, serverVars>>

\* status.responses[i] is set: the i-th request of the batch is a Pin
WantsResp(c, i) == i <= nreq[c] /\ lmsg[c][i] \in Reqs /\ lmsg[c][i].type = "Pin"

\* Fault variant (for CallsReturn): process_message resets the status but
\* not local_message_processing[sid]
Poll_keepflag(c) ==
    /\ pc[c] # "free"
    /\ pc[c] = "pinwait" => resp[c] = Null
    /\ processing[c] /\ ~pub[c]
    /\ respHdr[c].toggle = ctog[c]
    /\ LET copied == {i \in 1 .. respHdr[c].num :
                         WantsResp(c, i) /\ respBody[c][i] # Null}
       IN resp' = IF copied = {} THEN resp
                  ELSE [resp EXCEPT ![c] = respBody[c][CHOOSE i \in copied :
                                                       \A j \in copied : j <= i]]
    /\ nreq' = [nreq EXCEPT ![c] = 0]
    /\ UNCHANGED <<pc, lmsg, ctog, processing, pub, epoch, mine, saved, sent,
                   reqHdr, reqBody, respHdr, respBody, serverVars>>

\* process_message, in the poll loops of request, the pin wait, wait() and
\* progress(): once the response line carries the slot's toggle, copy every
\* non-null answer to the response object of its request, reset the status
\* and end the batch
Poll(c) ==
    /\ pc[c] # "free"
    /\ pc[c] = "pinwait" => resp[c] = Null
    /\ processing[c] /\ ~pub[c]
    /\ respHdr[c].toggle = ctog[c]
    /\ LET copied == {i \in 1 .. respHdr[c].num :
                         WantsResp(c, i) /\ respBody[c][i] # Null}
       IN resp' = IF copied = {} THEN resp
                  ELSE [resp EXCEPT ![c] = respBody[c][CHOOSE i \in copied :
                                                       \A j \in copied : j <= i]]
    /\ nreq' = [nreq EXCEPT ![c] = 0]
    /\ processing' = [processing EXCEPT ![c] = FALSE]
    /\ UNCHANGED <<pc, lmsg, ctog, pub, epoch, mine, saved, sent,
                   reqHdr, reqBody, respHdr, respBody, serverVars>>

\* the wait loop of SharedCache::pin: poll_message(sid, epoch) submits the
\* batch holding the Pin while epoches[sid] <= epoch, then polls
PinSubmit(c) ==
    /\ pc[c] = "pinwait" /\ resp[c] = Null
    /\ ~processing[c] /\ ~pub[c]
    /\ epoch[c] <= mine[c]
    /\ SubmitMessage(c, lmsg[c], nreq[c])
    /\ UNCHANGED <<pc, lmsg, nreq, mine, resp, saved, sent, reqHdr, respHdr, respBody, serverVars>>

\* the pin returns the pointer in resp()
PinDone(c) ==
    /\ pc[c] = "pinwait" /\ resp[c] # Null
    /\ pc' = [pc EXCEPT ![c] = "idle"]
    /\ UNCHANGED <<lmsg, nreq, ctog, processing, pub, epoch, mine, resp, saved, sent,
                   reqHdr, reqBody, respHdr, respBody, serverVars>>

\* ~PartitionClient: wait() is submit_message then poll_message on the slot
StartLeave(c) ==
    /\ pc[c] = "idle"
    /\ pc' = [pc EXCEPT ![c] = "leave"]
    /\ UNCHANGED <<lmsg, nreq, ctog, processing, pub, epoch, mine, resp, saved, sent,
                   reqHdr, reqBody, respHdr, respBody, serverVars>>

LeaveSubmit(c) ==
    /\ pc[c] = "leave"
    /\ ~processing[c] /\ ~pub[c]
    /\ SubmitMessage(c, lmsg[c], nreq[c])
    /\ pc' = [pc EXCEPT ![c] = "leavewait"]
    /\ UNCHANGED <<lmsg, nreq, mine, resp, saved, sent, reqHdr, respHdr, respBody, serverVars>>

\* the toggle is saved to client_toggles and the cid pushed back to the pool
LeaveDone(c) ==
    /\ pc[c] = "leavewait"
    /\ ~processing[c] /\ ~pub[c]
    /\ saved' = [saved EXCEPT ![c] = ctog[c]]
    /\ pc' = [pc EXCEPT ![c] = "free"]
    /\ UNCHANGED <<lmsg, nreq, ctog, processing, pub, epoch, mine, resp, sent,
                   reqHdr, reqBody, respHdr, respBody, serverVars>>

(***************************************************************************)
(* Server thread                                                           *)
(***************************************************************************)
\* the process pass finds a request line whose toggle differs from its own
ServerVisit(c) ==
    /\ spc = "scan"
    /\ reqHdr[c].toggle # stog[c]
    /\ spc' = "proc"
    /\ scur' = c
    /\ sidx' = 1
    /\ snum' = reqHdr[c].num
    /\ UNCHANGED <<clientVars, reqHdr, reqBody, respHdr, respBody, stog, rmsg, async, dispatched>>

\* Fault variant (for AnswerIsOwn): a Pin handed to the async fiber leaves
\* resps[i] as the previous batch left it
ServerDispatch_stale ==
    /\ spc = "proc"
    /\ sidx <= snum
    /\ LET r == reqBody[scur][sidx]
       IN /\ dispatched' = r
          /\ \/ /\ r \in Reqs /\ r.type = "Pin"
                /\ UNCHANGED rmsg
                /\ async' = async \cup {r}
             \/ /\ rmsg' = [rmsg EXCEPT ![scur][sidx] =
                              IF r \notin Reqs THEN Null
                              ELSE IF r.type = "Pin" THEN r ELSE One]
                /\ UNCHANGED async
    /\ sidx' = sidx + 1
    /\ UNCHANGED <<clientVars, reqHdr, reqBody, respHdr, respBody, stog, spc, scur, snum>>

\* first_process_func on message.reqs[i], read from the request line: it
\* first sets resps[i] = nullptr; a notification is answered with pointer 1; a
\* Pin either ends at once with its pointer or is handed to the async fiber
\* with resps[i] left null.  A zeroed entry (type None) is answered nullptr.
ServerDispatch ==
    /\ spc = "proc"
    /\ sidx <= snum
    /\ LET r == reqBody[scur][sidx]
       IN /\ dispatched' = r
          /\ \/ /\ r \in Reqs /\ r.type = "Pin"
                /\ rmsg' = [rmsg EXCEPT ![scur][sidx] = Null]
                /\ async' = async \cup {r}
             \/ /\ rmsg' = [rmsg EXCEPT ![scur][sidx] =
                              IF r \notin Reqs THEN Null
                              ELSE IF r.type = "Pin" THEN r ELSE One]
                /\ UNCHANGED async
    /\ sidx' = sidx + 1
    /\ UNCHANGED <<clientVars, reqHdr, reqBody, respHdr, respBody, stog, spc, scur, snum>>

\* send_response: flip the server's toggle and copy the body of
\* resp_messages[cid] to the response line
ServerRespond ==
    /\ spc = "proc"
    /\ sidx > snum
    /\ stog' = [stog EXCEPT ![scur] = Toggle(@)]
    /\ respBody' = [respBody EXCEPT ![scur] = rmsg[scur]]
    /\ spc' = "publish"
    /\ UNCHANGED <<clientVars, reqHdr, reqBody, respHdr, rmsg, scur, sidx, snum, async, dispatched>>

\* the header store of the response copy, behind the save_fence
ServerPublish ==
    /\ spc = "publish"
    /\ respHdr' = [respHdr EXCEPT ![scur] = [toggle |-> stog[scur], num |-> snum]]
    /\ spc' = "scan"
    /\ scur' = NoSlot
    /\ sidx' = 0
    /\ snum' = 0
    /\ UNCHANGED <<clientVars, reqHdr, reqBody, respBody, stog, rmsg, async, dispatched>>

\* the async fiber, run when the server yields between two passes,
\* finishes a Pin and writes req.resp->pointer
AsyncAnswer(r) ==
    /\ spc = "scan"
    /\ r \in async
    /\ resp' = [resp EXCEPT ![r.c] = r]
    /\ async' = async \ {r}
    /\ UNCHANGED <<pc, lmsg, nreq, ctog, processing, pub, epoch, mine, saved, sent,
                   reqHdr, reqBody, respHdr, respBody,
                   stog, rmsg, spc, scur, sidx, snum, dispatched>>

Init ==
    /\ pc = [c \in Slots |-> "free"]
    /\ lmsg = [c \in Slots |-> EmptyMsg]
    /\ nreq = [c \in Slots |-> 0]
    /\ ctog = [c \in Slots |-> 0]
    /\ processing = [c \in Slots |-> FALSE]
    /\ pub = [c \in Slots |-> FALSE]
    /\ epoch = [c \in Slots |-> 1]
    /\ mine = [c \in Slots |-> 0]
    /\ resp = [c \in Slots |-> Null]
    /\ saved = [c \in Slots |-> 0]
    /\ sent = [c \in Slots |-> 0]
    /\ reqHdr = [c \in Slots |-> [toggle |-> 0, num |-> 0]]
    /\ reqBody = [c \in Slots |-> EmptyMsg]
    /\ respHdr = [c \in Slots |-> [toggle |-> 0, num |-> 0]]
    /\ respBody = [c \in Slots |-> [i \in Idx |-> Null]]
    /\ stog = [c \in Slots |-> 0]
    /\ rmsg = [c \in Slots |-> [i \in Idx |-> Null]]
    /\ spc = "scan"
    /\ scur = NoSlot
    /\ sidx = 0
    /\ snum = 0
    /\ async = {}
    /\ dispatched = NoReq

ClientStep(c) ==
    \/ Join(c) \/ StartPin(c) \/ Request(c, "Pin") \/ Request(c, "Notify")
    \/ Publish(c) \/ Poll(c) \/ PinSubmit(c) \/ PinDone(c)
    \/ StartLeave(c) \/ LeaveSubmit(c) \/ LeaveDone(c)

Next ==
    \/ \E c \in Slots : ClientStep(c) \/ ServerVisit(c)
    \/ ServerDispatch \/ ServerRespond \/ ServerPublish
    \/ \E r \in async : AsyncAnswer(r)

\* A client thread inside a call runs on: the poll loops of request(), of
\* the pin wait and of wait(), and the two stores of a copy.  Whether an
\* idle thread ever posts, pins, calls progress() or ends is up to the
\* application, so Join, StartPin, a notification, StartLeave and a
\* progress() poll carry no fairness.
InCall(c) ==
    \/ Publish(c) \/ Request(c, "Pin") \/ (pc[c] # "idle" /\ Poll(c))
    \/ PinSubmit(c) \/ PinDone(c) \/ LeaveSubmit(c) \/ LeaveDone(c)

\* The server thread never blocks and each pass visits every request line;
\* the async fiber runs at every yield of a pass that has requests pending.
Fairness ==
    /\ \A c \in Slots : WF_vars(InCall(c)) /\ WF_vars(ServerVisit(c))
    /\ WF_vars(ServerDispatch \/ ServerRespond \/ ServerPublish)
    /\ SF_vars(\E r \in async : AsyncAnswer(r))

Spec == Init /\ [][Next]_vars /\ Fairness

(***************************************************************************)
(* Properties                                                              *)
(***************************************************************************)
Header == [toggle : {0, 1}, num : 0 .. MaxComms]

TypeOK ==
    /\ pc \in [Slots -> {"free", "idle", "pinreq", "pinwait", "leave", "leavewait"}]
    /\ lmsg \in [Slots -> [Idx -> Reqs \cup {NoReq}]]
    /\ nreq \in [Slots -> 0 .. MaxComms]
    /\ ctog \in [Slots -> {0, 1}] /\ stog \in [Slots -> {0, 1}] /\ saved \in [Slots -> {0, 1}]
    /\ processing \in [Slots -> BOOLEAN] /\ pub \in [Slots -> BOOLEAN]
    /\ resp \in [Slots -> Answers]
    /\ reqHdr \in [Slots -> Header] /\ respHdr \in [Slots -> Header]
    /\ reqBody \in [Slots -> [Idx -> Reqs \cup {NoReq}]]
    /\ respBody \in [Slots -> [Idx -> Answers]] /\ rmsg \in [Slots -> [Idx -> Answers]]
    /\ spc \in {"scan", "proc", "publish"} /\ scur \in Slots \cup {NoSlot}
    /\ async \subseteq Reqs /\ dispatched \in Reqs \cup {NoReq}

\* The requests of slot c that the server has not taken yet: the local
\* batch until the server starts on it, its rest while the server
\* dispatches it, nothing once the server has flipped its toggle to the
\* client's.
Local(c) == [i \in 1 .. nreq[c] |-> lmsg[c][i]]
Queue(c) ==
    IF ~processing[c] THEN Local(c)
    ELSE IF scur = c /\ spc = "proc" THEN SubSeq(Local(c), sidx, nreq[c])
    ELSE IF stog[c] = ctog[c] THEN <<>>
    ELSE Local(c)

\* The toggle protocol, with its split stores, its async answers and the
\* reuse of a cid by a later thread with the saved toggle, implements
\* per-slot FIFO mailboxes: the server dispatches every posted request
\* exactly once, in the order the slot posted them, and a thread never
\* posts while its slot holds MaxComms requests.
RQ == INSTANCE RequestQueue WITH Cap <- MaxComms,
                                 queue <- [c \in Slots |-> Queue(c)]
ImplementsRequestQueue == RQ!Spec

\* The pin being made on a slot: the one about to be posted, or the last
\* request the slot posted.
OwnPin(c) == [type |-> "Pin", c |-> c,
              n |-> IF pc[c] = "pinreq" THEN sent[c] + 1 ELSE sent[c]]

\* A waiting SharedCache::pin only ever finds in resp() the pointer of its
\* own Pin: no late copy of an earlier batch's answer (process_message
\* writes through status.responses, which may point to the stack slot of
\* an earlier pin) and no stale entry of resp_messages reaches it.
AnswerIsOwn ==
    \A c \in Slots : pc[c] \in {"pinreq", "pinwait"} => resp[c] \in {Null, OwnPin(c)}

\* A pin that misses, and the destructor's wait(), return: the batch holding
\* the Pin is submitted and the answer reaches resp(), whether it comes
\* with the response copy or from the async fiber.
CallsReturn ==
    \A c \in Slots : pc[c] \in {"pinreq", "pinwait", "leave", "leavewait"}
                         ~> pc[c] \in {"idle", "free"}

\* Every request a slot posts is eventually dispatched by the server
\* (spec section 4.4: a batch is published when it is full or the caller
\* polls).
RequestsTaken ==
    \A c \in Slots, n \in 1 .. MaxReqs :
        sent[c] >= n ~> sent[c] - Len(Queue(c)) >= n

=============================================================================
