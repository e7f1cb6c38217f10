\* Two client slots of one server thread with batches of two requests and
\* two requests per slot, so that a slot's batch is submitted by filling
\* up or by the pin wait, the server serves one slot while the other
\* posts, and a thread ends and another takes its cid with the saved
\* toggle.  No symmetry: the run checks liveness.
SPECIFICATION Spec
CONSTANTS
    Slots = {s1, s2}
    MaxComms = 2
    MaxReqs = 2
    NoSlot = NoSlot
    NoReq = NoReq
    Null = Null
    One = One
INVARIANTS AnswerIsOwn
PROPERTIES ImplementsRequestQueue CallsReturn
