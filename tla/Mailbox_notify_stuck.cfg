\* One slot, two requests: a thread that posts a notification on the fast
\* path and then makes no other call on the slot.
SPECIFICATION Spec
CONSTANTS
    Slots = {s1}
    MaxComms = 3
    MaxReqs = 2
    NoSlot = NoSlot
    NoReq = NoReq
    Null = Null
    One = One
PROPERTIES RequestsTaken
