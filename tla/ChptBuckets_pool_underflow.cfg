\* One frame, so bucket_size 2 and a pool of one line; tags 0, 2 and 4
\* (pages 0, 4 and 8) all hash to bucket 0.
SPECIFICATION Spec
CONSTANTS
    c1 = c1
    c2 = c2
    Clients <- MC_Clients
    VPages = {0, 4, 8}
    NumFrames = 1
    SlotsPerLine = 2
    MaxRetry = 0
    PinnedDrift = 1
    NoLine = NoLine
    EmptyTag = EmptyTag
    NoPage = NoPage
    NoFrame = NoFrame
SYMMETRY ClientSymmetry
CHECK_DEADLOCK FALSE
INVARIANT NoPoolUnderflow
