\* Two frames; tags 0, 4 and 8 (pages 0, 1, 8 and 16) all hash to bucket 0,
\* so an overflow line can be recycled from one tag to another while a
\* client's walk stands on it; page 1 keeps the primary line tagged.
SPECIFICATION Spec
CONSTANTS
    c1 = c1
    c2 = c2
    Clients <- MC_Clients
    VPages = {0, 1, 8, 16}
    NumFrames = 2
    SlotsPerLine = 2
    MaxRetry = 0
    PinnedDrift = 1
    NoLine = NoLine
    EmptyTag = EmptyTag
    NoPage = NoPage
    NoFrame = NoFrame
SYMMETRY ClientSymmetry
CHECK_DEADLOCK FALSE
INVARIANT ReplacementExact
