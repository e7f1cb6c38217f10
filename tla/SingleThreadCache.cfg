\* Two frames, three pages and three contexts in flight: a Pin that misses
\* evicts while the other contexts wait on the victim's or the new page's
\* busy entry.  The caller holds or asks for up to three pins, one more
\* than the frames, so a Pin can get EMPTY_PPAGE_ID.  PrefetchLoops = 4
\* stands for the 1024 of Clock::pop, as 3 = 1023 (mod 2).  No symmetry:
\* the run checks liveness.
CONSTANTS
    VPages = {0, 1, 2}
    NumFrames = 2
    Ctxs = {c1, c2, c3}
    MaxHeld = 3
    FlushWhilePinned = FALSE
    FlushAsync = FALSE
    PrefetchLoops = 4
    SweepBound = 4
    NoFrame = NoFrame
    NoPage = NoPage
    NoEntry = NoEntry
SPECIFICATION Spec
INVARIANTS
    TypeOK
    ReplacementExact
    MappingExact
    NoLostWrite
PROPERTIES
    PopMatchesReference
    ImplementsReplacementSet
    CallsReturn
