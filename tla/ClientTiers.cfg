\* Three partitions of three private frames: the direct cache gets
\* nextPowerOf2(3*3)/4 = 4 slots.  Pages 0, 3, 6, 9 and 12 all live in
\* partition 0 (two more than its frames, so the sub-cache evicts) and
\* fall in slots 0, 3, 2, 1 and 0: 0 and 12 contend for slot 0, and four
\* slots can pin four pages of a partition that has three frames, so the
\* direct tier alone can fill it.  The user holds up to one pin, with which
\* two slots fill it too.  Either way the next access or pin there throws
\* "oom" (spec scenario S6) and the thread ends: a state with no successor
\* is the program stopping, not a deadlock.  Partition 0 stands for any:
\* the tiers treat partitions alike and pages of other partitions only
\* add states.
CONSTANTS
    VPages = {0, 3, 6, 9, 12}
    NumParts = 3
    NumLocal = 3
    NoPage = NoPage
    MaxUserPins = 1
    FlushWhilePinned = FALSE
SPECIFICATION Spec
INVARIANTS
    TypeOK
    TiersBalanced
    ReplacementExact
    DirtyReachesShared
    AccessOomOnlyWhenPinned
CHECK_DEADLOCK FALSE
