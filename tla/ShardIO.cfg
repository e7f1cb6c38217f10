\* One shard with two frames, three pages and two Pin requests in flight,
\* over an AIO backend of depth 1 (so the second submission finds no idle
\* iocb and retries) and a freshly created file.
CONSTANTS
    r1 = r1  r2 = r2  v1 = v1  v2 = v2  v3 = v3  i1 = i1
    Reqs <- MC_Reqs
    Pages <- MC_Pages
    Iocbs <- MC_Iocbs1
    NumFrames = 2
    MaxVersion = 1
    FreshFile = TRUE
    Old = Old
    NoPage = NoPage
    NoFrame = NoFrame
    NoReq = NoReq
    NoPin = NoPin
SPECIFICATION Spec
INVARIANTS TypeOK PinSeesLatest IoMatchesWaiters
PROPERTIES PinsComplete
