CONSTANTS
    c1 = c1
    c2 = c2
    v1 = v1
    v2 = v2
    v3 = v3
    Clients <- MC_Clients2
    VPages <- MC_VPages2
    NumFrames = 1
    MaxHeld = 1
    MailboxCap = 3
    MaxVersion = 1
    MaxRetry = 1
    NoPage = NoPage
    NoFrame = NoFrame
    EmptyPointer = EmptyPointer
    NoResp = NoResp
SPECIFICATION Spec
SYMMETRY Symmetry




INVARIANT DataCoherent
