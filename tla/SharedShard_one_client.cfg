CONSTANTS
    c1 = c1
    c2 = c2
    v1 = v1
    v2 = v2
    v3 = v3
    Clients <- MC_Clients1
    VPages <- MC_VPages3
    NumFrames = 2
    MaxHeld = 3
    MailboxCap = 3
    MaxVersion = 2
    MaxRetry = 1
    NoPage = NoPage
    NoFrame = NoFrame
    EmptyPointer = EmptyPointer
    NoResp = NoResp
SPECIFICATION Spec
INVARIANT DataCoherent
PROPERTY PinReturns
