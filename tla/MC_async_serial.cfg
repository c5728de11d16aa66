\* Async and sync with fast_sync, one authenticate at a time; forged and
\* expired State attributes; softfail, hardfail and ewindow2 all set.
CONSTANTS
    Users = {alice}
    KnownUsers = {alice}
    CardCaps <- MC_CardCaps
    Req = {r1, r2, r3}
    Challenges = {c1, c2}
    Seed = Seed
    Passcodes <- MC_Passcodes
    Wrong = Wrong
    ChalReq = ChalReq
    ResyncReq = ResyncReq
    NoPassword = NoPassword
    NoState = NoState
    NoUser = NoUser
    StoreFaults = FALSE
    Threads = 1
    MaxTime = 3
    ChalDelay = 1
    Softfail = 1
    Hardfail = 2
    AllowSync = TRUE
    AllowAsync = TRUE
    FastSync = TRUE
    EWindowSize = 1
    EWindow2Size = 2
    EWindow2Delay = 2
    MaxEWindowSize = 4
SPECIFICATION Spec
SYMMETRY MC_Symmetry
INVARIANT TypeOK
INVARIANT GuessBound
PROPERTY AsyncStateAuthentic
PROPERTY SoftfailNeedsConsecutive
