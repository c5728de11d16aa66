\* A failed x99_set_last_auth_pos after a wrong softfail guess (line 802) lets a non-consecutive response through ewindow2.
CONSTANTS
    Users = {alice}
    KnownUsers = {alice}
    CardCaps <- MC_CardCaps
    Req = {r1, r2, r3, r4}
    Challenges = {c1}
    Seed = Seed
    Passcodes <- MC_Passcodes
    Wrong = Wrong
    ChalReq = ChalReq
    ResyncReq = ResyncReq
    NoPassword = NoPassword
    NoState = NoState
    NoUser = NoUser
    StoreFaults = TRUE
    Threads = 1
    MaxTime = 1
    ChalDelay = 1
    Softfail = 1
    Hardfail = 4
    AllowSync = TRUE
    AllowAsync = FALSE
    FastSync = TRUE
    EWindowSize = 1
    EWindow2Size = 2
    EWindow2Delay = 2
    MaxEWindowSize = 4
SPECIFICATION Spec
SYMMETRY MC_Symmetry
PROPERTY SoftfailNeedsConsecutive
