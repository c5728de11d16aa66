\* Sync and fast_sync, one authenticate at a time, with failures of the state store (x99_get_last_auth, x99_set_failcount, x99_set_last_auth_pos, ...).
CONSTANTS
    Users = {alice}
    KnownUsers = {alice}
    CardCaps <- MC_CardCaps
    Req = {r1, r2, r3}
    Challenges = {c1}
    Seed = Seed
    Passcodes <- MC_Passcodes
    Wrong = Wrong
    ChalReq = ChalReq
    ResyncReq = ResyncReq
    NoPassword = NoPassword
    NoState = NoState
    NoUser = NoUser
    StoreFaults = TRUE
    Threads = 1
    MaxTime = 1
    ChalDelay = 1
    Softfail = 1
    Hardfail = 3
    AllowSync = TRUE
    AllowAsync = FALSE
    FastSync = TRUE
    EWindowSize = 1
    EWindow2Size = 2
    EWindow2Delay = 2
    MaxEWindowSize = 4
SPECIFICATION Spec
SYMMETRY MC_Symmetry
INVARIANT OtpAcceptedOnce
