\* Async challenges, one authenticate at a time: is a response to one
\* State attribute ever accepted twice?
\* hardfail is configured negative, which instantiate turns into 0 (no hard lock).
CONSTANTS
    Users = {alice}
    KnownUsers = {alice}
    CardCaps <- MC_CardCaps
    Req = {r1, r2, r3}
    Challenges = {c1}
    Seed = Seed
    Passcodes <- MC_Passcodes
    Wrong = Wrong
    ChalReq = ChalReq
    ResyncReq = ResyncReq
    NoPassword = NoPassword
    NoState = NoState
    NoUser = NoUser
    StoreFaults = FALSE
    Threads = 1
    MaxTime = 2
    ChalDelay = 1
    Softfail = 0
    Hardfail <- MC_NegativeFail
    AllowSync = TRUE
    AllowAsync = TRUE
    FastSync = TRUE
    EWindowSize = 1
    EWindow2Size = 0
    EWindow2Delay = 2
    MaxEWindowSize = 4
SPECIFICATION Spec
INVARIANT OtpAcceptedOnce
