\* Two threads run authenticate for one user at once (sync, fast_sync):
\* is one passcode accepted twice?
\* softfail is configured negative, which instantiate turns into the default of 5.
CONSTANTS
    Users = {alice}
    KnownUsers = {alice}
    CardCaps <- MC_CardCaps
    Req = {r1, r2, r3}
    Challenges = {c1}
    Seed = Seed
    Passcodes <- MC_Passcodes
    Wrong = Wrong
    ChalReq = ChalReq
    ResyncReq = ResyncReq
    NoPassword = NoPassword
    NoState = NoState
    NoUser = NoUser
    StoreFaults = FALSE
    Threads = 2
    MaxTime = 0
    ChalDelay = 1
    Softfail <- MC_NegativeFail
    Hardfail = 0
    AllowSync = TRUE
    AllowAsync = FALSE
    FastSync = TRUE
    EWindowSize = 1
    EWindow2Size = 0
    EWindow2Delay = 2
    MaxEWindowSize = 4
SPECIFICATION Spec
INVARIANT OtpAcceptedOnce
