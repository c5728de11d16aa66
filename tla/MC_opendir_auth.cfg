\* Two requests, each an od_authenticate or an od_authorize call, with
\* every DS and membership call allowed to fail.
CONSTANTS
    Req = {r1, r2}
    alice = alice
    bob = bob
    carol = carol
    p1 = p1
    p2 = p2
    Names = {alice, bob, carol}
    NoName = NoName
    Passwords = {p1, p2}
    NoPassword = NoPassword
    Chap = Chap
    Records <- MC_Records
    NoRecord = NoRecord
    LocalUsers = {alice, bob}
    SaclMembers = {alice}
    NasMembers = {alice, carol}
    DirFaults = TRUE
SPECIFICATION Spec
SYMMETRY MC_Symmetry
INVARIANT TypeOK
PROPERTY AuthenticateMeetsContract
INVARIANT AuthorizeNeedsAccess
