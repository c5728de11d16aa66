\* One authentication at a time, the directory never failing: the
\* references od_check_passwd leaves open on its normal path.
CONSTANTS
    Req = {r1}
    alice = alice
    bob = bob
    carol = carol
    p1 = p1
    p2 = p2
    Names = {alice, bob, carol}
    NoName = NoName
    Passwords = {p1, p2}
    NoPassword = NoPassword
    Chap = Chap
    Records <- MC_Records
    NoRecord = NoRecord
    LocalUsers = {alice, bob}
    SaclMembers = {alice}
    NasMembers = {alice, carol}
    DirFaults = FALSE
SPECIFICATION Spec
INVARIANT NothingLeaked
