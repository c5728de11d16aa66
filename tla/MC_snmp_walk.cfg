SPECIFICATION Spec
CONSTANTS
    Clients <- MC_ClientsInet
    MaxWalk <- MC_MaxWalk
    MaxReloads = 1
    MaxTime = 0
INVARIANT WalkAgreesWithGet
