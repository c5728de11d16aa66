SPECIFICATION Spec
CONSTANTS
    Clients <- MC_Clients
    MaxWalk <- MC_MaxWalk
    MaxReloads = 2
    MaxTime = 1
INVARIANT TypeOK
INVARIANT MibsRegisteredOnce
PROPERTY WalkTerminates
PROPERTY UptimeNeverDecreases
