CONSTANTS NPROC = 2 NLOCK = 2 NCPU = 2 MaxEnergy = 1 Inited0 = FALSE
SPECIFICATION FirstUseFairSpec
INVARIANTS NoLostWakeup RecoverySound
PROPERTIES LockProgress
CHECK_DEADLOCK FALSE
