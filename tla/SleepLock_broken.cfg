CONSTANTS NPROC = 2 NLOCK = 2 NCPU = 2 MaxEnergy = 1 Inited0 = TRUE
SPECIFICATION DemoFairSpec
PROPERTY DeadlockBroken
CHECK_DEADLOCK FALSE
