CONSTANTS NPROC = 2 NLOCK = 2 NCPU = 2 MaxEnergy = 0 Inited0 = TRUE
SPECIFICATION DemoSpec
INVARIANT DeadlockReported
CHECK_DEADLOCK FALSE
