CONSTANTS NPROC = 3 NLOCK = 2 NCPU = 2 MaxEnergy = 1 Inited0 = TRUE
SPECIFICATION DemoSpec
INVARIANT OneHart
CHECK_DEADLOCK FALSE
