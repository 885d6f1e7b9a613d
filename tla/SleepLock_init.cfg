CONSTANTS NPROC = 2 NLOCK = 2 NCPU = 1 MaxEnergy = 0 Inited0 = FALSE
SPECIFICATION Spec
PROPERTY OnlyHolderReleases
CHECK_DEADLOCK FALSE
