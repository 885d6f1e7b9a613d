CONSTANTS NPROC = 3 MaxPid = 5
SPECIFICATION FairSpec
INVARIANTS NoLostExit ParentLives FreedOffStack KilledIsMeant
PROPERTY OrphansReaped
