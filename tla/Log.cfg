CONSTANTS Procs = {p1, p2, p3} Blocks = {1, 2} Values = {v0, v1} Torn = Torn
          LOGBLOCKS = 6 MAXOPBLOCKS = 3 OpBlocks = 2
SPECIFICATION Spec
INVARIANTS ReservationHolds WaitersHaveWaker
PROPERTY CrashAtomic
SYMMETRY ProcSymmetry
