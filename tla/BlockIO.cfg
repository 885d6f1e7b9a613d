CONSTANTS p1 = p1 p2 = p2 p3 = p3 n1 = n1 n2 = n2 n3 = n3 n4 = n4
          Procs = {p1, p2, p3} Blocks = {n1, n2, n3, n4} NBUF = 3 NUM = 8 MaxPinned = 1
SYMMETRY Interchangeable
SPECIFICATION Spec
INVARIANTS CacheSound DescriptorsOwned SleepersHaveWaker
CHECK_DEADLOCK FALSE
