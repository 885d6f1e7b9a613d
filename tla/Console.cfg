CONSTANTS p1 = p1 p2 = p2
          Procs = {p1, p2} INPUT_BUF_SIZE = 2 WRAP = 4 RXFIFO = 1 TXFIFO = 3 MaxBytes = 2
SYMMETRY Interchangeable
SPECIFICATION Spec
INVARIANTS NothingOverrun SleepersWoken
PROPERTY EditsLines
