CONSTANTS NPROC = 2 PGSIZE = 2 SPAN = 2 USERSTACK = 1 MAXARG = 2 MaxCalls = 3
          FreePages <- MCFreePages
          Programs <- MCPrograms
          Grow <- MCGrow
SPECIFICATION Spec
INVARIANTS PagesSound MemorySound
CHECK_DEADLOCK FALSE
