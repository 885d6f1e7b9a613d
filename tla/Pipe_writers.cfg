CONSTANTS Writers = {1, 3} Readers = {2} Bytes = {a} PIPESIZE = 2 N = 1 UINT = 4
          StoresReorder = FALSE
SPECIFICATION Spec
INVARIANT Mutex
CHECK_DEADLOCK FALSE
