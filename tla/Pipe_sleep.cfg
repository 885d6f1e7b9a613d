CONSTANTS Writers = {1} Readers = {2} Bytes = {a, b} PIPESIZE = 2 N = 1 UINT = 4
          StoresReorder = FALSE
SPECIFICATION Spec
INVARIANT SleepWorks
CHECK_DEADLOCK FALSE
