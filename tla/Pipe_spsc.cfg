CONSTANTS Writers = {1} Readers = {2} Bytes = {a, b} PIPESIZE = 2 N = 2 UINT = 4
          StoresReorder = FALSE
SPECIFICATION Spec
INVARIANTS Mutex NoUseAfterFree
PROPERTIES ImplementsFifo NoOvertaking
CHECK_DEADLOCK FALSE
