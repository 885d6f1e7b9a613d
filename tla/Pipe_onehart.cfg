CONSTANTS Writers = {1} Readers = {2} Bytes = {a} PIPESIZE = 2 N = 1 UINT = 4
          StoresReorder = FALSE
SPECIFICATION HSpec
PROPERTY AcquireEnds
CHECK_DEADLOCK FALSE
