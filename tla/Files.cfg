CONSTANTS Procs = {1, 2} Initproc = 1 Names = {"a", "b"} NInodes = 4
          NINODE = 3 NFILE = 2 NOFILE = 2 Types = {"file", "dir"} MaxCalls = 3
          Paths <- MCPaths NewPaths <- MCNewPaths Images <- MCImages
SPECIFICATION Spec
INVARIANTS TablesExact LocksOrdered LinksCounted UnlinkedHeld
