CONSTANTS NPROC = 2 NCPU = 2 SchedChildren = {} DEFAULT_ENERGY_BUDGET = 2
          ENERGY_PER_TICK = 1 Modulus = 8 LOW_ENERGY_THRESHOLD = 1
          Pid <- MCPid2
SPECIFICATION FairSpec
PROPERTY ChosenRuns
CHECK_DEADLOCK FALSE
