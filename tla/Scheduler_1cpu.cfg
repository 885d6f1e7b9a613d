CONSTANTS NPROC = 3 NCPU = 1 SchedChildren = {1, 2} DEFAULT_ENERGY_BUDGET = 3
          ENERGY_PER_TICK = 1 Modulus = 8 LOW_ENERGY_THRESHOLD = 1
          Pid <- MCPid3
SPECIFICATION FairSpec
INVARIANTS BestChosen BudgetIsRemainder FastWhileRunning
PROPERTIES WorkConserving
