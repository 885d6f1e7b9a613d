CONSTANTS DEFAULT_ENERGY_BUDGET = 5 ENERGY_PER_TICK = 1 Modulus = 14
SPECIFICATION Spec
INVARIANT ChargedOnce
CHECK_DEADLOCK FALSE
