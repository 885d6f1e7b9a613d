CONSTANTS NPROC = 3 NRES = 2 Energies <- MCEnergies
SPECIFICATION Spec
INVARIANTS VictimDeadlocked DeadlockFound
PROPERTY KillBreaksCycle
