-------------------------------- MODULE Energy --------------------------------
(* The energy accounting of one process, from allocproc() to the end of       *)
(* kexit(): every timer interrupt that finds it running, in user or in kernel *)
(* mode, and getenergy().  Dispatching does not touch the two fields, so the  *)
(* times at which the process is not running are stuttering steps.            *)
EXTENDS EnergyArith

VARIABLES
  budget, consumed,          \* energy_budget, energy_consumed
  killed,                    \* p->killed
  pc,                        \* "user", "usertrap" (after devintr() returned 2),
                             \* "kernel" (in a system call), "exit", "zombie"
  ticks,                     \* timer interrupts taken so far
  seenBudget, seenConsumed   \* what the last getenergy() copied out

seen == <<seenBudget, seenConsumed>>
vars == <<budget, consumed, killed, pc, ticks, seen>>

(* allocproc *)
Init ==
  /\ budget = DEFAULT_ENERGY_BUDGET /\ consumed = 0
  /\ killed = FALSE
  /\ pc = "user" /\ ticks = 0
  /\ seenBudget = budget /\ seenConsumed = consumed

(* The bound on a process's life: its ticks end before energy_consumed wraps. *)
(* 2^64 charges take longer than the machine runs.                            *)
Lives == consumed + 2 * ENERGY_PER_TICK < Modulus

(* clockintr() with myproc() # 0, called through devintr(): both fields       *)
(* change in one critical section of p->lock.                                 *)
ClockIntr ==
  /\ Lives
  /\ consumed' = ConsumeOne(consumed)
  /\ budget' = ClockCharge(budget)
  /\ ticks' = ticks + 1
  /\ UNCHANGED <<killed, seen>>

(* usertrap() goes on with a charge of its own, kerneltrap() just yields. *)
TimerInUser == pc = "user" /\ ClockIntr /\ pc' = "usertrap"

TimerInKernel == pc \in {"kernel", "exit"} /\ ClockIntr /\ UNCHANGED pc

(* usertrap() after devintr() returned 2: a killed process exits before the   *)
(* second charge.                                                             *)
UserTrapCharge ==
  /\ pc = "usertrap"
  /\ IF killed
     THEN pc' = "exit" /\ UNCHANGED <<budget, consumed>>
     ELSE /\ pc' = "user"
          /\ consumed' = ConsumeOne(consumed)
          /\ budget' = UserCharge(budget)
  /\ UNCHANGED <<killed, ticks, seen>>

(* A trap that is not the timer's: a system call, a page fault or a device    *)
(* interrupt.  usertrap() looks at killed on the way in and on the way out.   *)
TrapEnter ==
  /\ pc = "user"
  /\ pc' = IF killed THEN "exit" ELSE "kernel"
  /\ UNCHANGED <<budget, consumed, killed, ticks, seen>>

TrapReturn ==
  /\ pc = "kernel"
  /\ pc' = IF killed THEN "exit" ELSE "user"
  /\ UNCHANGED <<budget, consumed, killed, ticks, seen>>

(* sys_getenergy: both fields read in one critical section of p->lock. *)
GetEnergy ==
  /\ pc = "kernel"
  /\ seenBudget' = budget /\ seenConsumed' = consumed
  /\ UNCHANGED <<budget, consumed, killed, pc, ticks>>

(* kkill(), setkilled() *)
Kill ==
  /\ pc # "zombie" /\ ~killed
  /\ killed' = TRUE
  /\ UNCHANGED <<budget, consumed, pc, ticks, seen>>

(* exit() by the process itself, and the end of kexit(). *)
Exit ==
  /\ pc \in {"kernel", "exit"}
  /\ pc' = IF pc = "kernel" THEN "exit" ELSE "zombie"
  /\ UNCHANGED <<budget, consumed, killed, ticks, seen>>

Next ==
  \/ TimerInUser \/ TimerInKernel \/ UserTrapCharge
  \/ TrapEnter \/ TrapReturn \/ GetEnergy \/ Kill \/ Exit

Spec == Init /\ [][Next]_vars

-----------------------------------------------------------------------------
TypeOK ==
  /\ budget \in UInt64 /\ consumed \in UInt64
  /\ killed \in BOOLEAN
  /\ pc \in {"user", "usertrap", "kernel", "exit", "zombie"}
  /\ ticks \in Nat
  /\ seenBudget \in UInt64 /\ seenConsumed \in UInt64

Remainder(c) == IF c >= DEFAULT_ENERGY_BUDGET THEN 0 ELSE DEFAULT_ENERGY_BUDGET - c

(* The budget is what is left of the default budget: the two places that      *)
(* charge, with their different guards, agree, and neither underflows.  It    *)
(* rests on ENERGY_PER_TICK being 1: usertrap()'s guard lets a budget between *)
(* 0 and ENERGY_PER_TICK wrap.                                                *)
BudgetIsRemainder == budget = Remainder(consumed)

(* What getenergy() reports are both numbers of one moment, and that moment   *)
(* is not ahead of the process's consumption.                                 *)
ShownConsistent ==
  seenBudget = Remainder(seenConsumed) /\ seenConsumed <= consumed

(* A budget never grows, so a process that fell to the low tier of            *)
(* scheduler() stays there: no charge wraps around and refills it.            *)
BudgetNeverGrows == [][budget' <= budget /\ consumed' >= consumed]_vars

(* Every tick is charged at least once and at most twice: a killed process's  *)
(* last tick and the ticks in kernel mode once, the others twice, although    *)
(* the documents speak of one unit per tick (ChargedOnce).                    *)
ChargesPerTick ==
  /\ ENERGY_PER_TICK * ticks <= consumed
  /\ consumed <= 2 * ENERGY_PER_TICK * ticks

(* README: ENERGY_PER_TICK is the "Energy consumed per timer tick".  The code *)
(* does not keep it: a tick in user mode is charged by clockintr() and again  *)
(* by usertrap().                                                             *)
ChargedOnce == consumed = ENERGY_PER_TICK * ticks
=============================================================================
