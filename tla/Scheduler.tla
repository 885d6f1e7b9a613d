------------------------------ MODULE Scheduler ------------------------------
(* scheduler() on every hart: the three scans of the process table under the  *)
(* p->locks, the waiting_tick loop, the adaptive timer_interval, wfi, and what *)
(* the chosen process does until it gives the hart back (timer interrupt and  *)
(* yield(), or sleep()), the recovery of sleeplock.c included, which makes    *)
(* its victim RUNNABLE without the victim's p->lock.                          *)
(*                                                                            *)
(* A loop body that acquires one p->lock, looks and releases it again is one  *)
(* step, enabled when the lock is free; a lock that stays held across steps   *)
(* (that of the chosen process) is held in plock.  waiting_tick and           *)
(* last_scheduled_tick are counters that the kernel only prints.              *)
EXTENDS EnergyArith, FiniteSets

CONSTANTS NPROC, NCPU,
          LOW_ENERGY_THRESHOLD,
          Pid,             \* the pid in each slot of proc[]
          SchedChildren    \* the slots whose parent's name is "schedtest"

Procs == 1..NPROC
Harts == 1..NCPU
None == 0

ASSUME SchedulerAssumption ==
  /\ NPROC \in Nat \ {0} /\ NCPU \in Nat \ {0}
  /\ LOW_ENERGY_THRESHOLD \in Nat
  /\ Pid \in [Procs -> Nat] /\ \A p, q \in Procs : Pid[p] = Pid[q] => p = q
  /\ SchedChildren \subseteq Procs

VARIABLES
  state,            \* p->state
  budget, consumed, \* p->energy_budget, p->energy_consumed
  plock,            \* the hart that holds p->lock, or None
  hpc, idx, chosen, \* of each hart: where it is, the loop index, the local chosen
  proc,             \* c->proc
  timer_interval,   \* the global, "fast" (1000000) or "slow" (10000000)
  armed,            \* of each hart: the interval its stimecmp was set with
  began,            \* of each hart: the processes RUNNABLE ever since its scan began
  victim,           \* of each hart: whom its recovery saw SLEEPING and will make RUNNABLE
  torn              \* whether such a store has hit a process that was RUNNING by then

hvars == <<hpc, idx, chosen>>
tvars == <<timer_interval, armed>>
evars == <<budget, consumed>>
rvars == <<victim, torn>>
vars == <<state, evars, plock, hvars, proc, tvars, began, rvars>>

Passes == {"pass1", "pass2", "pass3"}
RunPcs == {"run", "utrap", "ktrap", "recover"}
HartPcs == Passes \cup RunPcs \cup
           {"loop", "tick", "reset", "armrun", "switch", "idle", "armidle", "wfi"}

Runnable == {p \in Procs : state[p] = "RUNNABLE"}

Init ==
  /\ state \in [Procs -> {"RUNNABLE", "SLEEPING"}]
  /\ budget = [p \in Procs |-> DEFAULT_ENERGY_BUDGET]
  /\ consumed = [p \in Procs |-> 0]
  /\ plock = [p \in Procs |-> None]
  /\ hpc = [h \in Harts |-> "loop"]
  /\ idx = [h \in Harts |-> 1]
  /\ chosen = [h \in Harts |-> None]
  /\ proc = [h \in Harts |-> None]
  /\ timer_interval = "fast" /\ armed = [h \in Harts |-> "fast"]
  /\ began = [h \in Harts |-> {}]
  /\ victim = [h \in Harts |-> None] /\ torn = FALSE

Goto(h, pc) == hpc' = [hpc EXCEPT ![h] = pc]

-----------------------------------------------------------------------------
(* The top of the for(;;) loop: intr_on(), chosen = 0. *)
LoopTop(h) ==
  /\ hpc[h] = "loop"
  /\ Goto(h, "pass1")
  /\ began' = [g \in Harts |-> IF g = h THEN Runnable ELSE began[g]]
  /\ UNCHANGED <<state, evars, plock, idx, chosen, proc, tvars, rvars>>

(* The condition of each pass. *)
Eligible(pass, p) ==
  /\ state[p] = "RUNNABLE"
  /\ pass \in {"pass1", "pass2"} => p \in SchedChildren
  /\ pass = "pass1" => budget[p] > LOW_ENERGY_THRESHOLD

(* Mutant: the latest pid wins. *)
BetterLatest(p, c) == IF c = None THEN TRUE ELSE Pid[p] > Pid[c]

Better(p, c) == IF c = None THEN TRUE ELSE Pid[p] < Pid[c]

AfterPass(pass, c) ==
  IF c # None THEN "tick"
  ELSE CASE pass = "pass1" -> "pass2" [] pass = "pass2" -> "pass3" [] OTHER -> "idle"

(* One iteration of a scan: the lock of a better candidate is kept, and that  *)
(* of the previous one released.  Only pass 3 stops at the first it finds.    *)
ScanStep(h) ==
  LET p == idx[h]
      take == Eligible(hpc[h], p) /\ Better(p, chosen[h])
      c == IF take THEN p ELSE chosen[h]
      last == p = NPROC \/ (take /\ hpc[h] = "pass3")
  IN /\ hpc[h] \in Passes
     /\ plock[p] = None
     /\ chosen' = [chosen EXCEPT ![h] = c]
     /\ plock' = [q \in Procs |-> IF take /\ q = p THEN h
                                  ELSE IF take /\ q = chosen[h] THEN None
                                  ELSE plock[q]]
     /\ idx' = [idx EXCEPT ![h] = IF last THEN 1 ELSE p + 1]
     /\ Goto(h, IF last THEN AfterPass(hpc[h], c) ELSE hpc[h])
     /\ UNCHANGED <<state, evars, proc, tvars, began, rvars>>

(* One iteration of the waiting_tick loop, which takes every other p->lock    *)
(* while the chosen one's is held.                                            *)
TickStep(h) ==
  LET p == idx[h]
  IN /\ hpc[h] = "tick"
     /\ ~(p # chosen[h] /\ plock[p] # None)
     /\ idx' = [idx EXCEPT ![h] = IF p = NPROC THEN 1 ELSE p + 1]
     /\ Goto(h, IF p = NPROC THEN "reset" ELSE "tick")
     /\ UNCHANGED <<state, evars, plock, chosen, proc, tvars, began, rvars>>

(* Mutant: the interval is reset but the pending interrupt is not moved. *)
ResetTimerOnly(h) ==
  /\ hpc[h] = "reset"
  /\ timer_interval' = "fast"
  /\ Goto(h, "switch")
  /\ UNCHANGED <<state, evars, plock, idx, chosen, proc, armed, began, rvars>>

ResetTimer(h) ==
  /\ hpc[h] = "reset"
  /\ timer_interval' = "fast"
  /\ Goto(h, IF timer_interval # "fast" THEN "armrun" ELSE "switch")
  /\ UNCHANGED <<state, evars, plock, idx, chosen, proc, armed, began, rvars>>

(* w_stimecmp(r_time() + timer_interval) reads the global once more. *)
Arm(h) ==
  /\ hpc[h] \in {"armrun", "armidle"}
  /\ armed' = [armed EXCEPT ![h] = timer_interval]
  /\ Goto(h, IF hpc[h] = "armrun" THEN "switch" ELSE "wfi")
  /\ UNCHANGED <<state, evars, plock, idx, chosen, proc, timer_interval, began, rvars>>

(* swtch to the chosen process, which releases its own lock where it resumes  *)
(* (in yield(), sleep() or forkret()).                                        *)
SwitchTo(h) ==
  LET p == chosen[h]
  IN /\ hpc[h] = "switch"
     /\ state' = [state EXCEPT ![p] = "RUNNING"]
     /\ proc' = [proc EXCEPT ![h] = p]
     /\ plock' = [plock EXCEPT ![p] = None]
     /\ chosen' = [chosen EXCEPT ![h] = None]
     /\ began' = [g \in Harts |-> began[g] \ {p}]
     /\ Goto(h, "run")
     /\ UNCHANGED <<evars, idx, tvars, rvars>>

(* Nothing to run: the interval is stretched once. *)
Stretch(h) ==
  /\ hpc[h] = "idle"
  /\ timer_interval' = "slow"
  /\ Goto(h, IF timer_interval = "fast" THEN "armidle" ELSE "wfi")
  /\ UNCHANGED <<state, evars, plock, idx, chosen, proc, armed, began, rvars>>

-----------------------------------------------------------------------------
(* Interrupts are off while a p->lock is held, and on elsewhere in            *)
(* scheduler().                                                               *)
Interruptible(h) ==
  chosen[h] = None /\ hpc[h] \notin {"utrap", "ktrap", "recover"}

(* Mutant: the hart waits on, in a loop around wfi. *)
TimerIdleWaitsOn(h) ==
  /\ Interruptible(h) /\ hpc[h] # "run"
  /\ armed' = [armed EXCEPT ![h] = timer_interval]
  /\ UNCHANGED <<state, evars, plock, hvars, proc, timer_interval, began, rvars>>

(* A timer interrupt of a hart in scheduler(): clockintr() with no process. *)
TimerIdle(h) ==
  /\ Interruptible(h) /\ hpc[h] # "run"
  /\ armed' = [armed EXCEPT ![h] = timer_interval]
  /\ Goto(h, IF hpc[h] = "wfi" THEN "loop" ELSE hpc[h])
  /\ UNCHANGED <<state, evars, plock, idx, chosen, proc, timer_interval, began, rvars>>

(* Consumption, up to the default budget: no budget is left beyond it.        *)
Spend(c) ==
  IF c + ENERGY_PER_TICK < DEFAULT_ENERGY_BUDGET
  THEN c + ENERGY_PER_TICK ELSE DEFAULT_ENERGY_BUDGET

(* A timer interrupt of a running process, from user or from kernel mode:     *)
(* clockintr() charges it under its p->lock.                                  *)
TimerRunning(h) ==
  LET p == proc[h]
  IN /\ hpc[h] = "run"
     /\ plock[p] = None
     /\ budget' = [budget EXCEPT ![p] = ClockCharge(budget[p])]
     /\ consumed' = [consumed EXCEPT ![p] = Spend(consumed[p])]
     /\ armed' = [armed EXCEPT ![h] = timer_interval]
     /\ \E trap \in {"utrap", "ktrap"} : Goto(h, trap)
     /\ UNCHANGED <<state, plock, idx, chosen, proc, timer_interval, began, rvars>>

(* swtch back to scheduler() with p->lock held, which scheduler() releases:   *)
(* c->proc = 0 and the next round of the loop.                                *)
GiveUp(h, newstate) ==
  /\ plock[proc[h]] = None
  /\ state' = [state EXCEPT ![proc[h]] = newstate]
  /\ proc' = [proc EXCEPT ![h] = None]
  /\ Goto(h, "loop")

(* The rest of usertrap() (its own charge) or kerneltrap(), and yield(). *)
Yield(h) ==
  /\ hpc[h] \in {"utrap", "ktrap"}
  /\ IF hpc[h] = "utrap"
     THEN /\ budget' = [budget EXCEPT ![proc[h]] = UserCharge(budget[proc[h]])]
          /\ consumed' = [consumed EXCEPT ![proc[h]] = Spend(consumed[proc[h]])]
     ELSE UNCHANGED evars
  /\ GiveUp(h, "RUNNABLE")
  /\ UNCHANGED <<plock, idx, chosen, tvars, began, rvars>>

(* sleep(), in a system call. *)
Sleep(h) ==
  /\ hpc[h] = "run"
  /\ GiveUp(h, "SLEEPING")
  /\ UNCHANGED <<evars, plock, idx, chosen, tvars, began, rvars>>

(* wakeup() finds p sleeping on its channel: in an interrupt handler of any   *)
(* hart, which ends a wfi, or in a system call of a running process.          *)
Wakeup(h, p) ==
  /\ Interruptible(h)
  /\ state[p] = "SLEEPING" /\ plock[p] = None
  /\ state' = [state EXCEPT ![p] = "RUNNABLE"]
  /\ Goto(h, IF hpc[h] = "wfi" THEN "loop" ELSE hpc[h])
  /\ UNCHANGED <<evars, plock, idx, chosen, proc, tvars, began, rvars>>

(* The recovery in acquiresleep(), with lk->lk held and so without            *)
(* interrupts: `if(victim->state == SLEEPING)`, read without the victim's     *)
(* p->lock.                                                                   *)
SeeVictim(h, p) ==
  /\ hpc[h] = "run"
  /\ state[p] = "SLEEPING"
  /\ victim' = [victim EXCEPT ![h] = p]
  /\ Goto(h, "recover")
  /\ UNCHANGED <<state, evars, plock, idx, chosen, proc, tvars, began, torn>>

(* `victim->state = RUNNABLE`, whatever has become of the victim since. *)
StoreVictim(h) ==
  LET v == victim[h]
  IN /\ hpc[h] = "recover"
     /\ state' = [state EXCEPT ![v] = "RUNNABLE"]
     /\ torn' = (torn \/ state[v] = "RUNNING")
     /\ victim' = [victim EXCEPT ![h] = None]
     /\ Goto(h, "run")
     /\ UNCHANGED <<evars, plock, idx, chosen, proc, tvars, began>>

SchedulerStep(h) ==
  \/ LoopTop(h) \/ ScanStep(h) \/ TickStep(h) \/ ResetTimer(h) \/ Arm(h)
  \/ SwitchTo(h) \/ Stretch(h)

Timer(h) == TimerIdle(h) \/ TimerRunning(h)

Next ==
  \E h \in Harts :
    \/ SchedulerStep(h) \/ Timer(h) \/ Yield(h) \/ Sleep(h) \/ StoreVictim(h)
    \/ \E p \in Procs : Wakeup(h, p) \/ SeeVictim(h, p)

Spec == Init /\ [][Next]_vars

(* A hart executes its instructions, a contended spinlock is eventually taken *)
(* and an armed timer fires.  Nothing obliges a process to sleep or to be     *)
(* woken.                                                                     *)
Fairness ==
  \A h \in Harts : /\ SF_vars(SchedulerStep(h))
                   /\ WF_vars(Timer(h) /\ hpc[h] \in {"run", "wfi"})
                   /\ SF_vars(Yield(h))
                   /\ WF_vars(StoreVictim(h))

FairSpec == Spec /\ Fairness

-----------------------------------------------------------------------------
TypeOK ==
  /\ state \in [Procs -> {"RUNNABLE", "RUNNING", "SLEEPING"}]
  /\ budget \in [Procs -> UInt64]
  /\ consumed \in [Procs -> 0..DEFAULT_ENERGY_BUDGET]
  /\ plock \in [Procs -> Harts \cup {None}]
  /\ hpc \in [Harts -> HartPcs]
  /\ idx \in [Harts -> Procs]
  /\ chosen \in [Harts -> Procs \cup {None}]
  /\ proc \in [Harts -> Procs \cup {None}]
  /\ timer_interval \in {"fast", "slow"}
  /\ armed \in [Harts -> {"fast", "slow"}]
  /\ began \in [Harts -> SUBSET Procs]
  /\ victim \in [Harts -> Procs \cup {None}]
  /\ torn \in BOOLEAN

(* A process runs on at most one hart, and RUNNING says exactly that it is    *)
(* some hart's c->proc: no two harts dispatch the same process.  A store of   *)
(* the recovery that turns a RUNNING process RUNNABLE breaks it, on two harts *)
(* or more, so it is claimed of the states before one (~torn).                *)
OneHart ==
  /\ \A g, h \in Harts : proc[g] = proc[h] /\ proc[g] # None => g = h
  /\ \A p \in Procs : state[p] = "RUNNING" <=> \E h \in Harts : proc[h] = p

(* The decision is not stale when swtch acts on it: the candidate stays       *)
(* locked by this hart and RUNNABLE from the moment it was looked at, and its *)
(* is the only p->lock the hart holds between two iterations.                 *)
ChosenHeld ==
  \A h \in Harts :
    /\ chosen[h] # None => plock[chosen[h]] = h /\ state[chosen[h]] = "RUNNABLE"
    /\ \A p \in Procs : plock[p] = h => p = chosen[h]

(* p ranks above q in the order of scheduler(): children of schedtest above   *)
(* the threshold by pid, then children of schedtest by pid, then the others   *)
(* by slot, whatever their budgets.                                           *)
Above(p, q) ==
  LET child(r) == r \in SchedChildren
      high(r) == child(r) /\ budget[r] > LOW_ENERGY_THRESHOLD
  IN \/ high(p) /\ ~high(q)
     \/ high(p) /\ high(q) /\ Pid[p] < Pid[q]
     \/ child(p) /\ ~child(q)
     \/ child(p) /\ ~high(p) /\ child(q) /\ ~high(q) /\ Pid[p] < Pid[q]
     \/ ~child(p) /\ ~child(q) /\ p < q

(* When a hart switches, no process that was RUNNABLE during its whole scan   *)
(* ranks above the chosen one, in the order that the comments of the three    *)
(* passes of scheduler() give.  The READMEs describe another order, which the *)
(* code does not keep: HighEnergyFirst below.                                 *)
BestChosen ==
  ~torn => \A h \in Harts :
             hpc[h] = "switch" => \A p \in began[h] : ~Above(p, chosen[h])

(* README: "Two-pass scheduling: high-energy processes first, then any        *)
(* runnable process": a hart does not switch to a process at or below the     *)
(* threshold while one above it has been RUNNABLE during the whole scan.      *)
HighEnergyFirst ==
  \A h \in Harts :
    hpc[h] = "switch" /\ budget[chosen[h]] <= LOW_ENERGY_THRESHOLD
      => \A p \in began[h] : budget[p] <= LOW_ENERGY_THRESHOLD

(* The budget by which the passes rank a process is what its consumption has  *)
(* left of the default: the two handlers that charge a tick, with their       *)
(* different guards, agree, and neither wraps a spent budget back to the top  *)
(* tier.  It rests on ENERGY_PER_TICK being 1, and on nobody running a        *)
(* process twice: usertrap() charges without p->lock.                         *)
BudgetIsRemainder ==
  ~torn => \A p \in Procs : budget[p] = DEFAULT_ENERGY_BUDGET - consumed[p]

(* adapt_test.c: "Because a process is RUNNABLE, the system uses the FAST     *)
(* timer_interval", "The timer will not stretch": a process that runs is      *)
(* interrupted after the fast interval.                                       *)
FastWhileRunning == TypeOK /\ \A h \in Harts : hpc[h] = "run" => armed[h] = "fast"

(* A hart does not idle on while there is something to run, even when the     *)
(* wakeup came between the end of the last scan and wfi.                      *)
WorkConserving ==
  Runnable # {} ~> \E h \in Harts : proc[h] # None

(* proc.c: scheduler() "loops, doing: choose a process to run; swtch to start *)
(* running that process".                                                     *)
ChosenRuns == \A h \in Harts : chosen[h] # None ~> proc[h] # None

(* README: the scheduler answers "resource-hungry processes starving others"  *)
(* with "fair distribution of CPU time": a RUNNABLE process runs at some time. *)
NoStarvation == \A p \in Procs : state[p] = "RUNNABLE" ~> state[p] = "RUNNING"
=============================================================================
