------------------------------ MODULE SleepLock ------------------------------
(* kernel/sleeplock.c on top of sleep/wakeup/kkill of kernel/proc.c and the   *)
(* demo-lock system calls of kernel/sysproc.c: sleeping locks, the detection  *)
(* of wait-for cycles when a process is about to sleep, and the energy-aware  *)
(* recovery.                                                                  *)
(*                                                                            *)
(* A process is named by its slot of proc[]; its pid is the slot number, so   *)
(* pid 0 is "nobody" as in the code, and a slot lives one life.  Spinlocks    *)
(* lk->lk are explicit (lk[l] is the process inside the critical section);    *)
(* p->lock is held by p itself exactly while pc[p] is "sleep2" or "sleep3",   *)
(* and by anybody else only within one step.  A process that holds or spins   *)
(* for a spinlock runs with interrupts off and is not preempted.              *)
EXTENDS Integers, FiniteSets

CONSTANTS NPROC,     \* slots of the process table, also the hop limit of a walk
          NLOCK,     \* number of sleeplocks (2 demo locks in the kernel)
          NCPU,      \* number of harts
          MaxEnergy, \* bound on energy_consumed, which stops there
          Inited0    \* demo_locks_inited when the model starts

ASSUME SizesAssumption ==
  /\ NPROC \in Nat \ {0} /\ NLOCK \in Nat \ {0} /\ NCPU \in Nat \ {0}
  /\ MaxEnergy \in Nat /\ Inited0 \in BOOLEAN

Procs == 1..NPROC
Locks == 1..NLOCK
CPUs  == 1..NCPU
None  == 0           \* pid 0, a null struct sleeplock *, an idle hart

VARIABLES
  locked, pid, lk,               \* struct sleeplock: locked, pid, lk.locked's owner
  state, chan, killed, cpu,      \* struct proc and cpus[].proc
  waiting,                       \* p->waiting_for_lock as memory shows it
  sb,                            \* p's store to it, still in the hart's store buffer
  reported, in_deadlock,         \* deadlock_reports > 0, in_deadlock
  energy,                        \* energy_consumed
  late,                          \* history: whom a tick charged since p began a recovery
  inited,                        \* demo_locks_inited
  again,                         \* history: a lock was initialised that was in use
  pc, arg, walk, wk              \* where p is in the kernel, its lock, its locals

lockVars == <<locked, pid, lk>>
procVars == <<state, chan, killed, cpu>>
edgeVars == <<waiting, sb>>
flagVars == <<reported, in_deadlock>>
vars == <<locked, pid, lk, state, chan, killed, cpu, waiting, sb, reported,
          in_deadlock, energy, late, inited, again, pc, arg, walk, wk>>

(* Where a process can be: user space (or outside of the calls modelled),     *)
(* ensure_demo_locks_inited, acquiresleep, would_create_deadlock and the      *)
(* recovery, sleep, holdingsleep, releasesleep, wakeup, exited.               *)
InitPcs == {"initAcq", "initRel"}
WalkPcs == {"walk", "walkLock"}
SleepPcs == {"sleep1", "sleep2", "sleep3", "asleep"}
AcquirePcs == {"acq", "loop", "victim", "wakeVictim"} \cup WalkPcs \cup SleepPcs
ReleasePcs == {"hold", "rel", "wake"}
PC == {"user", "dead"} \cup InitPcs \cup AcquirePcs \cup ReleasePcs
CriticalPcs == {"loop", "victim", "wakeVictim", "sleep1", "sleep2", "wake"} \cup WalkPcs
PreemptiblePcs == {"user", "acq", "hold", "rel"} \cup InitPcs

Walks == [mode : {"detect", "mark", "clear"}, own : Procs \cup {None},
          hops : 0..NPROC, victim : Procs \cup {None}, max : 0..MaxEnergy,
          next : Locks \cup {None}]
Walk(m, o, h, v, x, n) ==
  [mode |-> m, own |-> o, hops |-> h, victim |-> v, max |-> x, next |-> n]
NoWalk == Walk("detect", None, 0, None, 0, None)

Init ==
  /\ locked = [l \in Locks |-> FALSE]
  /\ pid = [l \in Locks |-> None]
  /\ lk = [l \in Locks |-> None]
  /\ state = [p \in Procs |-> "RUNNABLE"]
  /\ chan = [p \in Procs |-> None]
  /\ killed = [p \in Procs |-> FALSE]
  /\ cpu = [c \in CPUs |-> None]
  /\ waiting = [p \in Procs |-> None]
  /\ sb = [p \in Procs |-> None]
  /\ reported = [p \in Procs |-> FALSE]
  /\ in_deadlock = [p \in Procs |-> FALSE]
  /\ energy \in [Procs -> 0..MaxEnergy]
  /\ late = [p \in Procs |-> {}]
  /\ inited = Inited0 /\ again = FALSE
  /\ pc = [p \in Procs |-> "user"]
  /\ arg = [p \in Procs |-> None]
  /\ walk = [p \in Procs |-> NoWalk]
  /\ wk = [p \in Procs |-> 1]

(* p executes on exactly one hart.  A process dispatched on two harts at once *)
(* shares one kernel stack between them: nothing is said of its steps.        *)
Running(p) == \E c \in CPUs : cpu[c] = p /\ \A d \in CPUs : cpu[d] = p => d = c

(* Mutant: sleep() does not hold p->lock across release(lk). *)
PLockNeverHeld(p) == FALSE

PLockHeld(p) == pc[p] \in {"sleep2", "sleep3"}

LeaveCpu(p) == cpu' = [c \in CPUs |-> IF cpu[c] = p THEN None ELSE cpu[c]]

Goto(p, label) == pc' = [pc EXCEPT ![p] = label]

Return(p) == Goto(p, "user") /\ arg' = [arg EXCEPT ![p] = None]

-----------------------------------------------------------------------------
(* The scheduler, the timer and the other calls a process makes. *)

(* Mutant: the scheduler passes over killed processes. *)
DispatchUnkilled(c, p) ==
  /\ cpu[c] = None /\ state[p] = "RUNNABLE" /\ ~PLockHeld(p) /\ ~killed[p]
  /\ state' = [state EXCEPT ![p] = "RUNNING"]
  /\ cpu' = [cpu EXCEPT ![c] = p]
  /\ chan' = [chan EXCEPT ![p] = None]
  /\ pc' = [pc EXCEPT ![p] = IF @ = "asleep" THEN "acq" ELSE @]
  /\ UNCHANGED <<lockVars, killed, edgeVars, flagVars, energy, late, inited, again, arg, walk, wk>>

(* scheduler(): an idle hart takes some RUNNABLE process.  The process comes  *)
(* back from sched(): out of sleep() it clears p->chan and goes on to         *)
(* reacquire the condition lock; out of yield() it goes on where it was.      *)
Dispatch(c, p) ==
  /\ cpu[c] = None /\ state[p] = "RUNNABLE" /\ ~PLockHeld(p)
  /\ state' = [state EXCEPT ![p] = "RUNNING"]
  /\ cpu' = [cpu EXCEPT ![c] = p]
  /\ chan' = [chan EXCEPT ![p] = None]
  /\ pc' = [pc EXCEPT ![p] = IF @ = "asleep" THEN "acq" ELSE @]
  /\ UNCHANGED <<lockVars, killed, edgeVars, flagVars, energy, late, inited, again, arg, walk, wk>>

(* A tick charges p n units; a recovery that is under way may not see it. *)
Charge(p, n) ==
  /\ energy' = [energy EXCEPT ![p] = IF @ + n > MaxEnergy THEN MaxEnergy ELSE @ + n]
  /\ late' = [r \in Procs |-> IF walk[r].mode = "mark" THEN late[r] \cup {p} ELSE late[r]]

(* A timer interrupt makes p yield().  clockintr() charges it, and usertrap() *)
(* once more when the interrupt came from user mode.                          *)
Preempt(p) ==
  /\ Running(p) /\ pc[p] \in PreemptiblePcs
  /\ \E n \in {1, 2} :
       /\ n = 2 => pc[p] = "user" /\ ~killed[p]
       /\ Charge(p, n)
  /\ state' = [state EXCEPT ![p] = "RUNNABLE"]
  /\ LeaveCpu(p)
  /\ UNCHANGED <<lockVars, chan, killed, edgeVars, flagVars, inited, again, pc, arg, walk, wk>>

(* kkill(q) by a running process p: under q's p->lock, mark and wake q. *)
Kill(p, q) ==
  /\ Running(p) /\ pc[p] = "user" /\ ~killed[p]
  /\ state[q] # "UNUSED" /\ ~PLockHeld(q)
  /\ killed' = [killed EXCEPT ![q] = TRUE]
  /\ state' = [state EXCEPT ![q] = IF @ = "SLEEPING" THEN "RUNNABLE" ELSE @]
  /\ UNCHANGED <<lockVars, chan, cpu, edgeVars, flagVars, energy, late, inited, again, pc, arg, walk, wk>>

(* kexit: exit(), or usertrap() finding p killed on the way in or out of the  *)
(* kernel, perhaps by a tick that clockintr() has charged.  The sleeplocks p  *)
(* holds stay locked in its name.                                             *)
Exit(p) ==
  /\ Running(p) /\ pc[p] = "user"
  /\ \E n \in {0, 1} : Charge(p, n)
  /\ state' = [state EXCEPT ![p] = "ZOMBIE"]
  /\ LeaveCpu(p)
  /\ Goto(p, "dead")
  /\ UNCHANGED <<lockVars, chan, killed, edgeVars, flagVars, inited, again, arg, walk, wk>>

(* The parent's kwait finds the zombie: freeproc. *)
Reap(p) ==
  /\ state[p] = "ZOMBIE"
  /\ state' = [state EXCEPT ![p] = "UNUSED"]
  /\ killed' = [killed EXCEPT ![p] = FALSE]
  /\ waiting' = [waiting EXCEPT ![p] = None]
  /\ reported' = [reported EXCEPT ![p] = FALSE]
  /\ in_deadlock' = [in_deadlock EXCEPT ![p] = FALSE]
  /\ energy' = [energy EXCEPT ![p] = 0]
  /\ UNCHANGED <<lockVars, chan, cpu, sb, late, inited, again, pc, arg, walk, wk>>

-----------------------------------------------------------------------------
(* sys_dlockacq and sys_dlockrel. *)

(* A process that is not killed enters the system call with lock number l;    *)
(* ensure_demo_locks_inited reads demo_locks_inited.                          *)
DlockAcq(p, l) ==
  /\ Running(p) /\ pc[p] = "user" /\ ~killed[p]
  /\ arg' = [arg EXCEPT ![p] = l]
  /\ Goto(p, IF inited THEN "acq" ELSE "initAcq")
  /\ UNCHANGED <<lockVars, procVars, edgeVars, flagVars, energy, late, inited, again, walk, wk>>

DlockRel(p, l) ==
  /\ Running(p) /\ pc[p] = "user" /\ ~killed[p]
  /\ arg' = [arg EXCEPT ![p] = l]
  /\ Goto(p, IF inited THEN "hold" ELSE "initRel")
  /\ UNCHANGED <<lockVars, procVars, edgeVars, flagVars, energy, late, inited, again, walk, wk>>

(* The rest of ensure_demo_locks_inited for a process that read 0:            *)
(* initsleeplock of one lock after the other (wk counts them), then the flag. *)
(* Nothing excludes two processes that read 0: the slower one initialises the *)
(* locks again when the faster one is using them.                             *)
InitLock(p) ==
  /\ Running(p) /\ pc[p] \in InitPcs /\ wk[p] <= NLOCK
  /\ locked' = [locked EXCEPT ![wk[p]] = FALSE]
  /\ pid' = [pid EXCEPT ![wk[p]] = None]
  /\ lk' = [lk EXCEPT ![wk[p]] = None]
  /\ wk' = [wk EXCEPT ![p] = @ + 1]
  /\ again' = (again \/ inited)
  /\ UNCHANGED <<procVars, edgeVars, flagVars, energy, late, inited, pc, arg, walk>>

SetInited(p) ==
  /\ Running(p) /\ pc[p] \in InitPcs /\ wk[p] > NLOCK
  /\ inited' = TRUE
  /\ wk' = [wk EXCEPT ![p] = 1]
  /\ Goto(p, IF pc[p] = "initAcq" THEN "acq" ELSE "hold")
  /\ UNCHANGED <<lockVars, procVars, edgeVars, flagVars, energy, late, again, arg, walk>>

-----------------------------------------------------------------------------
(* acquiresleep *)

(* acquire(&lk->lk), on entry and again when sleep() returns. *)
AcquireSpin(p) ==
  /\ Running(p) /\ pc[p] = "acq"
  /\ lk[arg[p]] = None
  /\ lk' = [lk EXCEPT ![arg[p]] = p]
  /\ Goto(p, "loop")
  /\ UNCHANGED <<locked, pid, procVars, edgeVars, flagVars, energy, late, inited, again, arg, walk, wk>>

(* Mutant: waiting_for_lock is not reset when the lock is taken. *)
TakeLockKeepsEdge(p) ==
  /\ Running(p) /\ pc[p] = "loop" /\ ~locked[arg[p]]
  /\ locked' = [locked EXCEPT ![arg[p]] = TRUE]
  /\ pid' = [pid EXCEPT ![arg[p]] = p]
  /\ lk' = [lk EXCEPT ![arg[p]] = None]
  /\ Return(p)
  /\ UNCHANGED <<waiting, procVars, sb, flagVars, energy, late, inited, again, walk, wk>>

(* The lock is free: take it and return. *)
TakeLock(p) ==
  /\ Running(p) /\ pc[p] = "loop" /\ ~locked[arg[p]]
  /\ waiting' = [waiting EXCEPT ![p] = None]
  /\ locked' = [locked EXCEPT ![arg[p]] = TRUE]
  /\ pid' = [pid EXCEPT ![arg[p]] = p]
  /\ lk' = [lk EXCEPT ![arg[p]] = None]
  /\ Return(p)
  /\ UNCHANGED <<procVars, sb, flagVars, energy, late, inited, again, walk, wk>>

(* The lock is held: store waiting_for_lock (the store stays in the hart's    *)
(* buffer until DrainStore) and start the walk at the lock's owner.           *)
BeginWait(p) ==
  /\ Running(p) /\ pc[p] = "loop" /\ locked[arg[p]]
  /\ sb' = [sb EXCEPT ![p] = arg[p]]
  /\ walk' = [walk EXCEPT ![p] = Walk("detect", pid[arg[p]], 0, None, 0, None)]
  /\ Goto(p, "walk")
  /\ UNCHANGED <<lockVars, procVars, waiting, flagVars, energy, late, inited, again, arg, wk>>

(* The store buffer: no fence separates the store of waiting_for_lock from    *)
(* the loads of the walk; the amoswap and the fence of acquire(&p->lock) in   *)
(* sleep() do, see Sleep1.                                                    *)
DrainStore(p) ==
  /\ sb[p] # None
  /\ waiting' = [waiting EXCEPT ![p] = sb[p]]
  /\ sb' = [sb EXCEPT ![p] = None]
  /\ UNCHANGED <<lockVars, procVars, flagVars, energy, late, inited, again, pc, arg, walk, wk>>

(* How a walk of the given mode ends: a detection that found nothing and a    *)
(* finished clearing go to sleep, a finished marking goes on to the victim.   *)
EndWalk(p) ==
  /\ Goto(p, IF walk[p].mode = "mark" THEN "victim" ELSE "sleep1")
  /\ walk' = [walk EXCEPT ![p] = IF @.mode = "mark" THEN @ ELSE NoWalk]
  /\ UNCHANGED flagVars

(* The detection reached p itself: report, mark p and start the second walk   *)
(* with p as the default victim.                                              *)
StartMark(p) ==
  /\ reported' = [reported EXCEPT ![p] = TRUE]
  /\ in_deadlock' = [in_deadlock EXCEPT ![p] = TRUE]
  /\ walk' = [walk EXCEPT ![p] = Walk("mark", pid[arg[p]], 0, p, energy[p], None)]
  /\ Goto(p, "walk")

(* The loop goes on to the next owner: there is one, fewer than NPROC hops    *)
(* were made, pid2proc finds it; the second and third walks end back at p.    *)
WalkGoesOn(p) ==
  LET w == walk[p]
  IN /\ w.own # None /\ w.hops < NPROC
     /\ state[w.own] # "UNUSED"
     /\ w.own = p => w.mode = "detect"

(* Another owner on the way: set or clear its flag, make it the victim if it  *)
(* consumed strictly more than max_energy, load its waiting_for_lock.         *)
VisitOwner(p) ==
  LET w == walk[p]
      more == w.mode = "mark" /\ energy[w.own] > w.max
  IN /\ in_deadlock' = [in_deadlock EXCEPT ![w.own] =
                          IF w.mode = "detect" THEN @ ELSE w.mode = "mark"]
     /\ walk' = [walk EXCEPT ![p] = Walk(w.mode, w.own, w.hops, IF more THEN w.own ELSE w.victim,
                                               IF more THEN energy[w.own] ELSE w.max, waiting[w.own])]
     /\ Goto(p, "walkLock")
     /\ UNCHANGED reported

(* The first half of a hop. *)
WalkOwner(p) ==
  /\ Running(p) /\ pc[p] = "walk"
  /\ \/ ~WalkGoesOn(p) /\ EndWalk(p)
     \/ WalkGoesOn(p) /\ walk[p].own = p /\ StartMark(p)
     \/ WalkGoesOn(p) /\ walk[p].own # p /\ VisitOwner(p)
  /\ UNCHANGED <<lockVars, procVars, edgeVars, energy, late, inited, again, arg, wk>>

(* The second half: next_lock, next_lock->locked and next_lock->pid. *)
WalkLock(p) ==
  LET w == walk[p]
      held == w.next # None /\ locked[w.next]
  IN
  /\ Running(p) /\ pc[p] = "walkLock"
  /\ \/ ~held /\ EndWalk(p)
     \/ /\ held
        /\ walk' = [walk EXCEPT ![p] = Walk(w.mode, pid[w.next], w.hops + 1, w.victim, w.max, w.next)]
        /\ Goto(p, "walk")
        /\ UNCHANGED flagVars
  /\ UNCHANGED <<lockVars, procVars, edgeVars, energy, late, inited, again, arg, wk>>

(* Clear p's own flag and start the third walk. *)
StartClear(p) ==
  /\ in_deadlock' = [in_deadlock EXCEPT ![p] = FALSE]
  /\ walk' = [walk EXCEPT ![p] = Walk("clear", pid[arg[p]], 0, walk[p].victim, 0, None)]
  /\ late' = [late EXCEPT ![p] = {}]

(* Mark the victim killed and read its state, without its p->lock. *)
KillVictim(p) ==
  /\ Running(p) /\ pc[p] = "victim"
  /\ killed' = [killed EXCEPT ![walk[p].victim] = TRUE]
  /\ IF state[walk[p].victim] = "SLEEPING"
       THEN Goto(p, "wakeVictim") /\ UNCHANGED <<in_deadlock, walk, late>>
       ELSE Goto(p, "walk") /\ StartClear(p)
  /\ UNCHANGED <<lockVars, state, chan, cpu, edgeVars, reported, energy, inited, again, arg, wk>>

(* Store RUNNABLE into the state that was read as SLEEPING. *)
WakeVictim(p) ==
  /\ Running(p) /\ pc[p] = "wakeVictim"
  /\ state' = [state EXCEPT ![walk[p].victim] = "RUNNABLE"]
  /\ Goto(p, "walk")
  /\ StartClear(p)
  /\ UNCHANGED <<lockVars, chan, killed, cpu, edgeVars, reported, energy, inited, again, arg, wk>>

-----------------------------------------------------------------------------
(* sleep(lk, &lk->lk) *)

(* acquire(&p->lock): an atomic swap and a fence, so the store buffer is empty. *)
Sleep1(p) ==
  /\ Running(p) /\ pc[p] = "sleep1" /\ sb[p] = None
  /\ Goto(p, "sleep2")
  /\ UNCHANGED <<lockVars, procVars, edgeVars, flagVars, energy, late, inited, again, arg, walk, wk>>

(* release(lk) *)
Sleep2(p) ==
  /\ Running(p) /\ pc[p] = "sleep2"
  /\ lk' = [lk EXCEPT ![arg[p]] = None]
  /\ Goto(p, "sleep3")
  /\ UNCHANGED <<locked, pid, procVars, edgeVars, flagVars, energy, late, inited, again, arg, walk, wk>>

(* SLEEPING on the channel, sched(); the scheduler releases p->lock. *)
Sleep3(p) ==
  /\ Running(p) /\ pc[p] = "sleep3"
  /\ chan' = [chan EXCEPT ![p] = arg[p]]
  /\ state' = [state EXCEPT ![p] = "SLEEPING"]
  /\ LeaveCpu(p)
  /\ Goto(p, "asleep")
  /\ UNCHANGED <<lockVars, killed, edgeVars, flagVars, energy, late, inited, again, arg, walk, wk>>

-----------------------------------------------------------------------------
(* holdingsleep and releasesleep *)

HoldingSleep(p) ==
  /\ Running(p) /\ pc[p] = "hold"
  /\ lk[arg[p]] = None
  /\ IF locked[arg[p]] /\ pid[arg[p]] = p THEN Goto(p, "rel") /\ UNCHANGED arg ELSE Return(p)
  /\ UNCHANGED <<lockVars, procVars, edgeVars, flagVars, energy, late, inited, again, walk, wk>>

(* acquire(&lk->lk), free the lock, start wakeup(lk). *)
ReleaseSleep(p) ==
  /\ Running(p) /\ pc[p] = "rel"
  /\ lk[arg[p]] = None
  /\ lk' = [lk EXCEPT ![arg[p]] = p]
  /\ locked' = [locked EXCEPT ![arg[p]] = FALSE]
  /\ pid' = [pid EXCEPT ![arg[p]] = None]
  /\ wk' = [wk EXCEPT ![p] = 1]
  /\ Goto(p, "wake")
  /\ UNCHANGED <<procVars, edgeVars, flagVars, energy, late, inited, again, arg, walk>>

(* One iteration of wakeup's loop over the process table. *)
WakeStep(p) ==
  LET q == wk[p]
  IN
  /\ Running(p) /\ pc[p] = "wake" /\ q <= NPROC
  /\ q # p => ~PLockHeld(q)
  /\ state' = [state EXCEPT ![q] = IF q # p /\ @ = "SLEEPING" /\ chan[q] = arg[p]
                                     THEN "RUNNABLE" ELSE @]
  /\ wk' = [wk EXCEPT ![p] = q + 1]
  /\ UNCHANGED <<lockVars, chan, killed, cpu, edgeVars, flagVars, energy, late, inited, again, pc, arg, walk>>

(* release(&lk->lk) *)
WakeDone(p) ==
  /\ Running(p) /\ pc[p] = "wake" /\ wk[p] > NPROC
  /\ lk' = [lk EXCEPT ![arg[p]] = None]
  /\ wk' = [wk EXCEPT ![p] = 1]
  /\ Return(p)
  /\ UNCHANGED <<locked, pid, procVars, edgeVars, flagVars, energy, late, inited, again, walk>>

-----------------------------------------------------------------------------
(* The steps a process takes once it is inside a call. *)
KernelStep(p) ==
  \/ InitLock(p) \/ SetInited(p)
  \/ AcquireSpin(p) \/ TakeLock(p) \/ BeginWait(p)
  \/ WalkOwner(p) \/ WalkLock(p) \/ KillVictim(p) \/ WakeVictim(p)
  \/ Sleep1(p) \/ Sleep2(p) \/ Sleep3(p)
  \/ HoldingSleep(p) \/ ReleaseSleep(p) \/ WakeStep(p) \/ WakeDone(p)

Next ==
  \E p \in Procs :
    \/ KernelStep(p) \/ DrainStore(p)
    \/ \E l \in Locks : DlockAcq(p, l) \/ DlockRel(p, l)
    \/ \E q \in Procs : Kill(p, q)
    \/ \E c \in CPUs : Dispatch(c, p)
    \/ Preempt(p) \/ Exit(p) \/ Reap(p)

Spec == Init /\ [][Next]_vars

(* Fairness: a running process goes on inside the kernel, store buffers       *)
(* drain, a killed process that is back in user space exits at its next trap, *)
(* and an idle hart takes a runnable process.  The last is what the code      *)
(* guarantees when there are at least as many harts as processes; with fewer, *)
(* the scheduler may pass over a process for ever.  A time slice is long      *)
(* compared with an acquire(): if a spinlock is free again and again for      *)
(* processes that spin for it, one of them gets it.                           *)
Fairness ==
  /\ \A p \in Procs :
       /\ WF_vars(KernelStep(p))
       /\ WF_vars(DrainStore(p))
       /\ WF_vars(killed[p] /\ Exit(p))
       /\ WF_vars(\E c \in CPUs : Dispatch(c, p))
  /\ \A l \in Locks : SF_vars(\E p \in Procs : arg[p] = l /\ AcquireSpin(p))

FairSpec == Spec /\ Fairness

-----------------------------------------------------------------------------
(* Properties *)

TypeOK ==
  /\ locked \in [Locks -> BOOLEAN]
  /\ pid \in [Locks -> Procs \cup {None}]
  /\ lk \in [Locks -> Procs \cup {None}]
  /\ state \in [Procs -> {"UNUSED", "SLEEPING", "RUNNABLE", "RUNNING", "ZOMBIE"}]
  /\ chan \in [Procs -> Locks \cup {None}]
  /\ killed \in [Procs -> BOOLEAN]
  /\ cpu \in [CPUs -> Procs \cup {None}]
  /\ waiting \in [Procs -> Locks \cup {None}]
  /\ sb \in [Procs -> Locks \cup {None}]
  /\ reported \in [Procs -> BOOLEAN]
  /\ in_deadlock \in [Procs -> BOOLEAN]
  /\ energy \in [Procs -> 0..MaxEnergy]
  /\ late \in [Procs -> SUBSET Procs]
  /\ inited \in BOOLEAN /\ again \in BOOLEAN
  /\ pc \in [Procs -> PC]
  /\ arg \in [Procs -> Locks \cup {None}]
  /\ walk \in [Procs -> Walks]
  /\ wk \in [Procs -> Nat]

Holds(p, l) == locked[l] /\ pid[l] = p

InAcquire(p) == pc[p] \in AcquirePcs

(* The owner of the lock p is after; a wait-for cycle is a set of processes   *)
(* inside acquiresleep that this map permutes.                                *)
Blocker(p) == pid[arg[p]]

Cycle(S) == S # {} /\ (\A p \in S : InAcquire(p)) /\ {Blocker(p) : p \in S} = S

OnCycle(p) == \E S \in SUBSET Procs : p \in S /\ Cycle(S)

(* The spinlock of a sleeplock is held by exactly the process that is inside  *)
(* the critical section, so neither panic("release") nor panic("acquire") of  *)
(* spinlock.c nor panic("sched locks") of sched() can fire on it.             *)
SpinLockHeld ==
  /\ \A p \in Procs : pc[p] \in CriticalPcs => lk[arg[p]] = p
  /\ \A l \in Locks : lk[l] # None => pc[lk[l]] \in CriticalPcs /\ arg[lk[l]] = l

(* A sleeplock taken by acquiresleep stays with its process until that same   *)
(* process is in releasesleep: no other process takes it over, whatever is    *)
(* woken, killed or recovered meanwhile.  It holds of locks that are          *)
(* initialised before they are used (Inited0), which                          *)
(* ensure_demo_locks_inited() does not see to.                                *)
OnlyHolderReleases ==
  [][\A l \in Locks, p \in Procs :
       Holds(p, l) /\ ~Holds(p, l)' => pc[p] = "rel" /\ arg[p] = l]_vars

(* sleep() releases lk->lk only under p->lock and wakeup() takes it, so no    *)
(* wakeup is lost: a process that sleeps on a free lock has a releaser that   *)
(* has not reached its slot yet.  The race of ensure_demo_locks_inited() is   *)
(* excepted: it frees a lock without a wakeup.                                *)
NoLostWakeup ==
  ~again => \A p \in Procs, l \in Locks :
    state[p] = "SLEEPING" /\ chan[p] = l /\ ~locked[l] =>
      \E q \in Procs : pc[q] = "wake" /\ arg[q] = l /\ wk[q] <= p

(* would_create_deadlock never accuses the innocent on the two demo locks:    *)
(* whoever is in the recovery really is on a wait-for cycle, although the     *)
(* walk reads other processes' fields without a lock.                         *)
DetectionSound ==
  \A p \in Procs :
    pc[p] \in {"victim", "wakeVictim"} \/ (pc[p] \in WalkPcs /\ walk[p].mode # "detect")
      => OnCycle(p)

(* The README: the victim is the process of the cycle with the highest        *)
(* energy_consumed.  The comparison is a snapshot: a process that was woken   *)
(* and is on its way back into acquiresleep() may be charged after the walk   *)
(* has looked at it.  No other has consumed more.                             *)
VictimHasMaxEnergy ==
  \A p \in Procs : pc[p] \in {"victim", "wakeVictim"} =>
    \E S \in SUBSET Procs :
      /\ p \in S /\ Cycle(S) /\ walk[p].victim \in S
      /\ \A q \in S : energy[q] <= energy[walk[p].victim] \/ q \in late[p]

(* The README: would_create_deadlock catches deadlocks when the lock is       *)
(* acquired.  Once all processes of a cycle are asleep one of them reported it. *)
DeadlockReported ==
  \A S \in SUBSET Procs :
    Cycle(S) /\ (\A p \in S : pc[p] = "asleep") => \E p \in S : reported[p]

(* The recovery clears every in_deadlock flag it sets: none is left once no   *)
(* process is inside acquiresleep's detection and recovery.                   *)
FlagsCleared ==
  (\A p \in Procs : pc[p] \notin WalkPcs \cup {"victim", "wakeVictim"})
    => \A p \in Procs : ~in_deadlock[p]

(* The lock-free detection and the recovery can be relied on while other      *)
(* processes acquire, release, exit, are charged and recover: DetectionSound, *)
(* VictimHasMaxEnergy and FlagsCleared, unless a lock in use was initialised  *)
(* again.                                                                     *)
RecoverySound == ~again => DetectionSound /\ VictimHasMaxEnergy /\ FlagsCleared

(* proc.h: p->state is only used under p->lock; what that protects: no        *)
(* process is executed by two harts.                                          *)
OneHart == \A c, d \in CPUs : cpu[c] = cpu[d] /\ cpu[c] # None => c = d

(* A free lock that somebody is acquiring is taken by somebody, unless it is  *)
(* initialised again under a process that holds its spinlock.  The locks are  *)
(* alike: it is stated of the first one.                                      *)
LockProgress ==
  (~locked[1] /\ \E p \in Procs : InAcquire(p) /\ arg[p] = 1) ~> (locked[1] \/ again)

(* The README: recovery ensures "that surviving processes can proceed without *)
(* remaining permanently blocked": a cycle that was reported goes away.       *)
DeadlockBroken ==
  \A p \in Procs : (OnCycle(p) /\ reported[p]) ~> ~OnCycle(p)

=============================================================================
