-------------------------------- MODULE Proc --------------------------------
(* The life of a process: fork(), exit(), wait() and kill() over the process  *)
(* table, with wait_lock and the p->locks.                                    *)
(*                                                                            *)
(* RUNNABLE stands for RUNNABLE and RUNNING: which hart runs a process, and   *)
(* when, is Scheduler's subject.  A critical section of one p->lock is one    *)
(* step; plock and wlock record the locks that are held across steps.         *)
EXTENDS Integers, FiniteSets

CONSTANTS NPROC,
          MaxPid      \* bound on the processes ever created

Procs == 1..NPROC
None == 0
Initproc == 1

ASSUME ProcAssumption == NPROC \in Nat \ {0} /\ MaxPid \in Nat

VARIABLES
  state, pid, parent, killed, \* the fields of struct proc
  nextpid,
  plock, wlock,               \* the process that holds p->lock, wait_lock
  pc, child,                  \* of each process: where it is, np in kfork()
  hit, stray                  \* the pids that were to be killed; the slots that
                              \* kill(0) marked and freeproc() has not cleared since

table == <<state, pid, parent, killed, nextpid>>
locks == <<plock, wlock>>
vars == <<table, locks, pc, child, hit, stray>>

(* procinit(): every slot is UNUSED, every lock free. *)
Procinit ==
  /\ parent = [p \in Procs |-> None]
  /\ killed = [p \in Procs |-> FALSE]
  /\ plock = [p \in Procs |-> None] /\ wlock = None

(* userinit(): the first process, which is in user space at once. *)
Userinit ==
  /\ state = [p \in Procs |-> IF p = Initproc THEN "RUNNABLE" ELSE "UNUSED"]
  /\ pid = [p \in Procs |-> IF p = Initproc THEN 1 ELSE 0]
  /\ nextpid = 2
  /\ pc = [p \in Procs |-> IF p = Initproc THEN "user" ELSE "none"]

Init ==
  /\ Procinit /\ Userinit
  /\ child = [p \in Procs |-> None]
  /\ hit = {} /\ stray = {}

At(p, label) == state[p] = "RUNNABLE" /\ pc[p] = label
Goto(p, label) == pc' = [pc EXCEPT ![p] = label]

(* A system call begins: usertrap() has found the process not killed. *)
Calls(p) == At(p, "user") /\ ~killed[p]

(* Mutant: the flag is left for the next process in the slot. *)
FreeprocKeepsKilled(q) ==
  /\ state' = [state EXCEPT ![q] = "UNUSED"]
  /\ pid' = [pid EXCEPT ![q] = 0]
  /\ parent' = [parent EXCEPT ![q] = None]
  /\ stray' = stray \ {q}
  /\ UNCHANGED killed

Freeproc(q) ==
  /\ state' = [state EXCEPT ![q] = "UNUSED"]
  /\ pid' = [pid EXCEPT ![q] = 0]
  /\ parent' = [parent EXCEPT ![q] = None]
  /\ killed' = [killed EXCEPT ![q] = FALSE]
  /\ stray' = stray \ {q}

(* wakeup(q), on the channel that q sleeps on in kwait(). *)
Wakeup(s, Q) == [q \in Procs |-> IF q \in Q /\ s[q] = "SLEEPING" THEN "RUNNABLE" ELSE s[q]]

-----------------------------------------------------------------------------
(* allocproc(): any slot, since one behind the scan may become UNUSED while   *)
(* it goes on.  Without a free slot, kfork() just fails.                      *)
Allocproc(p) ==
  /\ Calls(p) /\ nextpid <= MaxPid
  /\ \E np \in Procs :
       /\ state[np] = "UNUSED" /\ plock[np] = None
       /\ state' = [state EXCEPT ![np] = "USED"]
       /\ pid' = [pid EXCEPT ![np] = nextpid]
       /\ plock' = [plock EXCEPT ![np] = p]
       /\ child' = [child EXCEPT ![p] = np]
  /\ nextpid' = nextpid + 1
  /\ Goto(p, "fork")
  /\ UNCHANGED <<parent, killed, wlock, hit, stray>>

(* Out of memory, in allocproc() or in uvmcopy(). *)
ForkFail(p) ==
  /\ At(p, "fork")
  /\ Freeproc(child[p])
  /\ plock' = [plock EXCEPT ![child[p]] = None]
  /\ child' = [child EXCEPT ![p] = None]
  /\ Goto(p, "user")
  /\ UNCHANGED <<nextpid, wlock, hit>>

(* The copy is made and np->lock released. *)
ForkCopied(p) ==
  /\ At(p, "fork")
  /\ plock' = [plock EXCEPT ![child[p]] = None]
  /\ Goto(p, "adopt")
  /\ UNCHANGED <<table, wlock, child, hit, stray>>

(* Mutant: the child is made RUNNABLE first, and its parent set afterwards. *)
ForkParentLate(p) ==
  /\ At(p, "adopt")
  /\ UNCHANGED <<table, locks, child, hit, stray>>
  /\ Goto(p, "start")

ForkParent(p) ==
  /\ At(p, "adopt") /\ wlock = None
  /\ parent' = [parent EXCEPT ![child[p]] = p]
  /\ Goto(p, "start")
  /\ UNCHANGED <<state, pid, killed, nextpid, locks, child, hit, stray>>

ForkRunnable(p) ==
  LET np == child[p]
  IN /\ At(p, "start") /\ plock[np] = None
     /\ state' = [state EXCEPT ![np] = "RUNNABLE"]
     /\ pc' = [pc EXCEPT ![p] = "user", ![np] = "user"]
     /\ child' = [child EXCEPT ![p] = None]
     /\ UNCHANGED <<pid, parent, killed, nextpid, locks, hit, stray>>

-----------------------------------------------------------------------------
(* kkill(), for any pid but init's: sys_kill() passes 0 on, the pid of every  *)
(* free slot, and then the first of them is marked.                           *)
Kill(p, victim) ==
  /\ Calls(p)
  /\ \E q \in Procs :
       /\ pid[q] = victim /\ plock[q] = None
       /\ victim = 0 => \A r \in 1..(q - 1) : pid[r] # 0
       /\ killed' = [killed EXCEPT ![q] = TRUE]
       /\ state' = Wakeup(state, {q})
       /\ stray' = IF victim = 0 THEN stray \cup {q} ELSE stray
  /\ hit' = hit \cup {victim}
  /\ UNCHANGED <<pid, parent, nextpid, locks, pc, child>>

(* kexit(), by the process's own will, after a fault (setkilled()), or because *)
(* usertrap() found it killed; init never does.  The open files and the       *)
(* current directory are Files' subject.                                      *)
Exit(p) ==
  /\ At(p, "user") /\ p # Initproc
  /\ \E fault \in BOOLEAN :
       /\ fault => ~killed[p]
       /\ killed' = [killed EXCEPT ![p] = @ \/ fault]
       /\ hit' = IF fault THEN hit \cup {pid[p]} ELSE hit
  /\ Goto(p, "exit")
  /\ UNCHANGED <<state, pid, parent, nextpid, locks, child, stray>>

(* Mutant: the parent is woken before wait_lock is taken. *)
ExitWakesEarly(p) ==
  LET orphans == {q \in Procs : parent[q] = p}
  IN \/ /\ At(p, "exit") /\ child[p] = None
        /\ state' = Wakeup(state, {parent[p]})
        /\ child' = [child EXCEPT ![p] = p]
        /\ UNCHANGED <<pid, parent, killed, nextpid, locks, pc, hit, stray>>
     \/ /\ At(p, "exit") /\ child[p] = p /\ wlock = None
        /\ wlock' = p
        /\ parent' = [q \in Procs |-> IF q \in orphans THEN Initproc ELSE parent[q]]
        /\ state' = Wakeup(state, IF orphans = {} THEN {} ELSE {Initproc})
        /\ child' = [child EXCEPT ![p] = None]
        /\ Goto(p, "zombie")
        /\ UNCHANGED <<pid, killed, nextpid, plock, hit, stray>>

(* reparent() and wakeup(p->parent), under wait_lock. *)
ExitReparent(p) ==
  LET orphans == {q \in Procs : parent[q] = p}
  IN /\ At(p, "exit") /\ wlock = None
     /\ wlock' = p
     /\ parent' = [q \in Procs |-> IF q \in orphans THEN Initproc ELSE parent[q]]
     /\ state' = Wakeup(state, {parent[p]} \cup (IF orphans = {} THEN {} ELSE {Initproc}))
     /\ Goto(p, "zombie")
     /\ UNCHANGED <<pid, killed, nextpid, plock, child, hit, stray>>

(* ZOMBIE, and into sched() with p->lock. *)
ExitZombie(p) ==
  /\ At(p, "zombie") /\ plock[p] = None
  /\ state' = [state EXCEPT ![p] = "ZOMBIE"]
  /\ plock' = [plock EXCEPT ![p] = p] /\ wlock' = None
  /\ Goto(p, "swtch")
  /\ UNCHANGED <<pid, parent, killed, nextpid, child, hit, stray>>

(* swtch() has left p's kernel stack, and scheduler() releases p->lock. *)
Swtch(p) ==
  /\ pc[p] = "swtch"
  /\ plock' = [plock EXCEPT ![p] = None]
  /\ Goto(p, "none")
  /\ UNCHANGED <<table, wlock, child, hit, stray>>

-----------------------------------------------------------------------------
Kids(p) == {q \in Procs : parent[q] = p}

InWait(p) == Calls(p) \/ At(p, "rescan")

(* Mutant: the scan does not take the child's lock. *)
WaitReapUnlocked(p) ==
  /\ InWait(p) /\ wlock = None
  /\ \E q \in Kids(p) :
       /\ state[q] = "ZOMBIE"
       /\ Freeproc(q)
  /\ Goto(p, "user")
  /\ UNCHANGED <<nextpid, locks, child, hit>>

(* Mutant: the loop stops one slot short. *)
WaitReapSkipsLast(p) ==
  /\ InWait(p) /\ wlock = None
  /\ \E q \in Kids(p) :
       /\ state[q] = "ZOMBIE" /\ plock[q] = None
       /\ IF q < NPROC THEN Freeproc(q) ELSE UNCHANGED <<state, pid, parent, killed, stray>>
  /\ Goto(p, "user")
  /\ UNCHANGED <<nextpid, locks, child, hit>>

(* kwait() finds the first zombie; each child's lock is taken on the way, so  *)
(* that it is not still in exit() or swtch().  When the status cannot be      *)
(* copied out, the zombie stays; init asks for none.                          *)
WaitReap(p) ==
  /\ InWait(p) /\ wlock = None
  /\ \E q \in Kids(p) :
       /\ state[q] = "ZOMBIE"
       /\ \A r \in Kids(p) : r <= q => plock[r] = None
       /\ \A r \in Kids(p) : r < q => state[r] # "ZOMBIE"
       /\ \/ Freeproc(q)
          \/ p # Initproc /\ UNCHANGED <<state, pid, parent, killed, stray>>
  /\ Goto(p, "user")
  /\ UNCHANGED <<nextpid, locks, child, hit>>

(* No child has exited: wait_lock stays held. *)
WaitNone(p) ==
  /\ InWait(p) /\ wlock = None
  /\ \A q \in Kids(p) : state[q] # "ZOMBIE"
  /\ wlock' = p
  /\ Goto(p, "check")
  /\ UNCHANGED <<table, plock, child, hit, stray>>

(* No children, or killed: -1. *)
WaitCheck(p) ==
  LET give == Kids(p) = {} \/ killed[p]
  IN /\ At(p, "check")
     /\ wlock' = IF give THEN None ELSE p
     /\ Goto(p, IF give THEN "user" ELSE "sleep")
     /\ UNCHANGED <<table, plock, child, hit, stray>>

(* sleep(p, &wait_lock) *)
WaitSleep(p) ==
  /\ At(p, "sleep") /\ plock[p] = None
  /\ state' = [state EXCEPT ![p] = "SLEEPING"]
  /\ wlock' = None
  /\ Goto(p, "rescan")
  /\ UNCHANGED <<pid, parent, killed, nextpid, plock, child, hit, stray>>

Wait(p) == WaitReap(p) \/ WaitNone(p)

(* What a process does once it is in the kernel. *)
KernelStep(p) ==
  \/ ForkFail(p) \/ ForkCopied(p) \/ ForkParent(p) \/ ForkRunnable(p)
  \/ ExitReparent(p) \/ ExitZombie(p) \/ Swtch(p)
  \/ WaitCheck(p) \/ WaitSleep(p)
  \/ pc[p] = "rescan" /\ Wait(p)

Next ==
  \E p \in Procs :
    \/ KernelStep(p) \/ Allocproc(p) \/ Exit(p) \/ Wait(p)
    \/ \E victim \in (0..(nextpid - 1)) \ {1} : Kill(p, victim)

Spec == Init /\ [][Next]_vars

(* A process in the kernel goes on, a contended spinlock is taken in the end, *)
(* a killed process exits at its next trap, and init calls wait() over and    *)
(* over (user/init.c).                                                        *)
Fairness ==
  /\ \A p \in Procs : SF_vars(KernelStep(p)) /\ WF_vars(killed[p] /\ Exit(p))
  /\ SF_vars(Wait(Initproc))

FairSpec == Spec /\ Fairness

-----------------------------------------------------------------------------
TypeOK ==
  /\ state \in [Procs -> {"UNUSED", "USED", "RUNNABLE", "SLEEPING", "ZOMBIE"}]
  /\ pid \in [Procs -> Nat] /\ nextpid \in Nat
  /\ parent \in [Procs -> Procs \cup {None}]
  /\ killed \in [Procs -> BOOLEAN]
  /\ plock \in [Procs -> Procs \cup {None}] /\ wlock \in Procs \cup {None}
  /\ pc \in [Procs -> {"none", "user", "fork", "adopt", "start", "exit", "zombie",
                       "swtch", "check", "sleep", "rescan"}]
  /\ child \in [Procs -> Procs \cup {None}]
  /\ hit \subseteq Nat /\ stray \subseteq Procs

(* wait() misses no exit: while a process sleeps in kwait(), no child of its  *)
(* is a ZOMBIE, whether it exited, or was handed over by reparent(), between  *)
(* the parent's scan and its sleep().                                         *)
NoLostExit ==
  \A p, q \in Procs : state[p] = "SLEEPING" /\ parent[q] = p => state[q] # "ZOMBIE"

(* A process is never lost to wait(): whatever runs, sleeps or is a zombie    *)
(* has a parent that has not exited, by fork() or by reparent(), and init has *)
(* none.                                                                      *)
Live(p) == state[p] \in {"RUNNABLE", "SLEEPING"}
ParentLives ==
  \A p \in Procs : p # Initproc /\ (Live(p) \/ state[p] = "ZOMBIE") =>
    parent[p] # None /\ Live(parent[p])

(* The slot, the kernel stack and the page table of a process are freed only  *)
(* once no hart is on that stack: nothing of the old process is still running *)
(* in a slot that is free, or that fork() fills again.                        *)
FreedOffStack ==
  TypeOK /\ \A p \in Procs : state[p] \in {"UNUSED", "USED"} => pc[p] = "none"

(* "Kill the process with the given pid": a process is killed only if its pid *)
(* was to be, and not for what was meant for an earlier user of its slot.     *)
(* The one exception is a slot that kill(0) marked while it was free:         *)
(* allocproc() hands it out as it is, until freeproc() clears it again.       *)
KilledIsMeant ==
  \A p \in Procs : killed[p] /\ state[p] # "UNUSED" => pid[p] \in hit \/ p \in stray

(* user/init.c waits "if the shell exits, or if a parentless process exits":  *)
(* every zombie that is init's child, or is handed to it, is reaped.          *)
OrphansReaped ==
  \A p \in Procs : state[p] = "ZOMBIE" /\ parent[p] = Initproc ~> state[p] = "UNUSED"
=============================================================================
