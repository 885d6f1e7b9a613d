---------------------------- MODULE ProcProofs ----------------------------
(* What Proc promises, for every number of slots: wait() misses no exit, no   *)
(* process loses its parent, a slot is freed off its kernel stack, and a kill *)
(* hits only the process it was meant for, kill(0) excepted.                  *)
EXTENDS Proc, TLAPS

Forking(p) == pc[p] \in {"fork", "adopt", "start"}

(* Where a process in each state can be; p->lock covers the way into swtch(). *)
StateInv ==
  \A p \in Procs :
    /\ state[p] \in {"UNUSED", "USED"} => pc[p] = "none"
    /\ state[p] = "ZOMBIE" => pc[p] \in {"none", "swtch"}
    /\ state[p] = "SLEEPING" => pc[p] = "rescan"
    /\ state[p] = "RUNNABLE" => pc[p] \notin {"none", "swtch"}
    /\ pc[p] = "swtch" => plock[p] = p

(* init does not exit, and nobody is its parent. *)
InitInv ==
  /\ Live(Initproc) /\ pc[Initproc] \notin {"exit", "zombie"}
  /\ parent[Initproc] = None

(* Who holds wait_lock. *)
WaitLockInv == \A p \in Procs : pc[p] \in {"zombie", "check", "sleep"} => wlock = p

(* A USED slot belongs to the one fork() that fills it. *)
ChildInv ==
  /\ \A p \in Procs :
       /\ Forking(p) => child[p] \in Procs /\ state[child[p]] = "USED"
       /\ pc[p] = "start" => parent[child[p]] = p
       /\ state[p] = "UNUSED" => parent[p] = None
       /\ state[p] = "USED" /\ parent[p] # None =>
            pc[parent[p]] = "start" /\ child[parent[p]] = p
  /\ \A p, q \in Procs : Forking(p) /\ Forking(q) /\ child[p] = child[q] => p = q

(* A parent is alive, and not past the reparent() of its exit. *)
ParentInv ==
  \A q \in Procs :
    /\ parent[q] # None => Live(parent[q]) /\ pc[parent[q]] # "zombie"
    /\ q # Initproc /\ (Live(q) \/ state[q] = "ZOMBIE") => parent[q] # None

(* A child on its way to ZOMBIE has woken its parent; a parent that has       *)
(* looked for zombies, and still has wait_lock, has none.                     *)
SleepInv ==
  \A p, q \in Procs :
    parent[q] = p =>
      /\ state[p] = "SLEEPING" => state[q] # "ZOMBIE" /\ pc[q] # "zombie"
      /\ pc[p] \in {"check", "sleep"} => state[q] # "ZOMBIE"

Inv == TypeOK /\ StateInv /\ InitInv /\ WaitLockInv /\ ChildInv /\ ParentInv /\ SleepInv

(* The first slot is a slot; 0 is none.                                       *)
LEMMA InitSlot == Initproc \in Procs /\ None \notin Procs
BY ProcAssumption DEF Procs, Initproc, None

(* The first process runs, alone. *)
LEMMA InitInvariant == Init => Inv
<1> SUFFICES ASSUME Init PROVE Inv
  BY Zenon
<1> USE InitSlot DEF Init, Procinit, Userinit
<1>1. TypeOK
  BY Zenon DEF TypeOK
<1>2. StateInv
  BY Zenon DEF StateInv
<1>3. InitInv
  BY Zenon DEF InitInv, Live
<1>4. WaitLockInv
  BY Zenon DEF WaitLockInv
<1>5. ChildInv
  BY Zenon DEF ChildInv, Forking
<1>6. ParentInv
  BY Zenon DEF ParentInv, Live
<1>7. SleepInv
  BY Zenon DEF SleepInv
<1> QED
  BY <1>1, <1>2, <1>3, <1>4, <1>5, <1>6, <1>7, Zenon DEF Inv

(* allocproc() takes a slot that nobody was in, and is nobody's parent.       *)
LEMMA AllocprocKeeps ==
  ASSUME Inv, NEW p \in Procs, Allocproc(p) PROVE Inv'
<1> USE InitSlot DEF Inv, Allocproc, Calls, At, Goto
<1>1. TypeOK'
  BY DEF TypeOK
<1>2. StateInv'
  BY DEF TypeOK, StateInv
<1>3. InitInv'
  BY DEF TypeOK, InitInv, Live
<1>4. WaitLockInv'
  BY ZenonT(60) DEF TypeOK, WaitLockInv
<1>5. ChildInv'
  BY DEF TypeOK, StateInv, ChildInv, Forking
<1>6. ParentInv'
  BY DEF TypeOK, ChildInv, ParentInv, Live
<1>7. SleepInv'
  BY DEF TypeOK, SleepInv
<1> QED
  BY <1>1, <1>2, <1>3, <1>4, <1>5, <1>6, <1>7, Zenon DEF Inv

(* A failing fork() gives its slot back.                                      *)
LEMMA ForkFailKeeps ==
  ASSUME Inv, NEW p \in Procs, ForkFail(p) PROVE Inv'
<1> USE InitSlot DEF Inv, ForkFail, Freeproc, At, Goto
<1>1. TypeOK'
  BY Zenon DEF TypeOK
<1>2. StateInv'
  BY DEF TypeOK, StateInv, ChildInv, Forking
<1>3. InitInv'
  BY ZenonT(60) DEF TypeOK, InitInv, StateInv, ChildInv, Forking, Live
<1>4. WaitLockInv'
  BY Zenon DEF TypeOK, WaitLockInv, StateInv
<1>5. ChildInv'
  BY DEF TypeOK, StateInv, ChildInv, Forking
<1>6. ParentInv'
  BY DEF TypeOK, StateInv, InitInv, ChildInv, ParentInv, Forking, Live
<1>7. SleepInv'
  BY DEF TypeOK, StateInv, InitInv, WaitLockInv, ChildInv, ParentInv, SleepInv, Forking, Live
<1> QED
  BY <1>1, <1>2, <1>3, <1>4, <1>5, <1>6, <1>7, Zenon DEF Inv

(* The child is still USED when np->lock is released.                         *)
LEMMA ForkCopiedKeeps ==
  ASSUME Inv, NEW p \in Procs, ForkCopied(p) PROVE Inv'
<1> USE InitSlot DEF Inv, ForkCopied, table, At, Goto
<1>1. TypeOK'
  BY Zenon DEF TypeOK
<1>2. StateInv'
  BY ZenonT(60) DEF TypeOK, StateInv, ChildInv, Forking
<1>3. InitInv'
  BY Zenon DEF TypeOK, InitInv, StateInv, Live
<1>4. WaitLockInv'
  BY Zenon DEF TypeOK, WaitLockInv, StateInv
<1>5. ChildInv'
  BY DEF TypeOK, StateInv, ChildInv, Forking
<1>6. ParentInv'
  BY DEF TypeOK, StateInv, InitInv, ChildInv, ParentInv, Forking, Live
<1>7. SleepInv'
  BY DEF TypeOK, StateInv, InitInv, WaitLockInv, ChildInv, ParentInv, SleepInv, Forking, Live
<1> QED
  BY <1>1, <1>2, <1>3, <1>4, <1>5, <1>6, <1>7, Zenon DEF Inv

(* The parent is set while the child is USED.                                 *)
LEMMA ForkParentKeeps ==
  ASSUME Inv, NEW p \in Procs, ForkParent(p) PROVE Inv'
<1> USE InitSlot DEF Inv, ForkParent, locks, At, Goto
<1>1. TypeOK'
  BY Zenon DEF TypeOK
<1>2. StateInv'
  BY Zenon DEF TypeOK, StateInv
<1>3. InitInv'
  BY ZenonT(60) DEF TypeOK, InitInv, StateInv, ChildInv, Forking, Live
<1>4. WaitLockInv'
  BY Zenon DEF TypeOK, WaitLockInv, StateInv
<1>5. ChildInv'
  BY DEF TypeOK, StateInv, ChildInv, Forking
<1>6. ParentInv'
  BY DEF TypeOK, StateInv, InitInv, ChildInv, ParentInv, Forking, Live
<1>7. SleepInv'
  BY DEF TypeOK, StateInv, InitInv, WaitLockInv, ChildInv, ParentInv, SleepInv, Forking, Live
<1> QED
  BY <1>1, <1>2, <1>3, <1>4, <1>5, <1>6, <1>7, Zenon DEF Inv

(* The child runs with its parent set.                                        *)
LEMMA ForkRunnableKeeps ==
  ASSUME Inv, NEW p \in Procs, ForkRunnable(p) PROVE Inv'
<1> USE InitSlot DEF Inv, ForkRunnable, locks, At, Goto
<1>1. TypeOK'
  BY Zenon DEF TypeOK
<1>2. StateInv'
  BY ZenonT(60) DEF TypeOK, StateInv
<1>3. InitInv'
  BY Zenon DEF TypeOK, InitInv, StateInv, Live
<1>4. WaitLockInv'
  BY ZenonT(60) DEF TypeOK, WaitLockInv, StateInv
<1>5. ChildInv'
  BY DEF TypeOK, StateInv, ChildInv, Forking
<1>6. ParentInv'
  BY DEF TypeOK, StateInv, InitInv, ChildInv, ParentInv, Forking, Live
<1>7. SleepInv'
  BY DEF TypeOK, StateInv, InitInv, WaitLockInv, ChildInv, ParentInv, SleepInv, Forking, Live
<1> QED
  BY <1>1, <1>2, <1>3, <1>4, <1>5, <1>6, <1>7, Zenon DEF Inv

(* reparent() leaves the process without children, and wakes who got them.    *)
LEMMA ExitReparentKeeps ==
  ASSUME Inv, NEW p \in Procs, ExitReparent(p) PROVE Inv'
<1> USE InitSlot DEF Inv, ExitReparent, Wakeup, At, Goto
<1>1. TypeOK'
  BY Zenon DEF TypeOK
<1>2. StateInv'
  BY Zenon DEF TypeOK, StateInv
<1>3. InitInv'
  BY Zenon DEF TypeOK, InitInv, StateInv, Live
<1>4. WaitLockInv'
  BY ZenonT(60) DEF TypeOK, WaitLockInv, StateInv
<1>5. ChildInv'
  BY DEF TypeOK, StateInv, ChildInv, Forking
<1>6. ParentInv'
  BY DEF TypeOK, StateInv, InitInv, ChildInv, ParentInv, Forking, Live
<1>7. SleepInv'
  BY DEF TypeOK, StateInv, InitInv, WaitLockInv, ChildInv, ParentInv, SleepInv, Forking, Live
<1> QED
  BY <1>1, <1>2, <1>3, <1>4, <1>5, <1>6, <1>7, Zenon DEF Inv

(* The parent was woken under the same wait_lock, and is not asleep.          *)
LEMMA ExitZombieKeeps ==
  ASSUME Inv, NEW p \in Procs, ExitZombie(p) PROVE Inv'
<1> USE InitSlot DEF Inv, ExitZombie, At, Goto
<1>1. TypeOK'
  BY Zenon DEF TypeOK
<1>2. StateInv'
  BY ZenonT(60) DEF TypeOK, StateInv
<1>3. InitInv'
  BY Zenon DEF TypeOK, InitInv, StateInv, Live
<1>4. WaitLockInv'
  BY Zenon DEF TypeOK, WaitLockInv, StateInv
<1>5. ChildInv'
  BY DEF TypeOK, StateInv, ChildInv, Forking
<1>6. ParentInv'
  BY DEF TypeOK, StateInv, InitInv, ChildInv, ParentInv, Forking, Live
<1>7. SleepInv'
  BY DEF TypeOK, StateInv, InitInv, WaitLockInv, ChildInv, ParentInv, SleepInv, Forking, Live
<1> QED
  BY <1>1, <1>2, <1>3, <1>4, <1>5, <1>6, <1>7, Zenon DEF Inv

(* p->lock is released off the stack.                                         *)
LEMMA SwtchKeeps ==
  ASSUME Inv, NEW p \in Procs, Swtch(p) PROVE Inv'
<1> USE InitSlot DEF Inv, Swtch, table, At, Goto
<1>1. TypeOK'
  BY Zenon DEF TypeOK
<1>2. StateInv'
  BY ZenonT(60) DEF TypeOK, StateInv
<1>3. InitInv'
  BY Zenon DEF TypeOK, InitInv, StateInv, Live
<1>4. WaitLockInv'
  BY ZenonT(60) DEF TypeOK, WaitLockInv, StateInv
<1>5. ChildInv'
  BY DEF TypeOK, StateInv, ChildInv, Forking
<1>6. ParentInv'
  BY DEF TypeOK, StateInv, InitInv, ChildInv, ParentInv, Forking, Live
<1>7. SleepInv'
  BY DEF TypeOK, StateInv, InitInv, WaitLockInv, ChildInv, ParentInv, SleepInv, Forking, Live
<1> QED
  BY <1>1, <1>2, <1>3, <1>4, <1>5, <1>6, <1>7, Zenon DEF Inv

(* Only a zombie that is off its stack is freed; it has no children.          *)
LEMMA WaitReapKeeps ==
  ASSUME Inv, NEW p \in Procs, WaitReap(p) PROVE Inv'
<1> USE InitSlot DEF Inv, WaitReap, InWait, Calls, Kids, locks, At, Goto
<1> PICK q \in Procs :
      /\ parent[q] = p /\ state[q] = "ZOMBIE" /\ plock[q] = None
      /\ Freeproc(q) \/ UNCHANGED <<state, pid, parent, killed, stray>>
  BY ProcAssumption DEF Procs
<1>a. killed' \in [Procs -> BOOLEAN]
  BY Zenon DEF Freeproc, TypeOK
<1>b. /\ state' \in [Procs -> {"UNUSED", "USED", "RUNNABLE", "SLEEPING", "ZOMBIE"}]
      /\ pid' \in [Procs -> Nat] /\ parent' \in [Procs -> Procs \cup {None}]
  BY DEF Freeproc, TypeOK
<1>c. stray' \subseteq Procs
  BY Zenon DEF Freeproc, TypeOK
<1>1. TypeOK'
  BY <1>a, <1>b, <1>c, ZenonT(60) DEF TypeOK
<1>2. StateInv'
  BY DEF Freeproc, TypeOK, StateInv
<1>3. InitInv'
  BY ZenonT(60) DEF Freeproc, TypeOK, InitInv, StateInv, Live
<1>4. WaitLockInv'
  BY ZenonT(60) DEF Freeproc, TypeOK, WaitLockInv, StateInv
<1>5. ChildInv'
  BY DEF Freeproc, TypeOK, StateInv, ChildInv, Forking
<1>6. ParentInv'
  BY DEF Freeproc, TypeOK, StateInv, InitInv, ChildInv, ParentInv, Forking, Live
<1>7. SleepInv'
  BY DEF Freeproc, TypeOK, StateInv, InitInv, WaitLockInv, ChildInv, ParentInv, SleepInv, Forking, Live
<1> QED
  BY <1>1, <1>2, <1>3, <1>4, <1>5, <1>6, <1>7, Zenon DEF Inv

(* The scan has seen every child.                                             *)
LEMMA WaitNoneKeeps ==
  ASSUME Inv, NEW p \in Procs, WaitNone(p) PROVE Inv'
<1> USE InitSlot DEF Inv, WaitNone, InWait, Calls, Kids, table, At, Goto
<1>1. TypeOK'
  BY Zenon DEF TypeOK
<1>2. StateInv'
  BY Zenon DEF TypeOK, StateInv
<1>3. InitInv'
  BY Zenon DEF TypeOK, InitInv, StateInv, Live
<1>4. WaitLockInv'
  BY Zenon DEF TypeOK, WaitLockInv, StateInv
<1>5. ChildInv'
  BY DEF TypeOK, StateInv, ChildInv, Forking
<1>6. ParentInv'
  BY DEF TypeOK, StateInv, InitInv, ChildInv, ParentInv, Forking, Live
<1>7. SleepInv'
  BY DEF TypeOK, StateInv, InitInv, WaitLockInv, ChildInv, ParentInv, SleepInv, Forking, Live
<1> QED
  BY <1>1, <1>2, <1>3, <1>4, <1>5, <1>6, <1>7, Zenon DEF Inv

(* wait_lock is released, or kept until sleep().                              *)
LEMMA WaitCheckKeeps ==
  ASSUME Inv, NEW p \in Procs, WaitCheck(p) PROVE Inv'
<1> USE InitSlot DEF Inv, WaitCheck, Kids, table, At, Goto
<1>1. TypeOK'
  BY Zenon DEF TypeOK
<1>2. StateInv'
  BY Zenon DEF TypeOK, StateInv
<1>3. InitInv'
  BY Zenon DEF TypeOK, InitInv, StateInv, Live
<1>4. WaitLockInv'
  BY Zenon DEF TypeOK, WaitLockInv, StateInv
<1>5. ChildInv'
  BY DEF TypeOK, StateInv, ChildInv, Forking
<1>6. ParentInv'
  BY DEF TypeOK, StateInv, InitInv, ChildInv, ParentInv, Forking, Live
<1>7. SleepInv'
  BY DEF TypeOK, StateInv, InitInv, WaitLockInv, ChildInv, ParentInv, SleepInv, Forking, Live
<1> QED
  BY <1>1, <1>2, <1>3, <1>4, <1>5, <1>6, <1>7, Zenon DEF Inv

(* No child has become a zombie since the scan.                               *)
LEMMA WaitSleepKeeps ==
  ASSUME Inv, NEW p \in Procs, WaitSleep(p) PROVE Inv'
<1> USE InitSlot DEF Inv, WaitSleep, At, Goto
<1>1. TypeOK'
  BY Zenon DEF TypeOK
<1>2. StateInv'
  BY Zenon DEF TypeOK, StateInv
<1>3. InitInv'
  BY Zenon DEF TypeOK, InitInv, StateInv, Live
<1>4. WaitLockInv'
  BY ZenonT(60) DEF TypeOK, WaitLockInv, StateInv
<1>5. ChildInv'
  BY DEF TypeOK, StateInv, ChildInv, Forking
<1>6. ParentInv'
  BY DEF TypeOK, StateInv, InitInv, ChildInv, ParentInv, Forking, Live
<1>7. SleepInv'
  BY DEF TypeOK, StateInv, InitInv, WaitLockInv, ChildInv, ParentInv, SleepInv, Forking, Live
<1> QED
  BY <1>1, <1>2, <1>3, <1>4, <1>5, <1>6, <1>7, Zenon DEF Inv

(* An exit begins; init does not.                                             *)
LEMMA ExitKeeps ==
  ASSUME Inv, NEW p \in Procs, Exit(p) PROVE Inv'
<1> USE InitSlot DEF Inv, Exit, locks, At, Goto
<1> PICK fault \in BOOLEAN : /\ killed' = [killed EXCEPT ![p] = @ \/ fault]
                             /\ hit' = IF fault THEN hit \cup {pid[p]} ELSE hit
  BY Zenon
<1>0. killed' \in [Procs -> BOOLEAN]
  BY Zenon DEF TypeOK
<1>a. hit' \in {hit, hit \cup {pid[p]}}
  BY Zenon
<1>b. hit' \subseteq Nat
  <2>1. hit \subseteq Nat /\ pid[p] \in Nat
    BY Zenon DEF TypeOK
  <2> QED
    BY <1>a, <2>1, Zenon
<1>c. pc' \in [Procs -> {"none", "user", "fork", "adopt", "start", "exit", "zombie",
                        "swtch", "check", "sleep", "rescan"}]
  BY Zenon DEF TypeOK
<1>1. TypeOK'
  BY <1>0, <1>b, <1>c, Zenon DEF TypeOK
<1>2. StateInv'
  BY Zenon DEF TypeOK, StateInv
<1>3. InitInv'
  BY Zenon DEF TypeOK, InitInv, StateInv, Live
<1>4. WaitLockInv'
  BY ZenonT(60) DEF TypeOK, WaitLockInv, StateInv
<1>5. ChildInv'
  BY DEF TypeOK, StateInv, ChildInv, Forking
<1>6. ParentInv'
  BY DEF TypeOK, StateInv, InitInv, ChildInv, ParentInv, Forking, Live
<1>7. SleepInv'
  BY DEF TypeOK, StateInv, InitInv, WaitLockInv, ChildInv, ParentInv, SleepInv, Forking, Live
<1> QED
  BY <1>1, <1>2, <1>3, <1>4, <1>5, <1>6, <1>7, Zenon DEF Inv

(* kill() marks, and wakes.                                                   *)
LEMMA KillKeeps ==
  ASSUME Inv, NEW p \in Procs, NEW victim \in Nat, Kill(p, victim) PROVE Inv'
<1> USE InitSlot DEF Inv, Kill, Calls, Wakeup, locks, At, Goto
<1>a. stray' \subseteq Procs
  BY Zenon DEF TypeOK
<1>b. hit' \subseteq Nat
  BY Zenon DEF TypeOK
<1>1. TypeOK'
  BY <1>a, <1>b, ZenonT(60) DEF TypeOK
<1>2. StateInv'
  BY DEF TypeOK, StateInv
<1>3. InitInv'
  BY DEF TypeOK, InitInv, StateInv, Live
<1>4. WaitLockInv'
  BY Zenon DEF TypeOK, WaitLockInv, StateInv
<1>5. ChildInv'
  BY DEF TypeOK, StateInv, ChildInv, Forking
<1>6. ParentInv'
  BY DEF TypeOK, StateInv, InitInv, ChildInv, ParentInv, Forking, Live
<1>7. SleepInv'
  BY DEF TypeOK, StateInv, InitInv, WaitLockInv, ChildInv, ParentInv, SleepInv, Forking, Live
<1> QED
  BY <1>1, <1>2, <1>3, <1>4, <1>5, <1>6, <1>7, Zenon DEF Inv

(* Every step of every process keeps the invariant. *)
LEMMA NextKeeps == Inv /\ [Next]_vars => Inv'
<1> SUFFICES ASSUME Inv, [Next]_vars PROVE Inv'
  BY Zenon
<1>1. ASSUME NEW p \in Procs, KernelStep(p) PROVE Inv'
  BY <1>1, ForkFailKeeps, ForkCopiedKeeps, ForkParentKeeps, ForkRunnableKeeps,
     ExitReparentKeeps, ExitZombieKeeps, SwtchKeeps, WaitCheckKeeps, WaitSleepKeeps,
     WaitReapKeeps, WaitNoneKeeps, Zenon DEF KernelStep, Wait
<1>2. ASSUME NEW p \in Procs, Allocproc(p) \/ Exit(p) \/ Wait(p) PROVE Inv'
  BY <1>2, AllocprocKeeps, ExitKeeps, WaitReapKeeps, WaitNoneKeeps, Zenon DEF Wait
<1>3. ASSUME NEW p \in Procs, NEW victim \in 0..(nextpid - 1), Kill(p, victim) PROVE Inv'
  <2>1. victim \in Nat
    BY SMTT(30)
  <2> QED
    BY <1>3, <2>1, KillKeeps, Zenon
<1>4. CASE UNCHANGED vars
  BY <1>4, SMTT(90) DEF vars, table, locks, Inv, TypeOK, StateInv, InitInv, WaitLockInv, ChildInv,
     ParentInv, SleepInv, Forking, Live
<1> QED
  BY <1>1, <1>2, <1>3, <1>4, Zenon DEF Next

(* The invariant holds of every state of the process table.                   *)
THEOREM ProcInvariant == Spec => []Inv
BY InitInvariant, NextKeeps, PTL DEF Spec

(* kwait() misses no exit: a process that sleeps in it has no ZOMBIE child,   *)
(* whether the child exited or was handed over by reparent().                 *)
THEOREM ExitsNotLost == Spec => []NoLostExit
<1>1. Inv => NoLostExit
  BY Zenon DEF Inv, SleepInv, NoLostExit
<1> QED
  BY <1>1, ProcInvariant, PTL

(* Every process but init has a parent that can wait() for it: fork() sets it *)
(* before the child runs, reparent() before the parent is gone.               *)
THEOREM ParentsLive == Spec => []ParentLives
<1>1. Inv => ParentLives
  BY Zenon DEF Inv, ParentInv, ParentLives
<1> QED
  BY <1>1, ProcInvariant, PTL

(* kwait() frees a slot only when swtch() has left its kernel stack.          *)
THEOREM SlotsFreedOffStack == Spec => []FreedOffStack
<1>1. Inv => FreedOffStack
  BY Zenon DEF Inv, StateInv, FreedOffStack
<1> QED
  BY <1>1, ProcInvariant, PTL

-----------------------------------------------------------------------------
(* A free slot has no pid, and only kill(0) marks it killed. *)
MarkInv ==
  /\ nextpid > 0
  /\ \A p \in Procs :
       /\ state[p] = "UNUSED" <=> pid[p] = 0
       /\ killed[p] => (pid[p] # 0 /\ pid[p] \in hit) \/ p \in stray

(* At boot nobody is marked.                                                  *)
LEMMA InitMark == Init => MarkInv
BY InitSlot DEF Init, Procinit, Userinit, MarkInv

(* The steps that neither fill nor free a slot, nor mark it. *)
LEMMA QuietMark ==
  ASSUME Inv, MarkInv, NEW p \in Procs,
         ForkCopied(p) \/ ForkParent(p) \/ ForkRunnable(p) \/ ExitReparent(p) \/ ExitZombie(p)
           \/ Swtch(p) \/ WaitCheck(p) \/ WaitSleep(p) \/ WaitNone(p)
  PROVE  MarkInv'
<1> USE DEF MarkInv, At
<1>1. CASE ForkCopied(p)
  BY <1>1, Zenon DEF Inv, TypeOK, ForkCopied, table
<1>2. CASE ForkParent(p)
  BY <1>2, Zenon DEF Inv, TypeOK, ForkParent, locks
<1>3. CASE ForkRunnable(p)
  BY <1>3, Zenon DEF Inv, TypeOK, ForkRunnable, ChildInv, Forking, locks
<1>4. CASE ExitReparent(p)
  BY <1>4, Zenon DEF Inv, TypeOK, ExitReparent, Wakeup
<1>5. CASE ExitZombie(p)
  BY <1>5, Zenon DEF Inv, TypeOK, ExitZombie
<1>6. CASE Swtch(p)
  BY <1>6, Zenon DEF Inv, TypeOK, Swtch, table
<1>7. CASE WaitCheck(p)
  BY <1>7, Zenon DEF Inv, TypeOK, WaitCheck, table
<1>8. CASE WaitSleep(p)
  BY <1>8, Zenon DEF Inv, TypeOK, WaitSleep
<1>9. CASE WaitNone(p)
  BY <1>9, Zenon DEF Inv, TypeOK, WaitNone, InWait, Calls, table
<1> QED
  BY <1>1, <1>2, <1>3, <1>4, <1>5, <1>6, <1>7, <1>8, <1>9, Zenon

(* A slot is filled and freed with its marks cleared. *)
LEMMA SlotMark ==
  ASSUME Inv, MarkInv, NEW p \in Procs, Allocproc(p) \/ ForkFail(p) \/ WaitReap(p)
  PROVE  MarkInv'
<1> USE DEF MarkInv
<1>1. CASE Allocproc(p)
  BY <1>1 DEF Inv, TypeOK, Allocproc
<1>2. CASE ForkFail(p)
  BY <1>2 DEF Inv, TypeOK, ChildInv, Forking, ForkFail, Freeproc, At
<1>3. CASE WaitReap(p)
  BY <1>3 DEF Inv, TypeOK, WaitReap, Kids, Freeproc
<1> QED
  BY <1>1, <1>2, <1>3, Zenon

(* kill() marks the process with the pid it was given, and kill(0) a slot     *)
(* that it notes.                                                             *)
LEMMA KillMark ==
  ASSUME Inv, MarkInv, NEW p \in Procs, NEW victim \in Nat, Kill(p, victim)
  PROVE  MarkInv'
<1>1. PICK q \in Procs : /\ pid[q] = victim
                         /\ killed' = [killed EXCEPT ![q] = TRUE]
                         /\ state' = Wakeup(state, {q})
                         /\ stray' = IF victim = 0 THEN stray \cup {q} ELSE stray
  BY Zenon DEF Kill
<1>2. hit' = hit \cup {victim} /\ pid' = pid /\ nextpid' = nextpid
  BY Zenon DEF Kill
<1>3. \A r \in Procs : state'[r] = "UNUSED" <=> state[r] = "UNUSED"
  BY <1>1, Zenon DEF Inv, TypeOK, Wakeup
<1>4. ASSUME NEW r \in Procs, killed'[r]
      PROVE  (pid[r] # 0 /\ pid[r] \in hit') \/ r \in stray'
  <2>1. CASE r = q
    BY <1>1, <1>2, <2>1, Zenon
  <2>2. CASE r # q
    <3>1. killed[r]
      BY <1>1, <1>4, <2>2, Zenon DEF Inv, TypeOK
    <3> QED
      BY <1>1, <1>2, <3>1, Zenon DEF MarkInv
  <2> QED
    BY <2>1, <2>2, Zenon
<1> QED
  BY <1>2, <1>3, <1>4, Zenon DEF MarkInv

(* A fault marks the process that runs.                                       *)
LEMMA ExitMark ==
  ASSUME Inv, MarkInv, NEW p \in Procs, Exit(p) PROVE MarkInv'
<1>1. PICK fault \in BOOLEAN : /\ killed' = [killed EXCEPT ![p] = @ \/ fault]
                                /\ hit' = IF fault THEN hit \cup {pid[p]} ELSE hit
  BY Zenon DEF Exit
<1>2. /\ state' = state /\ pid' = pid /\ nextpid' = nextpid /\ stray' = stray
      /\ state[p] # "UNUSED"
  BY Zenon DEF Exit, At
<1>3. CASE fault
  <2>1. killed' = [killed EXCEPT ![p] = TRUE] /\ hit' = hit \cup {pid[p]}
    BY <1>1, <1>3, Zenon
  <2>2. pid[p] # 0
    BY <1>2, Zenon DEF MarkInv
  <2>3. \A q \in Procs : killed'[q] => q = p \/ killed[q]
    BY <2>1, Zenon DEF Inv, TypeOK
  <2> QED
    BY <1>2, <2>1, <2>2, <2>3, Zenon DEF MarkInv
<1>4. CASE ~fault
  <2>1. \A q \in Procs : killed'[q] = killed[q]
    BY <1>1, <1>4, Zenon DEF Inv, TypeOK
  <2>2. hit' = hit
    BY <1>1, <1>4, Zenon
  <2> QED
    BY <1>2, <2>1, <2>2, Zenon DEF MarkInv
<1> QED
  BY <1>3, <1>4, Zenon

(* Every step keeps the marks.                                                *)
LEMMA NextMark == Inv /\ MarkInv /\ [Next]_vars => MarkInv'
<1> SUFFICES ASSUME Inv, MarkInv, [Next]_vars PROVE MarkInv'
  BY Zenon
<1>1. ASSUME NEW p \in Procs, KernelStep(p) \/ Allocproc(p) \/ Wait(p) PROVE MarkInv'
  BY <1>1, QuietMark, SlotMark, Zenon DEF KernelStep, Wait
<1>2. ASSUME NEW p \in Procs, Exit(p) PROVE MarkInv'
  BY <1>2, ExitMark, Zenon
<1>3. ASSUME NEW p \in Procs, NEW victim \in (0..(nextpid - 1)) \ {1}, Kill(p, victim)
      PROVE  MarkInv'
  <2>1. victim \in Nat
    BY DEF Inv, TypeOK
  <2> QED
    BY <1>3, <2>1, KillMark, Zenon
<1>4. CASE UNCHANGED vars
  BY <1>4, Zenon DEF vars, table, MarkInv
<1> QED
  BY <1>1, <1>2, <1>3, <1>4, Zenon DEF Next

(* A process is marked killed only when its own pid was given to kill(), for  *)
(* its own fault, or because kill(0) had marked its slot while it was free;   *)
(* never for what befell an earlier process of its slot.                      *)
THEOREM KillsAreMeant == Spec => []KilledIsMeant
<1>1. MarkInv => KilledIsMeant
  BY Zenon DEF MarkInv, KilledIsMeant
<1> QED
  BY <1>1, NextMark, InitMark, ProcInvariant, PTL DEF Spec
===========================================================================
