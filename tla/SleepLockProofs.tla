--------------------------- MODULE SleepLockProofs ---------------------------
(* Theorems about SleepLock, for any number of processes, locks and harts,    *)
(* once the demo locks are initialised (Inited0).                             *)
EXTENDS SleepLock, TLAPS

(* A process inside a call has a lock argument, and a walk in the middle of a *)
(* hop has hops left: what TypeOK needs to be inductive.                      *)
ArgOK ==
  \A p \in Procs :
    /\ pc[p] \in AcquirePcs \cup ReleasePcs => arg[p] \in Locks
    /\ pc[p] = "walkLock" => walk[p].hops < NPROC
    /\ pc[p] \notin InitPcs
    /\ wk[p] >= 1

TypeInv == TypeOK /\ inited = TRUE /\ ArgOK

(* The locals of a walk. *)
LEMMA WalkFields ==
  ASSUME NEW w \in Walks
  PROVE  /\ w.mode \in {"detect", "mark", "clear"} /\ w.own \in Procs \cup {None}
         /\ w.hops \in 0..NPROC /\ w.victim \in Procs \cup {None} /\ w.max \in 0..MaxEnergy
         /\ w.next \in Locks \cup {None}
  BY Zenon DEF Walks

LEMMA WalkStart ==
  ASSUME NEW m \in {"detect", "mark", "clear"}, NEW o \in Procs \cup {None},
         NEW v \in Procs \cup {None}, NEW x \in 0..MaxEnergy
  PROVE  Walk(m, o, 0, v, x, None) \in Walks
  BY SizesAssumption DEF Walks, Walk

LEMMA NoWalkType == NoWalk \in Walks
  BY SizesAssumption DEF NoWalk, Walks, Walk

LEMMA InitType == Inited0 /\ Init => TypeInv
<1> SUFFICES ASSUME Inited0, Init PROVE TypeInv
  BY Zenon
<1>1. TypeOK
  <2>1. pc \in [Procs -> PC]
    BY Zenon DEF Init, PC
  <2>2. walk \in [Procs -> Walks]
    BY NoWalkType, Zenon DEF Init
  <2>3. energy \in [Procs -> 0..MaxEnergy] /\ wk \in [Procs -> Nat]
    BY Zenon DEF Init
  <2>4. QED
    BY <2>1, <2>2, <2>3, SizesAssumption, Zenon DEF Init, TypeOK
<1>2. ArgOK /\ inited = TRUE
  BY SizesAssumption DEF Init, ArgOK, AcquirePcs, ReleasePcs, InitPcs, WalkPcs, SleepPcs
<1>3. QED
  BY <1>1, <1>2, Zenon DEF TypeInv

(* The steps that change the locals of a walk keep their types. *)
LEMMA VisitOwnerWalk ==
  ASSUME TypeInv, NEW p \in Procs, WalkGoesOn(p), VisitOwner(p)
  PROVE  /\ walk' \in [Procs -> Walks] /\ walk'[p].hops < NPROC
         /\ \A q \in Procs : q # p => walk'[q] = walk[q]
         /\ in_deadlock' \in [Procs -> BOOLEAN]
<1> DEFINE w == walk[p]
           more == w.mode = "mark" /\ energy[w.own] > w.max
           v == IF more THEN w.own ELSE w.victim
           x == IF more THEN energy[w.own] ELSE w.max
           new == Walk(w.mode, w.own, w.hops, v, x, waiting[w.own])
<1>1. w \in Walks /\ walk \in [Procs -> Walks] /\ waiting \in [Procs -> Locks \cup {None}]
      /\ in_deadlock \in [Procs -> BOOLEAN] /\ energy \in [Procs -> 0..MaxEnergy]
  BY Zenon DEF TypeInv, TypeOK
<1>2. w.own \in Procs /\ w.hops < NPROC /\ w.max \in 0..MaxEnergy
  BY <1>1, WalkFields, Zenon DEF WalkGoesOn
<1>3. new \in Walks /\ new.hops < NPROC
  BY <1>1, <1>2, Zenon DEF Walk, Walks
<1>4. walk' = [walk EXCEPT ![p] = new]
  BY Zenon DEF VisitOwner
<1>5. in_deadlock' \in [Procs -> BOOLEAN]
  BY <1>1, <1>2, Zenon DEF VisitOwner
<1> HIDE DEF new, w, v, x, more
<1>6. QED
  BY <1>1, <1>3, <1>4, <1>5, Zenon

LEMMA WalkLockWalk ==
  ASSUME TypeInv, NEW p \in Procs, WalkLock(p), ~EndWalk(p)
  PROVE  walk' \in [Procs -> Walks] /\ \A q \in Procs : q # p => walk'[q] = walk[q]
<1> DEFINE w == walk[p]
           new == Walk(w.mode, pid[w.next], w.hops + 1, w.victim, w.max, w.next)
<1>1. w \in Walks /\ walk \in [Procs -> Walks] /\ pid \in [Locks -> Procs \cup {None}]
  BY Zenon DEF TypeInv, TypeOK
<1>2. w.next \in Locks /\ w.hops \in 0..NPROC /\ w.hops < NPROC
  BY <1>1, WalkFields, Zenon DEF WalkLock, TypeInv, ArgOK, None
<1>3. new \in Walks
  BY <1>1, <1>2, SizesAssumption DEF Walk, Walks
<1>4. walk' = [walk EXCEPT ![p] = new]
  BY Zenon DEF WalkLock
<1> HIDE DEF new, w
<1>5. QED
  BY <1>1, <1>3, <1>4, Zenon

LEMMA StartClearWalk ==
  ASSUME TypeInv, NEW p \in Procs, pc[p] \in {"victim", "wakeVictim"}, StartClear(p)
  PROVE  /\ walk' \in [Procs -> Walks] /\ in_deadlock' \in [Procs -> BOOLEAN]
         /\ \A q \in Procs : q # p => walk'[q] = walk[q]
         /\ late' \in [Procs -> SUBSET Procs]
<1> DEFINE new == Walk("clear", pid[arg[p]], 0, walk[p].victim, 0, None)
<1>1. walk[p] \in Walks /\ walk \in [Procs -> Walks] /\ pid[arg[p]] \in Procs \cup {None}
      /\ in_deadlock \in [Procs -> BOOLEAN] /\ late \in [Procs -> SUBSET Procs]
  BY Zenon DEF TypeInv, TypeOK, ArgOK, AcquirePcs
<1>2. new \in Walks
  BY <1>1, SizesAssumption DEF Walk, Walks
<1>3. /\ walk' = [walk EXCEPT ![p] = new] /\ in_deadlock' = [in_deadlock EXCEPT ![p] = FALSE]
      /\ late' = [late EXCEPT ![p] = {}]
  BY Zenon DEF StartClear
<1> HIDE DEF new
<1>4. QED
  BY <1>1, <1>2, <1>3, Zenon

(* So does a charge, which never takes anything back. *)
LEMMA ChargeType ==
  ASSUME TypeInv, NEW p \in Procs, NEW n \in {0, 1, 2}, Charge(p, n)
  PROVE  /\ energy' \in [Procs -> 0..MaxEnergy] /\ late' \in [Procs -> SUBSET Procs]
         /\ \A r \in Procs : energy[r] <= energy'[r] /\ (r # p => energy'[r] = energy[r])
         /\ \A r \in Procs : late[r] \subseteq late'[r] /\ (walk[r].mode = "mark" => p \in late'[r])
<1>1. energy \in [Procs -> 0..MaxEnergy] /\ late \in [Procs -> SUBSET Procs] /\ MaxEnergy \in Nat
  BY SizesAssumption, Zenon DEF TypeInv, TypeOK
<1>2. /\ energy' \in [Procs -> 0..MaxEnergy]
      /\ \A r \in Procs : energy[r] <= energy'[r] /\ (r # p => energy'[r] = energy[r])
  BY <1>1 DEF Charge
<1>3. /\ late' \in [Procs -> SUBSET Procs]
      /\ \A r \in Procs : late[r] \subseteq late'[r] /\ (walk[r].mode = "mark" => p \in late'[r])
  <2>1. late' = [r \in Procs |-> IF walk[r].mode = "mark" THEN late[r] \cup {p} ELSE late[r]]
    BY Zenon DEF Charge
  <2> QED  BY <1>1, <2>1, Zenon
<1> QED  BY <1>2, <1>3, Zenon

LEMMA NextType == TypeInv /\ [Next]_vars => TypeInv'
<1> SUFFICES ASSUME TypeInv, [Next]_vars PROVE TypeInv'
  BY Zenon
<1>0. ASSUME NEW p \in Procs, Preempt(p) \/ Exit(p)
      PROVE  energy' \in [Procs -> 0..MaxEnergy] /\ late' \in [Procs -> SUBSET Procs]
  <2>1. PICK n \in {0, 1, 2} : Charge(p, n)
    BY <1>0, Zenon DEF Preempt, Exit
  <2> QED  BY <2>1, ChargeType, Zenon
<1> USE SizesAssumption DEF TypeInv, TypeOK, ArgOK, PC,
     AcquirePcs, ReleasePcs, InitPcs, WalkPcs, SleepPcs, lockVars, procVars, edgeVars, flagVars
<1>1. UNCHANGED vars => TypeInv'
  BY DEF vars
<1>2. \A p \in Procs, c \in CPUs : Dispatch(c, p) => TypeInv'
  BY DEF Dispatch
<1>3. ASSUME NEW p \in Procs, Preempt(p) PROVE TypeInv'
  <2>1. energy' \in [Procs -> 0..MaxEnergy] /\ late' \in [Procs -> SUBSET Procs]
    BY <1>0, <1>3, Zenon
  <2>2. state' \in [Procs -> {"UNUSED", "SLEEPING", "RUNNABLE", "RUNNING", "ZOMBIE"}]
        /\ cpu' \in [CPUs -> Procs \cup {None}]
    BY <1>3, Zenon DEF Preempt, LeaveCpu
  <2> QED  BY <1>3, <2>1, <2>2, Zenon DEF Preempt
<1>4. \A p, q \in Procs : Kill(p, q) => TypeInv'
  BY DEF Kill
<1>5. ASSUME NEW p \in Procs, Exit(p) PROVE TypeInv'
  <2>1. energy' \in [Procs -> 0..MaxEnergy] /\ late' \in [Procs -> SUBSET Procs]
    BY <1>0, <1>5, Zenon
  <2>2. state' \in [Procs -> {"UNUSED", "SLEEPING", "RUNNABLE", "RUNNING", "ZOMBIE"}]
        /\ cpu' \in [CPUs -> Procs \cup {None}]
    BY <1>5, Zenon DEF Exit, LeaveCpu
  <2>3. pc' \in [Procs -> PC] /\ \A r \in Procs : pc'[r] = pc[r] \/ pc'[r] = "dead"
    BY <1>5, Zenon DEF Exit, Goto
  <2>4. ArgOK'
    BY <1>5, <2>3, ZenonT(60) DEF Exit
  <2> QED  BY <1>5, <2>1, <2>2, <2>3, <2>4, Zenon DEF Exit
<1>6. \A p \in Procs : Reap(p) => TypeInv'
  BY DEF Reap
<1>7. \A p \in Procs, l \in Locks : DlockAcq(p, l) => TypeInv'
  BY DEF DlockAcq, Goto
<1>8. \A p \in Procs, l \in Locks : DlockRel(p, l) => TypeInv'
  BY DEF DlockRel, Goto
<1>9. \A p \in Procs : InitLock(p) \/ SetInited(p) => TypeInv'
  BY Zenon DEF InitLock, SetInited
<1>10. \A p \in Procs : AcquireSpin(p) => TypeInv'
  BY DEF AcquireSpin, Goto
<1>11. \A p \in Procs : TakeLock(p) => TypeInv'
  BY DEF TakeLock, Return, Goto
<1>12. ASSUME NEW p \in Procs, BeginWait(p) PROVE TypeInv'
  <2>1. Walk("detect", pid[arg[p]], 0, None, 0, None) \in Walks
    <3>1. pid[arg[p]] \in Procs \cup {None}
      BY <1>12, Zenon DEF BeginWait
    <3>2. 0 \in 0..MaxEnergy
      OBVIOUS
    <3>3. QED
      BY <3>1, <3>2, WalkStart, Zenon
  <2>2. QED
    BY <1>12, <2>1, ZenonT(60) DEF BeginWait, Goto
<1>13. \A p \in Procs : DrainStore(p) => TypeInv'
  BY DEF DrainStore
<1>14. ASSUME NEW p \in Procs, WalkOwner(p) PROVE TypeInv'
  <2>1. CASE EndWalk(p)
    BY <1>14, <2>1, NoWalkType, ZenonT(60) DEF WalkOwner, EndWalk, Goto
  <2>2. CASE WalkGoesOn(p) /\ StartMark(p)
    <3>1. Walk("mark", pid[arg[p]], 0, p, energy[p], None) \in Walks
      <4>1. pid[arg[p]] \in Procs \cup {None}
        BY <1>14, Zenon DEF WalkOwner
      <4>2. QED
        BY <4>1, WalkStart, Zenon
    <3>2. QED
      BY <1>14, <2>2, <3>1, ZenonT(60) DEF WalkOwner, StartMark, Goto
  <2>3. CASE WalkGoesOn(p) /\ VisitOwner(p)
    <3>1. pc' = [pc EXCEPT ![p] = "walkLock"]
      BY <2>3, Zenon DEF VisitOwner, Goto
    <3>2. /\ walk' \in [Procs -> Walks] /\ walk'[p].hops < NPROC
          /\ \A q \in Procs : q # p => walk'[q] = walk[q]
          /\ in_deadlock' \in [Procs -> BOOLEAN]
      BY <2>3, VisitOwnerWalk, Zenon
    <3>3. UNCHANGED <<locked, pid, lk, state, chan, killed, cpu, waiting, sb, reported, energy,
                      late, inited, again, arg, wk>>
      BY <1>14, <2>3, Zenon DEF WalkOwner, VisitOwner
    <3>4. QED
      BY <1>14, <3>1, <3>2, <3>3, ZenonT(60) DEF WalkOwner
  <2>4. QED
    BY <1>14, <2>1, <2>2, <2>3, Zenon DEF WalkOwner
<1>15. ASSUME NEW p \in Procs, WalkLock(p) PROVE TypeInv'
  <2>1. CASE EndWalk(p)
    BY <1>15, <2>1, NoWalkType, SMTT(30) DEF WalkLock, EndWalk, Goto
  <2>2. CASE ~EndWalk(p)
    <3>1. pc' = [pc EXCEPT ![p] = "walk"]
      BY <1>15, <2>2, Zenon DEF WalkLock, Goto
    <3>2. QED
      BY <1>15, <2>2, <3>1, WalkLockWalk, SMTT(90) DEF WalkLock
  <2>3. QED
    BY <2>1, <2>2, Zenon
<1>16. ASSUME NEW p \in Procs, KillVictim(p) PROVE TypeInv'
  <2>1. CASE pc' = [pc EXCEPT ![p] = "wakeVictim"]
    BY <1>16, <2>1, ZenonT(60) DEF KillVictim, Goto
  <2>2. CASE StartClear(p) /\ pc' = [pc EXCEPT ![p] = "walk"]
    <3>1. /\ walk' \in [Procs -> Walks] /\ in_deadlock' \in [Procs -> BOOLEAN]
          /\ \A q \in Procs : q # p => walk'[q] = walk[q]
          /\ late' \in [Procs -> SUBSET Procs]
      BY <1>16, <2>2, StartClearWalk, Zenon DEF KillVictim
    <3>2. killed' \in [Procs -> BOOLEAN]
      <4>1. killed \in [Procs -> BOOLEAN] /\ killed' = [killed EXCEPT ![walk[p].victim] = TRUE]
        BY <1>16, Zenon DEF KillVictim
      <4> QED
        BY <4>1, Zenon
    <3>3. UNCHANGED <<lockVars, state, chan, cpu, edgeVars, reported, energy, inited, again, arg, wk>>
      BY <1>16, Zenon DEF KillVictim
    <3>4. QED
      BY <1>16, <2>2, <3>1, <3>2, <3>3, SMTT(90) DEF KillVictim
  <2>3. QED
    BY <1>16, <2>1, <2>2, Zenon DEF KillVictim, Goto
<1>17. ASSUME NEW p \in Procs, WakeVictim(p) PROVE TypeInv'
  BY <1>17, StartClearWalk, ZenonT(60) DEF WakeVictim, Goto
<1>18. \A p \in Procs : Sleep1(p) => TypeInv'
  BY DEF Sleep1, Goto
<1>19. \A p \in Procs : Sleep2(p) => TypeInv'
  BY DEF Sleep2, Goto
<1>20. \A p \in Procs : Sleep3(p) => TypeInv'
  BY DEF Sleep3, LeaveCpu, Goto
<1>21. \A p \in Procs : HoldingSleep(p) => TypeInv'
  BY SMTT(30) DEF HoldingSleep, Return, Goto
<1>22. \A p \in Procs : ReleaseSleep(p) => TypeInv'
  BY DEF ReleaseSleep, Goto
<1>23. ASSUME NEW p \in Procs, WakeStep(p) PROVE TypeInv'
  <2>1. wk[p] \in Procs
    BY <1>23 DEF WakeStep, Procs
  <2>2. state' \in [Procs -> {"UNUSED", "SLEEPING", "RUNNABLE", "RUNNING", "ZOMBIE"}]
    BY <1>23, <2>1, Zenon DEF WakeStep
  <2>3. wk' \in [Procs -> Nat] /\ \A q \in Procs : wk'[q] >= 1
    BY <1>23 DEF WakeStep
  <2>4. QED
    BY <1>23, <2>2, <2>3, Zenon DEF WakeStep
<1>24. \A p \in Procs : WakeDone(p) => TypeInv'
  BY DEF WakeDone, Return, Goto
<1>25. QED
  BY <1>1, <1>2, <1>3, <1>4, <1>5, <1>6, <1>7, <1>8, <1>9, <1>10, <1>11, <1>12, <1>13, <1>14, <1>15,
     <1>16, <1>17, <1>18, <1>19, <1>20, <1>21, <1>22, <1>23, <1>24, ZenonT(60) DEF Next, KernelStep

(* TypeOK for every number of processes, locks and harts, from the            *)
(* initialised demo locks on.                                                 *)
THEOREM TypeCorrect == Inited0 => (Spec => []TypeOK)
<1> SUFFICES ASSUME Inited0 PROVE Spec => []TypeOK
  BY Zenon
<1>1. TypeInv => TypeOK
  BY Zenon DEF TypeInv
<1>2. Init => TypeInv
  BY InitType, Zenon
<1>3. QED
  BY <1>1, <1>2, NextType, PTL DEF Spec

-----------------------------------------------------------------------------
(* A step that leaves the spinlocks alone: nobody enters or leaves a critical *)
(* section.                                                                   *)
SpinQuiet ==
  /\ lk' = lk
  /\ \A r \in Procs : /\ pc'[r] \in CriticalPcs <=> pc[r] \in CriticalPcs
                      /\ pc[r] \in CriticalPcs => arg'[r] = arg[r]

LEMMA SpinKept ==
  ASSUME TypeInv, SpinLockHeld, SpinQuiet
  PROVE  SpinLockHeld'
<1>1. lk \in [Locks -> Procs \cup {None}]
  BY Zenon DEF TypeInv, TypeOK
<1>2. QED
  BY <1>1 DEF SpinLockHeld, SpinQuiet

(* The discipline of the spinlocks. *)
LEMMA NextSpin == TypeInv /\ SpinLockHeld /\ [Next]_vars => SpinLockHeld'
<1> SUFFICES ASSUME TypeInv, SpinLockHeld, [Next]_vars PROVE SpinLockHeld'
  BY Zenon
<1> DEFINE Types == /\ lk \in [Locks -> Procs \cup {None}] /\ pc \in [Procs -> PC]
                    /\ arg \in [Procs -> Locks \cup {None}]
<1>0. Types /\ None \notin Procs /\ None \notin Locks
  BY DEF TypeInv, TypeOK, None, Procs, Locks
<1> USE <1>0 DEF lockVars, procVars, edgeVars, flagVars, AcquirePcs, ReleasePcs, InitPcs, WalkPcs,
     SleepPcs, CriticalPcs, PreemptiblePcs
<1>1. UNCHANGED vars => SpinQuiet
  BY Zenon DEF vars, SpinQuiet
<1>2. \A p \in Procs, c \in CPUs : Dispatch(c, p) => SpinQuiet
  BY DEF Dispatch, PLockHeld, SpinQuiet
<1>3. \A p, q \in Procs : Kill(p, q) => SpinQuiet
  BY Zenon DEF Kill, SpinQuiet
<1>4. \A p \in Procs, l \in Locks : DlockAcq(p, l) \/ DlockRel(p, l) => SpinQuiet
  BY DEF DlockAcq, DlockRel, Goto, SpinQuiet
<1>5. \A p \in Procs : Preempt(p) \/ Exit(p) \/ Reap(p) \/ DrainStore(p) => SpinQuiet
  BY ZenonT(60) DEF Preempt, Exit, Reap, DrainStore, Goto, SpinQuiet
<1>6. \A p \in Procs : BeginWait(p) \/ WalkOwner(p) \/ WalkLock(p) => SpinQuiet
  BY DEF BeginWait, WalkOwner, WalkLock, EndWalk, StartMark, VisitOwner, Goto, SpinQuiet
<1>7. \A p \in Procs : KillVictim(p) \/ WakeVictim(p) => SpinQuiet
  BY SMTT(60) DEF KillVictim, WakeVictim, Goto, SpinQuiet
<1>8. \A p \in Procs : Sleep1(p) \/ Sleep3(p) \/ HoldingSleep(p) \/ WakeStep(p) => SpinQuiet
  BY DEF Sleep1, Sleep3, HoldingSleep, WakeStep, Return, Goto, SpinQuiet
<1>9. \A p \in Procs : InitLock(p) \/ SetInited(p) => SpinLockHeld'
  BY ZenonT(60) DEF InitLock, SetInited, TypeInv, ArgOK
<1>10. \A p \in Procs : AcquireSpin(p) => SpinLockHeld'
  BY DEF AcquireSpin, Goto, SpinLockHeld, TypeInv, ArgOK
<1>11. \A p \in Procs : TakeLock(p) => SpinLockHeld'
  BY DEF TakeLock, Return, Goto, SpinLockHeld, TypeInv, ArgOK
<1>12. \A p \in Procs : Sleep2(p) => SpinLockHeld'
  BY DEF Sleep2, Goto, SpinLockHeld, TypeInv, ArgOK
<1>13. \A p \in Procs : ReleaseSleep(p) => SpinLockHeld'
  BY DEF ReleaseSleep, Goto, SpinLockHeld, TypeInv, ArgOK
<1>14. \A p \in Procs : WakeDone(p) => SpinLockHeld'
  BY DEF WakeDone, Return, Goto, SpinLockHeld, TypeInv, ArgOK
<1>15. SpinQuiet => SpinLockHeld'
  BY SpinKept, Zenon
<1> QED
  BY <1>1, <1>2, <1>3, <1>4, <1>5, <1>6, <1>7, <1>8, <1>9, <1>10, <1>11, <1>12, <1>13, <1>14, <1>15,
     Zenon DEF Next, KernelStep

(* What a process knows at a place of its code: it holds the lock that it is  *)
(* about to release; the lock it decided to wait for stays held until it has  *)
(* released the spinlock; only a process inside sched() is SLEEPING.          *)
PlaceInv ==
  \A p \in Procs :
    /\ pc[p] = "rel" => Holds(p, arg[p])
    /\ pc[p] \in {"walk", "walkLock", "victim", "wakeVictim", "sleep1", "sleep2"} => locked[arg[p]]
    /\ pc[p] # "asleep" => state[p] # "SLEEPING"

(* A step that moves no process, frees no lock and puts nobody to sleep. *)
PlaceQuiet ==
  /\ pc' = pc /\ arg' = arg /\ locked' = locked /\ pid' = pid
  /\ \A r \in Procs : state'[r] = "SLEEPING" => state[r] = "SLEEPING"

LEMMA PlaceKept ==
  ASSUME PlaceInv, PlaceQuiet
  PROVE  PlaceInv'
  BY Zenon DEF PlaceInv, PlaceQuiet, Holds

LEMMA NextPlace == TypeInv /\ SpinLockHeld /\ PlaceInv /\ [Next]_vars => PlaceInv'
<1> SUFFICES ASSUME TypeInv, SpinLockHeld, PlaceInv, [Next]_vars PROVE PlaceInv'
  BY Zenon
<1> DEFINE Types == /\ lk \in [Locks -> Procs \cup {None}] /\ pc \in [Procs -> PC]
                    /\ arg \in [Procs -> Locks \cup {None}] /\ locked \in [Locks -> BOOLEAN]
                    /\ pid \in [Locks -> Procs \cup {None}]
                    /\ state \in [Procs -> {"UNUSED", "SLEEPING", "RUNNABLE", "RUNNING", "ZOMBIE"}]
<1>0. Types /\ None \notin Procs /\ None \notin Locks
  BY DEF TypeInv, TypeOK, None, Procs, Locks
<1> USE <1>0 DEF lockVars, procVars, edgeVars, flagVars, AcquirePcs, ReleasePcs, InitPcs, WalkPcs,
     SleepPcs, CriticalPcs
<1>1. UNCHANGED vars => PlaceQuiet
  BY Zenon DEF vars, PlaceQuiet
<1>2. \A p \in Procs, c \in CPUs : Dispatch(c, p) => PlaceInv'
  BY DEF Dispatch, PlaceInv, Holds
<1>3. \A p, q \in Procs : Kill(p, q) => PlaceQuiet
  BY ZenonT(60) DEF Kill, PlaceQuiet
<1>4. \A p \in Procs : Preempt(p) \/ Reap(p) \/ DrainStore(p) => PlaceQuiet
  BY ZenonT(60) DEF Preempt, Reap, DrainStore, PlaceQuiet
<1>5. \A p \in Procs : WakeStep(p) => PlaceQuiet
  BY DEF WakeStep, PlaceQuiet
<1>6. \A p \in Procs, l \in Locks : DlockAcq(p, l) => PlaceInv'
  BY DEF DlockAcq, Goto, PlaceInv, Holds
<1>7. \A p \in Procs, l \in Locks : DlockRel(p, l) => PlaceInv'
  BY DEF DlockRel, Goto, PlaceInv, Holds
<1>8. \A p \in Procs : InitLock(p) \/ SetInited(p) => PlaceInv'
  BY Zenon DEF InitLock, SetInited, TypeInv, ArgOK
<1>9. \A p \in Procs : AcquireSpin(p) => PlaceInv'
  BY SMTT(90) DEF AcquireSpin, Goto, PlaceInv, Holds, SpinLockHeld, TypeInv, ArgOK
<1>10. \A p \in Procs : TakeLock(p) => PlaceInv'
  BY SMTT(90) DEF TakeLock, Return, Goto, PlaceInv, Holds, SpinLockHeld, TypeInv, ArgOK
<1>11. \A p \in Procs : BeginWait(p) => PlaceInv'
  BY SMTT(90) DEF BeginWait, Goto, PlaceInv, Holds, SpinLockHeld, TypeInv, ArgOK
<1>12. \A p \in Procs : Sleep2(p) => PlaceInv'
  BY SMTT(90) DEF Sleep2, Goto, PlaceInv, Holds, SpinLockHeld, TypeInv, ArgOK
<1>13. \A p \in Procs : WalkOwner(p) \/ WalkLock(p) => PlaceInv'
  BY SMTT(90) DEF WalkOwner, WalkLock, EndWalk, StartMark, VisitOwner, Goto, PlaceInv, Holds
<1>14. \A p \in Procs : KillVictim(p) \/ WakeVictim(p) => PlaceInv'
  BY SMTT(90) DEF KillVictim, WakeVictim, Goto, PlaceInv, Holds
<1>15. \A p \in Procs : Exit(p) \/ Sleep1(p) \/ Sleep3(p) => PlaceInv'
  BY DEF Exit, Sleep1, Sleep3, Goto, PlaceInv, Holds
<1>16. \A p \in Procs : HoldingSleep(p) => PlaceInv'
  BY SMTT(90) DEF HoldingSleep, Return, Goto, PlaceInv, Holds, SpinLockHeld, TypeInv, ArgOK
<1>17. \A p \in Procs : ReleaseSleep(p) => PlaceInv'
  BY SMTT(90) DEF ReleaseSleep, Goto, PlaceInv, Holds, SpinLockHeld, TypeInv, ArgOK
<1>18. \A p \in Procs : WakeDone(p) => PlaceInv'
  BY SMTT(90) DEF WakeDone, Return, Goto, PlaceInv, Holds, SpinLockHeld, TypeInv, ArgOK
<1>19. PlaceQuiet => PlaceInv'
  BY PlaceKept, ZenonT(60)
<1> QED
  BY <1>1, <1>2, <1>3, <1>4, <1>5, <1>6, <1>7, <1>8, <1>9, <1>10, <1>11, <1>12, <1>13, <1>14,
     <1>15, <1>16, <1>17, <1>18, <1>19, Zenon DEF Next, KernelStep

-----------------------------------------------------------------------------
(* NoLostWakeup is not inductive: between release(lk) and the store of        *)
(* SLEEPING the process is not asleep yet, and the releaser that finds the    *)
(* spinlock free at that moment is held up at p->lock.                        *)
Handoff ==
  \A p \in Procs, l \in Locks :
    /\ \/ state[p] = "SLEEPING" /\ chan[p] = l
       \/ pc[p] = "sleep3" /\ arg[p] = l
    /\ ~locked[l]
    => \E q \in Procs : pc[q] = "wake" /\ arg[q] = l /\ wk[q] <= p

(* A step that leaves every sleeper and every waker where it is, and frees no *)
(* lock.                                                                      *)
HandoffQuiet ==
  /\ \A r \in Procs : state'[r] = "SLEEPING" => state[r] = "SLEEPING" /\ chan'[r] = chan[r]
  /\ \A r \in Procs : pc'[r] = "sleep3" => pc[r] = "sleep3" /\ arg'[r] = arg[r]
  /\ \A l \in Locks : locked[l] => locked'[l]
  /\ \A r \in Procs : pc[r] = "wake" => pc'[r] = "wake" /\ arg'[r] = arg[r] /\ wk'[r] = wk[r]

LEMMA HandoffKept ==
  ASSUME Handoff, HandoffQuiet
  PROVE  Handoff'
  BY SMTT(90) DEF Handoff, HandoffQuiet

LEMMA NextHandoff ==
  TypeInv /\ SpinLockHeld /\ PlaceInv /\ Handoff /\ [Next]_vars => Handoff'
<1> SUFFICES ASSUME TypeInv, SpinLockHeld, PlaceInv, Handoff, [Next]_vars PROVE Handoff'
  BY Zenon
<1> DEFINE Types == /\ pc \in [Procs -> PC] /\ chan \in [Procs -> Locks \cup {None}]
                    /\ arg \in [Procs -> Locks \cup {None}] /\ locked \in [Locks -> BOOLEAN]
                    /\ wk \in [Procs -> Nat]
                    /\ state \in [Procs -> {"UNUSED", "SLEEPING", "RUNNABLE", "RUNNING", "ZOMBIE"}]
<1>0. Types /\ None \notin Procs /\ None \notin Locks /\ Procs \subseteq 1..NPROC /\ NPROC \in Nat
  BY SizesAssumption DEF TypeInv, TypeOK, None, Procs, Locks
<1> USE <1>0 DEF lockVars, procVars, edgeVars, flagVars, AcquirePcs, ReleasePcs, InitPcs, WalkPcs,
     SleepPcs, CriticalPcs, PreemptiblePcs
<1>1. UNCHANGED vars => HandoffQuiet
  BY Zenon DEF vars, HandoffQuiet
<1>2. \A p \in Procs, c \in CPUs : Dispatch(c, p) => HandoffQuiet
  BY DEF Dispatch, PLockHeld, HandoffQuiet
<1>3. \A p, q \in Procs : Kill(p, q) => HandoffQuiet
  BY ZenonT(60) DEF Kill, HandoffQuiet
<1>4. \A p \in Procs, l \in Locks : DlockAcq(p, l) \/ DlockRel(p, l) => HandoffQuiet
  BY DEF DlockAcq, DlockRel, Goto, HandoffQuiet
<1>5. \A p \in Procs : Preempt(p) \/ Exit(p) \/ Reap(p) \/ DrainStore(p) => HandoffQuiet
  BY SMTT(30) DEF Preempt, Exit, Reap, DrainStore, Goto, HandoffQuiet
<1>6. \A p \in Procs : AcquireSpin(p) \/ TakeLock(p) \/ HoldingSleep(p) \/ Sleep1(p) => HandoffQuiet
  BY SMTT(30) DEF AcquireSpin, TakeLock, HoldingSleep, Sleep1, Return, Goto, HandoffQuiet
<1>7. \A p \in Procs : BeginWait(p) \/ WalkOwner(p) \/ WalkLock(p) => HandoffQuiet
  BY DEF BeginWait, WalkOwner, WalkLock, EndWalk, StartMark, VisitOwner, Goto, HandoffQuiet
<1>8. \A p \in Procs : KillVictim(p) => HandoffQuiet
  BY ZenonT(60) DEF KillVictim, Goto, HandoffQuiet
<1>9. \A p \in Procs : WakeVictim(p) => HandoffQuiet
  BY ZenonT(60) DEF WakeVictim, Goto, HandoffQuiet
<1>10. \A p \in Procs : InitLock(p) \/ SetInited(p) => Handoff'
  BY Zenon DEF InitLock, SetInited, TypeInv, ArgOK
<1>11. ASSUME NEW p \in Procs, Sleep2(p) PROVE Handoff'
  BY <1>11, SMTT(90) DEF Sleep2, Goto, Handoff, PlaceInv, SpinLockHeld, TypeInv, ArgOK, PLockHeld
<1>12. ASSUME NEW p \in Procs, Sleep3(p) PROVE Handoff'
  BY <1>12, SMTT(90) DEF Sleep3, Goto, Handoff, PlaceInv, SpinLockHeld, TypeInv, ArgOK, PLockHeld
<1>13. ASSUME NEW p \in Procs, ReleaseSleep(p) PROVE Handoff'
  <2>1. /\ pc[p] = "rel" /\ pc'[p] = "wake" /\ wk'[p] = 1 /\ UNCHANGED <<state, chan, arg>>
        /\ \A q \in Procs \ {p} : pc'[q] = pc[q] /\ wk'[q] = wk[q]
    BY <1>13, SMTT(90) DEF ReleaseSleep, Goto, TypeInv, TypeOK, procVars
  <2>2. \A l \in Locks \ {arg[p]} : locked'[l] = locked[l]
    BY <1>13, Zenon DEF ReleaseSleep, TypeInv, TypeOK
  <2>3. QED
    <3> SUFFICES ASSUME NEW r \in Procs, NEW l \in Locks, ~locked'[l],
                        \/ state'[r] = "SLEEPING" /\ chan'[r] = l
                        \/ pc'[r] = "sleep3" /\ arg'[r] = l
                 PROVE  \E q \in Procs : pc'[q] = "wake" /\ arg'[q] = l /\ wk'[q] <= r
      BY Zenon DEF Handoff
    <3>1. CASE l = arg[p]
      <4>1. wk'[p] <= r
        BY <2>1 DEF Procs
      <4> QED
        BY <2>1, <3>1, <4>1, Zenon
    <3>2. CASE l # arg[p]
      <4>1. ~locked[l]
        BY <2>2, <3>2, Zenon
      <4>2. \/ state[r] = "SLEEPING" /\ chan[r] = l
            \/ pc[r] = "sleep3" /\ arg[r] = l
        BY <2>1, Zenon
      <4>3. PICK q \in Procs : pc[q] = "wake" /\ arg[q] = l /\ wk[q] <= r
        BY <4>1, <4>2, Zenon DEF Handoff
      <4>4. q # p
        BY <2>1, <4>3, ZenonT(60)
      <4> QED
        BY <2>1, <4>3, <4>4, Zenon
    <3> QED
      BY <3>1, <3>2, Zenon
<1>14. ASSUME NEW p \in Procs, WakeStep(p) PROVE Handoff'
  <2>1. /\ pc[p] = "wake" /\ wk[p] \in Nat
        /\ wk[p] # p => ~PLockHeld(wk[p])
        /\ state' = [state EXCEPT ![wk[p]] =
                        IF wk[p] # p /\ state[wk[p]] = "SLEEPING" /\ chan[wk[p]] = arg[p]
                        THEN "RUNNABLE" ELSE state[wk[p]]]
        /\ wk' = [wk EXCEPT ![p] = wk[p] + 1]
        /\ UNCHANGED <<locked, chan, pc, arg>>
    BY <1>14, Zenon DEF WakeStep
  <2>2. wk'[p] = wk[p] + 1 /\ \A q \in Procs \ {p} : wk'[q] = wk[q]
    BY <2>1, Zenon
  <2>3. SUFFICES ASSUME NEW r \in Procs, NEW l \in Locks, ~locked'[l],
                        \/ state'[r] = "SLEEPING" /\ chan'[r] = l
                        \/ pc'[r] = "sleep3" /\ arg'[r] = l
                 PROVE  \E q \in Procs : pc'[q] = "wake" /\ arg'[q] = l /\ wk'[q] <= r
    BY Zenon DEF Handoff
  <2>4. state'[r] = "SLEEPING" => state[r] = "SLEEPING" /\ (r = wk[p] /\ r # p => chan[r] # arg[p])
    BY <2>1, Zenon
  <2>5. \/ state[r] = "SLEEPING" /\ chan[r] = l
        \/ pc[r] = "sleep3" /\ arg[r] = l
    BY <2>1, <2>3, <2>4, Zenon
  <2>6. PICK q \in Procs : pc[q] = "wake" /\ arg[q] = l /\ wk[q] <= r
    BY <2>1, <2>3, <2>5, Zenon DEF Handoff
  <2>7. CASE q # p
    BY <2>1, <2>2, <2>6, <2>7, Zenon
  <2>8. CASE q = p
    <3>1. r # p
      BY <2>1, <2>3, <2>4, Zenon DEF PlaceInv
    <3>2. r # wk[p]
      <4>1. pc[r] = "sleep3" => PLockHeld(r)
        BY Zenon DEF PLockHeld
      <4> QED BY <2>1, <2>3, <2>4, <2>6, <2>8, <3>1, <4>1, Zenon
    <3>3. r \in Nat /\ wk[p] + 1 <= r
      BY <2>1, <2>6, <2>8, <3>2, SMTT(30) DEF Procs
    <3> QED BY <2>1, <2>2, <2>6, <2>8, <3>3, Zenon
  <2> QED BY <2>7, <2>8, Zenon
<1>15. ASSUME NEW p \in Procs, WakeDone(p) PROVE Handoff'
  <2> SUFFICES ASSUME NEW r \in Procs, NEW l \in Locks, ~locked'[l],
                      \/ state'[r] = "SLEEPING" /\ chan'[r] = l
                      \/ pc'[r] = "sleep3" /\ arg'[r] = l
               PROVE  \E q \in Procs : pc'[q] = "wake" /\ arg'[q] = l /\ wk'[q] <= r
    BY Zenon DEF Handoff
  <2>1. /\ pc[p] = "wake" /\ wk[p] > NPROC /\ pc' = [pc EXCEPT ![p] = "user"]
        /\ arg' = [arg EXCEPT ![p] = None] /\ wk' = [wk EXCEPT ![p] = 1]
        /\ UNCHANGED <<locked, state, chan>> /\ wk \in [Procs -> Nat]
    BY <1>15, Zenon DEF WakeDone, Return, Goto, TypeInv, TypeOK
  <2>2. ~locked[l] /\ ((state[r] = "SLEEPING" /\ chan[r] = l) \/ (pc[r] = "sleep3" /\ arg[r] = l))
    BY <1>15, <2>1, Zenon
  <2>3. PICK q \in Procs : pc[q] = "wake" /\ arg[q] = l /\ wk[q] <= r
    BY <2>2, Zenon DEF Handoff
  <2>4. q # p
    BY <2>1, <2>3 DEF Procs
  <2> QED  BY <2>1, <2>3, <2>4, Zenon
<1>16. HandoffQuiet => Handoff'
  BY HandoffKept, Zenon
<1> QED
  BY <1>1, <1>2, <1>3, <1>4, <1>5, <1>6, <1>7, <1>8, <1>9, <1>10, <1>11, <1>12, <1>13, <1>14, <1>15,
     <1>16, Zenon DEF Next, KernelStep

-----------------------------------------------------------------------------
(* The inductive invariant. *)
IInv == TypeInv /\ SpinLockHeld /\ PlaceInv /\ Handoff

LEMMA InitIInv == Inited0 /\ Init => IInv
<1> SUFFICES ASSUME Inited0, Init PROVE IInv
  BY Zenon
<1>1. TypeInv
  BY InitType, Zenon
<1>2. SpinLockHeld /\ PlaceInv /\ Handoff
  BY Zenon DEF Init, SpinLockHeld, PlaceInv, Handoff, CriticalPcs, WalkPcs
<1>3. QED
  BY <1>1, <1>2, Zenon DEF IInv

LEMMA IInvInvariant == Inited0 => (Spec => []IInv)
<1> SUFFICES ASSUME Inited0 PROVE Spec => []IInv
  BY Zenon
<1>1. Init => IInv
  BY InitIInv, Zenon
<1>2. IInv /\ [Next]_vars => IInv'
  BY NextType, NextSpin, NextPlace, NextHandoff, Zenon DEF IInv
<1>3. QED
  BY <1>1, <1>2, PTL DEF Spec

(* No panic of acquire(), release() or sched() on the spinlock of a sleeplock, *)
(* whatever the number of processes, locks and harts.                         *)
THEOREM SpinLocksHeld == Inited0 => (Spec => []SpinLockHeld)
<1> SUFFICES ASSUME Inited0 PROVE Spec => []SpinLockHeld
  BY Zenon
<1>1. IInv => SpinLockHeld
  BY Zenon DEF IInv
<1>2. QED
  BY <1>1, IInvInvariant, PTL

(* sleep() and wakeup() lose no wakeup of a sleeplock, with kill, preemption  *)
(* and the recovery's unlocked wakeup interleaved in any way.                 *)
THEOREM WakeupsNotLost == Inited0 => (Spec => []NoLostWakeup)
<1> SUFFICES ASSUME Inited0 PROVE Spec => []NoLostWakeup
  BY Zenon
<1>1. IInv => NoLostWakeup
  BY Zenon DEF IInv, Handoff, NoLostWakeup
<1>2. QED
  BY <1>1, IInvInvariant, PTL

(* Only initsleeplock(), the end of acquiresleep() and releasesleep() write   *)
(* locked and pid.                                                            *)
LEMMA WhoChangesLocks ==
  Next /\ ~UNCHANGED <<locked, pid>> =>
    \E p \in Procs : InitLock(p) \/ TakeLock(p) \/ ReleaseSleep(p)
<1>1. \A p \in Procs, c \in CPUs : Dispatch(c, p) => UNCHANGED <<locked, pid>>
  BY Zenon DEF Dispatch, lockVars
<1>2. \A p \in Procs : Preempt(p) \/ Exit(p) \/ Reap(p) => UNCHANGED <<locked, pid>>
  BY Zenon DEF Preempt, Exit, Reap, lockVars
<1>3. \A p, q \in Procs : Kill(p, q) => UNCHANGED <<locked, pid>>
  BY Zenon DEF Kill, lockVars
<1>4. \A p \in Procs, m \in Locks : DlockAcq(p, m) \/ DlockRel(p, m) => UNCHANGED <<locked, pid>>
  BY Zenon DEF DlockAcq, DlockRel, lockVars
<1>5. \A p \in Procs : SetInited(p) \/ AcquireSpin(p) \/ BeginWait(p) \/ DrainStore(p)
                         => UNCHANGED <<locked, pid>>
  BY Zenon DEF SetInited, AcquireSpin, BeginWait, DrainStore, lockVars
<1>6. \A p \in Procs : WalkOwner(p) \/ WalkLock(p) \/ KillVictim(p) \/ WakeVictim(p)
                         => UNCHANGED <<locked, pid>>
  BY Zenon DEF WalkOwner, WalkLock, KillVictim, WakeVictim, lockVars
<1>7. \A p \in Procs : Sleep1(p) \/ Sleep2(p) \/ Sleep3(p) => UNCHANGED <<locked, pid>>
  BY Zenon DEF Sleep1, Sleep2, Sleep3, lockVars
<1>8. \A p \in Procs : HoldingSleep(p) \/ WakeStep(p) \/ WakeDone(p) => UNCHANGED <<locked, pid>>
  BY Zenon DEF HoldingSleep, WakeStep, WakeDone, lockVars
<1>9. QED
  BY <1>1, <1>2, <1>3, <1>4, <1>5, <1>6, <1>7, <1>8, Zenon DEF Next, KernelStep

LEMMA StepKeepsHolder ==
  IInv /\ [Next]_vars =>
    [\A l \in Locks, p \in Procs : Holds(p, l) /\ ~Holds(p, l)' => pc[p] = "rel" /\ arg[p] = l]_vars
<1> SUFFICES ASSUME IInv, Next, NEW l \in Locks, NEW r \in Procs, Holds(r, l), ~Holds(r, l)'
             PROVE  pc[r] = "rel" /\ arg[r] = l
  BY Zenon
<1> USE DEF Holds
<1>1. /\ locked \in [Locks -> BOOLEAN] /\ pid \in [Locks -> Procs \cup {None}]
      /\ arg \in [Procs -> Locks \cup {None}]
  BY Zenon DEF IInv, TypeInv, TypeOK
<1>2. ~UNCHANGED <<locked, pid>>
  BY Zenon
<1>3. PICK p \in Procs : InitLock(p) \/ TakeLock(p) \/ ReleaseSleep(p)
  BY <1>2, WhoChangesLocks, Zenon
<1>4. CASE InitLock(p)
  BY <1>4, Zenon DEF InitLock, IInv, TypeInv, ArgOK
<1>5. CASE TakeLock(p)
  <2>1. locked' = [locked EXCEPT ![arg[p]] = TRUE] /\ pid' = [pid EXCEPT ![arg[p]] = p] /\ ~locked[arg[p]]
    BY <1>5, Zenon DEF TakeLock
  <2>2. QED
    BY <2>1, <1>1, Zenon
<1>6. CASE ReleaseSleep(p)
  <2>1. pc[p] = "rel" /\ Holds(p, arg[p])
    BY <1>6, Zenon DEF ReleaseSleep, IInv, PlaceInv
  <2>2. locked' = [locked EXCEPT ![arg[p]] = FALSE] /\ pid' = [pid EXCEPT ![arg[p]] = None]
    BY <1>6, Zenon DEF ReleaseSleep
  <2>3. QED
    BY <2>1, <2>2, <1>1, Zenon
<1>7. QED
  BY <1>3, <1>4, <1>5, <1>6, Zenon

(* A sleeplock leaves its holder only through the holder's own releasesleep. *)
THEOREM HolderReleases == Inited0 => (Spec => OnlyHolderReleases)
<1> SUFFICES ASSUME Inited0 PROVE Spec => OnlyHolderReleases
  BY Zenon
<1>1. QED
  BY IInvInvariant, StepKeepsHolder, PTL DEF Spec, OnlyHolderReleases

-----------------------------------------------------------------------------
(* The edges of the wait-for graph that a walk follows: waiting_for_lock is   *)
(* the argument of a process inside acquiresleep, a lock is held by somebody, *)
(* and a process that is not there any more is in no call.                    *)
Scan == WalkPcs \cup {"victim", "wakeVictim"}

EdgeInv ==
  /\ \A p \in Procs :
       /\ waiting[p] # None => InAcquire(p) /\ waiting[p] = arg[p]
       /\ sb[p] # None => pc[p] \in Scan \cup {"sleep1"} /\ sb[p] = arg[p]
       /\ state[p] \in {"ZOMBIE", "UNUSED"} => pc[p] = "dead"
  /\ \A l \in Locks : locked[l] <=> pid[l] # None

(* The owner of the lock that p is after is p, or waits for a lock of p. *)
Closed(p) ==
  \/ Blocker(p) = p
  \/ Blocker(p) \in Procs /\ waiting[Blocker(p)] # None /\ Blocker(Blocker(p)) = p

(* The first walk with two locks: past the first owner it can come to p only  *)
(* when that owner waits for p's lock, and has waited ever since.             *)
Search(p) ==
  LET w == walk[p]
  IN w.mode = "detect" =>
       /\ pc[p] = "walk" =>
            /\ w.own = p => Closed(p)
            /\ w.own \notin {p, Blocker(p)} => \A l \in Locks \ {arg[p]} : pid[l] # p
       /\ pc[p] = "walkLock" /\ w.next \notin {None, arg[p]} /\ pid[w.next] = p =>
            w.own = Blocker(p) /\ waiting[w.own] = w.next

(* max_energy is at least what p consumed, and what the owner had when p      *)
(* looked at it; the victim has not less.                                     *)
Hungriest(p) ==
  LET v == walk[p].victim
      m == walk[p].max
  IN /\ v \in {p, Blocker(p)} /\ m <= energy[v]
     /\ energy[p] <= m /\ (energy[Blocker(p)] <= m \/ Blocker(p) \in late[p])

Recovering(p) ==
  pc[p] \in {"victim", "wakeVictim"} \/ (pc[p] \in WalkPcs /\ walk[p].mode # "detect")

(* The second and the third walk go from p to the first owner and back. *)
Recovery(p) ==
  LET w == walk[p]
  IN Recovering(p) =>
       /\ Closed(p)
       /\ pc[p] = "walk" => /\ w.own = p \/ (w.own = Blocker(p) /\ w.hops = 0)
                            /\ w.mode = "mark" => IF w.own = p THEN Hungriest(p)
                                                             ELSE w.victim = p /\ w.max = energy[p]
       /\ pc[p] = "walkLock" => /\ w.own = Blocker(p) /\ w.own # p /\ w.next = waiting[w.own]
                                /\ w.mode = "mark" => Hungriest(p)
       /\ pc[p] \in {"victim", "wakeVictim"} => w.mode = "mark" /\ Hungriest(p)

(* Whose flag the recovery of p has still to clear. *)
Clears(p, x) ==
  /\ Recovering(p)
  /\ \/ walk[p].mode = "mark" /\ x \in {p, Blocker(p)}
     \/ walk[p].mode = "clear" /\ pc[p] = "walk" /\ walk[p].own = x /\ x # p

FlagInv == \A x \in Procs : in_deadlock[x] => \E p \in Procs : Clears(p, x)

WalkInv == \A p \in Procs : pc[p] \in Scan => Search(p) /\ Recovery(p)

(* What a step of anybody does to a process: its search, or its recovery, is  *)
(* its own; it waits on for a lock that is held; and it keeps its energy, or  *)
(* is charged, not while it searches, and all recoveries take note.           *)
OwnStep(r) == BeginWait(r) \/ WalkOwner(r) \/ WalkLock(r) \/ KillVictim(r) \/ WakeVictim(r)

Still(r) ==
  /\ pc'[r] \in Scan <=> pc[r] \in Scan
  /\ pc[r] \in Scan => pc'[r] = pc[r] /\ arg'[r] = arg[r] /\ walk'[r] = walk[r]
  /\ late[r] \subseteq late'[r]

Waits(r) ==
  /\ energy[r] \in Nat /\ energy'[r] \in Nat
  /\ InAcquire(r) /\ locked[arg[r]] =>
       InAcquire(r)' /\ arg'[r] = arg[r] /\ (waiting[r] # None => waiting'[r] # None)
  /\ pc[r] # "dead" /\ energy'[r] # energy[r] =>
       /\ pc[r] \notin Scan /\ energy[r] <= energy'[r]
       /\ \A s \in Procs : walk[s].mode = "mark" => r \in late'[s]

Frame == \A r \in Procs : Waits(r) /\ (Still(r) \/ OwnStep(r))

(* Every step is framed, and keeps the edges. *)
LEMMA NextEdges == IInv /\ EdgeInv /\ Next => EdgeInv' /\ Frame
<1> SUFFICES ASSUME IInv, EdgeInv, Next PROVE EdgeInv' /\ Frame
  BY Zenon
<1> DEFINE Types == /\ pc \in [Procs -> PC] /\ arg \in [Procs -> Locks \cup {None}]
                    /\ locked \in [Locks -> BOOLEAN] /\ pid \in [Locks -> Procs \cup {None}]
                    /\ state \in [Procs -> {"UNUSED", "SLEEPING", "RUNNABLE", "RUNNING", "ZOMBIE"}]
                    /\ waiting \in [Procs -> Locks \cup {None}] /\ sb \in [Procs -> Locks \cup {None}]
                    /\ energy \in [Procs -> 0..MaxEnergy] /\ walk \in [Procs -> Walks]
                    /\ late \in [Procs -> SUBSET Procs]
                    /\ \A r \in Procs : pc[r] \in AcquirePcs \cup ReleasePcs => arg[r] \in Locks
<1>0. Types /\ None \notin Procs /\ None \notin Locks
  BY SMTT(30) DEF IInv, TypeInv, TypeOK, ArgOK, None, Procs, Locks
<1> HIDE DEF Types
<1> USE <1>0 DEF lockVars, procVars, edgeVars, flagVars, AcquirePcs, ReleasePcs, InitPcs, WalkPcs,
     SleepPcs, Scan, InAcquire, Goto, Return
<1> DEFINE Quiet == \A r \in Procs : Waits(r) /\ Still(r)
           Own(p) == \A r \in Procs : Waits(r) /\ (r # p => Still(r))
<1>1. \A p \in Procs, c \in CPUs : Dispatch(c, p) => EdgeInv' /\ Quiet
  BY SMTT(30) DEF Types, Dispatch, EdgeInv, Waits, Still
<1>2. \A p, q \in Procs : Kill(p, q) => EdgeInv' /\ Quiet
  BY SMTT(30) DEF Types, Kill, EdgeInv, Waits, Still
<1>3. \A p \in Procs, l \in Locks : DlockAcq(p, l) \/ DlockRel(p, l) => EdgeInv' /\ Quiet
  BY SMTT(30) DEF Types, DlockAcq, DlockRel, EdgeInv, Waits, Still
<1>4. ASSUME NEW p \in Procs, Preempt(p) \/ Exit(p) PROVE EdgeInv' /\ Quiet
  <2>1. /\ energy' \in [Procs -> 0..MaxEnergy] /\ pc[p] \in PreemptiblePcs
        /\ \A r \in Procs : energy[r] <= energy'[r] /\ (r # p => energy'[r] = energy[r])
        /\ \A r \in Procs : late[r] \subseteq late'[r] /\ (walk[r].mode = "mark" => p \in late'[r])
    BY <1>4, ChargeType, ZenonT(60) DEF Preempt, Exit, PreemptiblePcs, IInv
  <2>2. \A r \in Procs : /\ energy[r] \in Nat /\ energy'[r] \in Nat
                         /\ energy'[r] # energy[r] =>
                              /\ pc[r] \notin Scan /\ energy[r] <= energy'[r]
                              /\ \A s \in Procs : walk[s].mode = "mark" => r \in late'[s]
    BY <2>1 DEF Types, PreemptiblePcs
  <2>3. UNCHANGED <<locked, pid, waiting, sb, arg, walk>>
    BY <1>4, Zenon DEF Preempt, Exit
  <2>4. CASE pc' = pc /\ state' = [state EXCEPT ![p] = "RUNNABLE"]
    <3>1. EdgeInv'
      BY <2>1, <2>3, <2>4 DEF Types, EdgeInv
    <3>2. Quiet
      BY <2>1, <2>2, <2>3, <2>4, ZenonT(60) DEF Waits, Still
    <3> QED  BY <3>1, <3>2, Zenon
  <2>5. CASE pc[p] = "user" /\ pc' = [pc EXCEPT ![p] = "dead"] /\ state' = [state EXCEPT ![p] = "ZOMBIE"]
    <3>1. EdgeInv'
      BY <2>3, <2>5 DEF Types, EdgeInv
    <3>2. \A r \in Procs : pc'[r] = pc[r] \/ (pc[r] = "user" /\ pc'[r] = "dead")
      BY <2>5, Zenon DEF Types
    <3>3. Quiet
      BY <2>1, <2>2, <2>3, <3>2, ZenonT(60) DEF Waits, Still
    <3> QED  BY <3>1, <3>3, Zenon
  <2> QED  BY <1>4, <2>4, <2>5, Zenon DEF Preempt, Exit
<1>16. \A p \in Procs : DrainStore(p) => EdgeInv' /\ Quiet
  BY SMTT(30) DEF Types, DrainStore, EdgeInv, Waits, Still
<1>5. \A p \in Procs : Reap(p) => EdgeInv' /\ Quiet
  BY SMTT(30) DEF Types, Reap, EdgeInv, Waits, Still
<1>6. \A p \in Procs : AcquireSpin(p) \/ HoldingSleep(p) \/ Sleep1(p) => EdgeInv' /\ Quiet
  BY SMTT(30) DEF Types, AcquireSpin, HoldingSleep, Sleep1, EdgeInv, Waits, Still
<1>7. \A p \in Procs : Sleep2(p) \/ Sleep3(p) \/ WakeStep(p) => EdgeInv' /\ Quiet
  BY SMTT(30) DEF Types, Sleep2, Sleep3, WakeStep, EdgeInv, Waits, Still
<1>8. \A p \in Procs : TakeLock(p) \/ ReleaseSleep(p) => EdgeInv' /\ Quiet
  BY SMTT(30) DEF Types, TakeLock, ReleaseSleep, EdgeInv, Waits, Still
<1>9. \A p \in Procs : WakeDone(p) => EdgeInv' /\ Quiet
  BY SMTT(30) DEF Types, WakeDone, EdgeInv, Waits, Still
<1>10. \A p \in Procs : BeginWait(p) => EdgeInv' /\ Own(p)
  BY SMTT(30) DEF Types, BeginWait, EdgeInv, Waits, Still
<1>11. \A p \in Procs : WalkOwner(p) \/ WalkLock(p) => EdgeInv' /\ Own(p)
  BY SMTT(30) DEF Types, WalkOwner, WalkLock, EndWalk, StartMark, VisitOwner, EdgeInv, Waits, Still
<1>12. \A p \in Procs : KillVictim(p) \/ WakeVictim(p) => EdgeInv' /\ Own(p)
  <2> SUFFICES ASSUME NEW p \in Procs, KillVictim(p) \/ WakeVictim(p) PROVE EdgeInv' /\ Own(p)
    BY Zenon
  <2>1. /\ UNCHANGED <<locked, pid, waiting, sb, energy, arg>> /\ pc[p] \in {"victim", "wakeVictim"}
        /\ pc' \in {[pc EXCEPT ![p] = "wakeVictim"], [pc EXCEPT ![p] = "walk"]}
    BY Zenon DEF KillVictim, WakeVictim
  <2>2. \A r \in Procs : r # p => pc'[r] = pc[r] /\ walk'[r] = walk[r] /\ late'[r] = late[r]
    <3>1. UNCHANGED <<walk, late>> \/ StartClear(p)
      BY Zenon DEF KillVictim, WakeVictim
    <3>2. walk \in [Procs -> Walks] /\ pc \in [Procs -> PC] /\ late \in [Procs -> SUBSET Procs]
      BY Zenon DEF Types
    <3>3. \A r \in Procs : r # p => pc'[r] = pc[r]
      BY <2>1, <3>2, Zenon
    <3>4. \A r \in Procs : r # p => walk'[r] = walk[r] /\ late'[r] = late[r]
      BY <3>1, <3>2, Zenon DEF StartClear
    <3> QED  BY <3>3, <3>4, Zenon
  <2>3. pc'[p] \in {"walk", "wakeVictim"}
    BY <2>1, Zenon DEF Types
  <2>4. \A r \in Procs : state'[r] = state[r] \/ state'[r] = "RUNNABLE"
    BY Zenon DEF Types, KillVictim, WakeVictim
  <2>5. EdgeInv'
    BY <2>1, <2>2, <2>3, <2>4, ZenonT(60) DEF EdgeInv
  <2>6. Own(p)
    <3>1. \A r \in Procs : energy[r] \in Nat
      BY DEF Types
    <3> QED  BY <2>1, <2>2, <2>3, <3>1, ZenonT(60) DEF Waits, Still
  <2> QED  BY <2>5, <2>6, Zenon
<1>13. \A p \in Procs : InitLock(p) \/ SetInited(p) => FALSE
  BY Zenon DEF InitLock, SetInited, IInv, TypeInv, ArgOK
<1>14. Quiet => Frame
  BY Zenon DEF Frame
<1>15. \A p \in Procs : OwnStep(p) /\ Own(p) => Frame
  BY Zenon DEF Frame
<1> HIDE DEF Quiet, Own
<1> QED
  BY <1>1, <1>2, <1>3, <1>4, <1>5, <1>6, <1>7, <1>8, <1>9, <1>10, <1>11, <1>12, <1>13, <1>14, <1>15,
     <1>16, ZenonT(60) DEF Next, KernelStep, OwnStep

(* Owners: a process keeps its locks unless it is about to release one, and   *)
(* gets one only at the end of acquiresleep(); the owner of a lock that is    *)
(* waited for stays while the waiter has the spinlock.                        *)
PidFrame ==
  /\ \A l \in Locks, r \in Procs : pid[l] = r /\ pc[r] # "rel" => pid'[l] = r
  /\ \A r \in Procs : pc[r] \in Scan => pid'[arg[r]] = pid[arg[r]]
  /\ \A l \in Locks, r \in Procs : pid'[l] = r /\ pid[l] # r => pc[r] = "loop"

(* Every step keeps the owners so. *)
LEMMA NextPids == ASSUME IInv, EdgeInv, Next PROVE PidFrame
<1>0. /\ pid \in [Locks -> Procs \cup {None}] /\ arg \in [Procs -> Locks \cup {None}]
      /\ None \notin Procs
  BY DEF IInv, TypeInv, TypeOK, None, Procs
<1>1. CASE UNCHANGED pid
  BY <1>1, Zenon DEF PidFrame
<1>2. CASE ~UNCHANGED pid
  <2>1. PICK p \in Procs : InitLock(p) \/ TakeLock(p) \/ ReleaseSleep(p)
    BY <1>2, WhoChangesLocks, Zenon
  <2>2. CASE InitLock(p)
    BY <2>2, Zenon DEF InitLock, IInv, TypeInv, ArgOK
  <2>3. CASE TakeLock(p)
    <3>1. /\ pc[p] = "loop" /\ ~locked[arg[p]] /\ pid' = [pid EXCEPT ![arg[p]] = p]
          /\ lk[arg[p]] = p /\ arg[p] \in Locks
      BY <2>3, Zenon DEF TakeLock, IInv, SpinLockHeld, CriticalPcs, TypeInv, ArgOK, AcquirePcs
    <3>2. \A r \in Procs : pc[r] \in Scan => lk[arg[r]] = r /\ pc[r] # "loop"
      BY Zenon DEF IInv, SpinLockHeld, CriticalPcs, Scan, WalkPcs
    <3>3. \A r \in Procs : pid[arg[p]] = r => FALSE
      BY <1>0, <3>1, Zenon DEF EdgeInv
    <3> QED  BY <1>0, <3>1, <3>2, <3>3 DEF PidFrame
  <2>4. CASE ReleaseSleep(p)
    <3>1. /\ pc[p] = "rel" /\ pid[arg[p]] = p /\ pid' = [pid EXCEPT ![arg[p]] = None]
          /\ lk[arg[p]] = None
      BY <2>4, Zenon DEF ReleaseSleep, IInv, PlaceInv, Holds
    <3>2. \A r \in Procs : pc[r] \in Scan => lk[arg[r]] = r
      BY Zenon DEF IInv, SpinLockHeld, CriticalPcs, Scan, WalkPcs
    <3> QED  BY <1>0, <3>1, <3>2 DEF PidFrame
  <2> QED  BY <2>1, <2>2, <2>3, <2>4, Zenon
<1> QED  BY <1>1, <1>2, Zenon

(* What is known of a process that searches or recovers, and of the owner of  *)
(* the lock that it is after.                                                 *)
LEMMA Scanner ==
  ASSUME IInv, EdgeInv, NEW p \in Procs, pc[p] \in Scan
  PROVE  /\ arg[p] \in Locks /\ Blocker(p) \in Procs /\ pc[p] \notin {"rel", "loop", "dead"}
         /\ InAcquire(p)
         /\ Closed(p) /\ Blocker(p) # p =>
              LET q == Blocker(p)
              IN /\ InAcquire(q) /\ arg[q] \in Locks /\ waiting[q] = arg[q] /\ pid[arg[q]] = p
                 /\ locked[arg[q]] /\ pc[q] # "dead" /\ state[q] # "UNUSED"
<1> USE DEF Scan, WalkPcs, AcquirePcs, SleepPcs, InAcquire
<1>1. /\ arg[p] \in Locks /\ locked[arg[p]] /\ pid \in [Locks -> Procs \cup {None}]
      /\ waiting \in [Procs -> Locks \cup {None}] /\ None \notin Procs
  BY SMTT(30) DEF IInv, TypeInv, TypeOK, ArgOK, PlaceInv, None, Procs
<1>2. Blocker(p) \in Procs
  BY <1>1 DEF EdgeInv, Blocker
<1>3. ASSUME Closed(p), Blocker(p) # p, NEW q, q = Blocker(p)
      PROVE  /\ InAcquire(q) /\ arg[q] \in Locks /\ waiting[q] = arg[q] /\ pid[arg[q]] = p
             /\ locked[arg[q]] /\ pc[q] # "dead" /\ state[q] # "UNUSED"
  <2>1. q \in Procs /\ waiting[q] # None /\ pid[arg[q]] = p
    BY <1>2, <1>3, Zenon DEF Closed, Blocker
  <2>2. InAcquire(q) /\ waiting[q] = arg[q]
    BY <2>1, Zenon DEF EdgeInv
  <2>3. arg[q] \in Locks /\ pc[q] # "dead"
    BY <1>1, <2>1, <2>2, Zenon
  <2> QED  BY <1>1, <2>1, <2>2, <2>3, Zenon DEF EdgeInv
<1> QED  BY <1>1, <1>2, <1>3, ZenonT(60)

(* A cycle stays closed while a process of it recovers, whoever steps; if the *)
(* other one is charged, the recovery takes note.                             *)
NotesCharge(p, q) ==
  /\ energy[q] \in Nat /\ energy'[q] \in Nat /\ energy[q] <= energy'[q]
  /\ energy'[q] # energy[q] /\ walk[p].mode = "mark" => q \in late'[p]

LEMMA WaitsNotes ==
  ASSUME NEW p \in Procs, NEW q \in Procs, Waits(q), pc[q] # "dead"
  PROVE  NotesCharge(p, q)
<1>1. energy[q] \in Nat /\ energy'[q] \in Nat
  BY Zenon DEF Waits
<1>2. energy'[q] # energy[q] => energy[q] <= energy'[q] /\ (walk[p].mode = "mark" => q \in late'[p])
  BY ZenonT(60) DEF Waits
<1>3. energy[q] <= energy'[q]
  BY <1>1, <1>2
<1> QED  BY <1>1, <1>2, <1>3, Zenon DEF NotesCharge

LEMMA ClosedKept ==
  ASSUME IInv, EdgeInv, EdgeInv', Frame, PidFrame,
         NEW p \in Procs, pc[p] \in Scan, arg'[p] = arg[p]
  PROVE  /\ Blocker(p)' = Blocker(p) /\ energy'[p] = energy[p]
         /\ Closed(p) => Closed(p)' /\ NotesCharge(p, Blocker(p))
<1>1. Blocker(p)' = Blocker(p) /\ energy'[p] = energy[p] /\ pc[p] # "dead"
  <2>1. pc[p] # "dead"
    BY Scanner, Zenon
  <2>2. energy'[p] = energy[p]
    BY <2>1, Zenon DEF Frame, Waits
  <2>3. Blocker(p)' = Blocker(p)
    <3>1. \A r \in Procs : pc[r] \in Scan => pid'[arg[r]] = pid[arg[r]]
      BY Zenon DEF PidFrame
    <3>2. pid'[arg[p]] = pid[arg[p]]
      BY <3>1, Zenon
    <3> QED  BY <3>2, Zenon DEF Blocker
  <2> QED  BY <2>1, <2>2, <2>3, Zenon
<1>2. CASE Blocker(p) = p
  BY <1>1, <1>2, WaitsNotes, Zenon DEF Closed, Frame
<1>3. ASSUME Closed(p), Blocker(p) # p, NEW q, q = Blocker(p)
      PROVE  Closed(p)' /\ NotesCharge(p, q)
  <2>1. /\ q \in Procs /\ InAcquire(q) /\ arg[q] \in Locks /\ waiting[q] = arg[q]
        /\ pid[arg[q]] = p /\ locked[arg[q]] /\ pc[q] # "dead" /\ pc[p] # "rel"
    BY <1>3, Scanner, Zenon
  <2>2. arg'[q] = arg[q] /\ waiting'[q] # None
    BY <1>3, <2>1, Zenon DEF Frame, Waits, Closed
  <2>3. pid'[arg[q]] = p
    BY <2>1, ZenonT(60) DEF PidFrame
  <2>4. NotesCharge(p, q)
    BY <2>1, WaitsNotes, Zenon DEF Frame
  <2> QED  BY <1>1, <1>3, <2>1, <2>2, <2>3, <2>4, Zenon DEF Closed, Blocker
<1> QED  BY <1>1, <1>2, <1>3, ZenonT(60)

(* Steps of others do not disturb a search or a recovery. *)
LEMMA RowKept ==
  ASSUME IInv, EdgeInv, EdgeInv', Frame, PidFrame,
         NEW p \in Procs, pc[p] \in Scan, Still(p), Search(p), Recovery(p)
  PROVE  Search(p)' /\ Recovery(p)'
<1>0. /\ pc'[p] = pc[p] /\ arg'[p] = arg[p] /\ walk'[p] = walk[p] /\ late[p] \subseteq late'[p]
      /\ walk[p] \in Walks /\ pid \in [Locks -> Procs \cup {None}]
      /\ waiting \in [Procs -> Locks \cup {None}]
  BY Zenon DEF Still, IInv, TypeInv, TypeOK
<1>1. /\ Blocker(p)' = Blocker(p) /\ Blocker(p) \in Procs /\ energy'[p] = energy[p]
      /\ Closed(p) => Closed(p)' /\ NotesCharge(p, Blocker(p))
      /\ pc[p] \notin {"rel", "loop", "dead"}
  BY <1>0, ClosedKept, Scanner, ZenonT(60)
<1>2. \A l \in Locks : pid'[l] = p <=> pid[l] = p
  BY <1>1 DEF PidFrame
<1>3. Search(p)'
  <2> DEFINE w == walk[p]
  <2> SUFFICES ASSUME w.mode = "detect"
               PROVE  /\ pc[p] = "walk" =>
                           /\ w.own = p => Closed(p)'
                           /\ w.own \notin {p, Blocker(p)} => \A l \in Locks \ {arg[p]} : pid'[l] # p
                      /\ pc[p] = "walkLock" /\ w.next \notin {None, arg[p]} /\ pid'[w.next] = p =>
                           w.own = Blocker(p) /\ waiting'[w.own] = w.next
    BY <1>0, <1>1, Zenon DEF Search
  <2>1. CASE pc[p] = "walk"
    BY <1>1, <1>2, <2>1, ZenonT(60) DEF Search
  <2>2. ASSUME pc[p] = "walkLock", w.next \notin {None, arg[p]}, pid'[w.next] = p
        PROVE  w.own = Blocker(p) /\ waiting'[w.own] = w.next
    <3>1. w.next \in Locks
      BY <1>0, <2>2, WalkFields, Zenon
    <3>2. w.own = Blocker(p) /\ waiting[w.own] = w.next /\ pid[w.next] = p
      BY <1>2, <2>2, <3>1, ZenonT(60) DEF Search
    <3>3. InAcquire(w.own) /\ arg[w.own] = w.next /\ locked[w.next]
      <4>1. w.own \in Procs /\ waiting[w.own] # None
        BY <1>1, <2>2, <3>2, Zenon
      <4>2. p # None
        BY DEF None, Procs
      <4>3. pid[w.next] # None
        BY <3>2, <4>2, Zenon
      <4> QED  BY <3>1, <3>2, <4>1, <4>3, ZenonT(60) DEF EdgeInv
    <3>4. arg'[w.own] = w.next /\ waiting'[w.own] # None
      BY <1>1, <2>2, <3>2, <3>3, ZenonT(60) DEF Frame, Waits
    <3>5. w.own \in Procs /\ EdgeInv'
      BY <1>1, <3>2, Zenon
    <3>6. waiting'[w.own] = arg'[w.own]
      BY <3>4, <3>5, Zenon DEF EdgeInv
    <3> QED  BY <3>2, <3>4, <3>6, Zenon
  <2> QED  BY <2>1, <2>2, Zenon
<1>4. ASSUME Recovering(p) PROVE Recovery(p)'
  <2>0. Closed(p) /\ Closed(p)' /\ NotesCharge(p, Blocker(p))
    BY <1>1, <1>4, Zenon DEF Recovery
  <2>1. ASSUME Hungriest(p), walk[p].mode = "mark" PROVE Hungriest(p)'
    <3> DEFINE q == Blocker(p)
               m == walk[p].max
    <3>1. walk[p].victim \in {p, q} /\ m <= energy[walk[p].victim] /\ energy[p] <= m
          /\ (energy[q] <= m \/ q \in late[p])
      BY <2>1, Zenon DEF Hungriest
    <3>2. m \in 0..MaxEnergy /\ energy[p] \in Nat
      BY <1>0, WalkFields, Zenon DEF Frame, Waits
    <3>3. m <= energy'[walk[p].victim]
      <4>1. CASE walk[p].victim = p
        BY <1>1, <3>1, <4>1, Zenon
      <4>2. CASE walk[p].victim = q
        <5>1. m <= energy[q] /\ energy[q] <= energy'[q] /\ energy[q] \in Nat /\ energy'[q] \in Nat
          BY <2>0, <3>1, <4>2, ZenonT(60) DEF NotesCharge
        <5>2. m <= energy'[q]
          BY <3>2, <5>1, SizesAssumption
        <5> QED  BY <4>2, <5>2, Zenon
      <4> QED  BY <3>1, <4>1, <4>2, Zenon
    <3>4. energy'[q] <= m \/ q \in late'[p]
      BY <1>0, <2>0, <2>1, <3>1, Zenon DEF NotesCharge
    <3>5. energy'[p] <= m
      BY <1>1, <3>1, Zenon
    <3> QED  BY <1>0, <1>1, <3>1, <3>3, <3>4, <3>5, Zenon DEF Hungriest
  <2>2. CASE pc[p] = "walkLock"
    <3>1. walk[p].own = Blocker(p) /\ walk[p].own # p /\ walk[p].next = waiting[walk[p].own]
      BY <1>4, <2>2, Zenon DEF Recovery
    <3>2. waiting'[walk[p].own] = waiting[walk[p].own]
      <4> DEFINE q == Blocker(p)
      <4>1. InAcquire(q) /\ waiting[q] = arg[q] /\ locked[arg[q]] /\ waiting[q] # None
        BY <1>1, <2>0, <3>1, Scanner, Zenon DEF Closed
      <4>2. arg'[q] = arg[q] /\ waiting'[q] # None
        BY <1>1, <4>1, Zenon DEF Frame, Waits
      <4>3. waiting'[q] = arg'[q]
        BY <1>1, <4>2, Zenon DEF EdgeInv
      <4> QED  BY <3>1, <4>1, <4>2, <4>3, Zenon
    <3> QED  BY <1>0, <1>1, <1>4, <2>0, <2>1, <2>2, <3>1, <3>2, Zenon DEF Recovery
  <2>3. CASE pc[p] # "walkLock"
    BY <1>0, <1>1, <1>4, <2>0, <2>1, <2>3, Zenon DEF Recovery
  <2> QED  BY <2>2, <2>3, Zenon
<1>5. Recovering(p)' <=> Recovering(p)
  BY <1>0, Zenon DEF Recovering
<1>6. ~Recovering(p)' => Recovery(p)'
  BY Zenon DEF Recovery
<1> QED  BY <1>3, <1>4, <1>5, <1>6, Zenon

(* The rows after a step of p itself. *)
Rows(p) == pc[p] \in Scan => Search(p) /\ Recovery(p)

(* The steps of a search or a recovery leave the graph alone. *)
LEMMA GraphStays ==
  ASSUME NEW p \in Procs, WalkOwner(p) \/ WalkLock(p) \/ KillVictim(p) \/ WakeVictim(p)
  PROVE  /\ UNCHANGED <<locked, pid, waiting, energy, arg>>
         /\ WalkOwner(p) \/ WalkLock(p) => UNCHANGED late
         /\ \A r \in Procs : Blocker(r)' = Blocker(r) /\ (Closed(r)' <=> Closed(r))
<1>1. /\ UNCHANGED <<locked, pid, waiting, energy, arg>>
      /\ WalkOwner(p) \/ WalkLock(p) => UNCHANGED late
  BY Zenon DEF WalkOwner, WalkLock, KillVictim, WakeVictim, lockVars, edgeVars
<1> QED  BY <1>1, Zenon DEF Blocker, Closed

(* acquiresleep() starts the search at the owner of its lock. *)
LEMMA BeginWaitRows ==
  ASSUME IInv, EdgeInv, NEW p \in Procs, BeginWait(p)
  PROVE  Rows(p)'
<1>1. /\ pc'[p] = "walk" /\ UNCHANGED <<pid, arg>> /\ walk \in [Procs -> Walks]
      /\ walk' = [walk EXCEPT ![p] = Walk("detect", pid[arg[p]], 0, None, 0, None)]
  BY Zenon DEF BeginWait, Goto, IInv, TypeInv, TypeOK, lockVars
<1>2. walk'[p].mode = "detect" /\ walk'[p].own = Blocker(p)'
  BY <1>1, Zenon DEF Walk, Blocker
<1>3. Blocker(p)' = p => Closed(p)'
  BY Zenon DEF Closed
<1> QED  BY <1>1, <1>2, <1>3, Zenon DEF Rows, Search, Recovery, Recovering, WalkPcs

(* A walk ends: the search goes to sleep; the second walk is back at p.       *)
LEMMA EndWalkRows ==
  ASSUME IInv, NEW p \in Procs, WalkOwner(p) \/ WalkLock(p), EndWalk(p), Recovery(p),
         pc[p] \in Scan, walk[p].mode = "mark" => Hungriest(p)
  PROVE  Rows(p)'
<1>1. /\ pc'[p] = (IF walk[p].mode = "mark" THEN "victim" ELSE "sleep1")
      /\ walk[p].mode = "mark" => walk'[p] = walk[p]
  BY Zenon DEF EndWalk, Goto, IInv, TypeInv, TypeOK
<1>2. CASE walk[p].mode = "mark"
  <2>1. Closed(p) /\ Hungriest(p)
    BY <1>2, Zenon DEF Recovery, Recovering, Scan
  <2>2. Closed(p)' /\ Hungriest(p)'
    BY <1>1, <1>2, <2>1, GraphStays, Zenon DEF Hungriest
  <2> QED  BY <1>1, <1>2, <2>2, Zenon DEF Rows, Search, Recovery
<1>3. CASE walk[p].mode # "mark"
  BY <1>1, <1>3, Zenon DEF Rows, Scan, WalkPcs
<1> QED  BY <1>2, <1>3, Zenon

(* The first half of a hop. *)
LEMMA WalkOwnerRows ==
  ASSUME IInv, EdgeInv, NEW p \in Procs, WalkOwner(p), Search(p), Recovery(p)
  PROVE  Rows(p)'
<1> DEFINE w == walk[p]
           q == Blocker(p)
<1>0. /\ pc[p] = "walk" /\ pc[p] \in Scan /\ w \in Walks /\ NPROC \in Nat /\ NPROC > 0
      /\ pc \in [Procs -> PC] /\ energy \in [Procs -> 0..MaxEnergy] /\ MaxEnergy \in Nat
      /\ walk \in [Procs -> Walks]
  BY SizesAssumption DEF WalkOwner, Scan, WalkPcs, IInv, TypeInv, TypeOK
<1>1. /\ UNCHANGED <<locked, pid, waiting, energy, late, arg>>
      /\ q' = q /\ (Closed(p)' <=> Closed(p)) /\ q \in Procs
  BY <1>0, GraphStays, Scanner, Zenon
<1>2. w.mode # "detect" => Closed(p) /\ (w.own = p \/ (w.own = q /\ w.hops = 0))
  BY <1>0, Zenon DEF Recovery, Recovering, WalkPcs
<1>3. w.mode # "detect" /\ w.own # p => WalkGoesOn(p)
  <2> SUFFICES ASSUME w.mode # "detect", w.own # p PROVE WalkGoesOn(p)
    BY Zenon
  <2>1. state[q] # "UNUSED"
    BY <1>0, <1>2, Scanner, Zenon
  <2> QED  BY <1>0, <1>1, <1>2, <2>1 DEF WalkGoesOn, None, Procs
<1>4. CASE ~WalkGoesOn(p) /\ EndWalk(p)
  <2>1. w.mode = "mark" => Hungriest(p)
    BY <1>0, <1>3, <1>4, Zenon DEF Recovery, Recovering, WalkPcs
  <2> QED  BY <1>0, <1>4, <2>1, EndWalkRows, Zenon
<1>5. CASE WalkGoesOn(p) /\ w.own = p /\ StartMark(p)
  <2>1. w.mode = "detect" /\ Closed(p)
    BY <1>0, <1>5, Zenon DEF WalkGoesOn, Search
  <2>2. /\ pc'[p] = "walk" /\ walk'[p].mode = "mark" /\ walk'[p].own = q /\ walk'[p].hops = 0
        /\ walk'[p].victim = p /\ walk'[p].max = energy[p]
    BY <1>0, <1>5, ZenonT(60) DEF StartMark, Goto, Blocker, Walk
  <2>3. q = p => Hungriest(p)'
    BY <1>0, <1>1, <2>2 DEF Hungriest
  <2> QED  BY <1>1, <2>1, <2>2, <2>3, Zenon DEF Rows, Search, Recovery
<1>6. CASE WalkGoesOn(p) /\ w.own # p /\ VisitOwner(p)
  <2> DEFINE more == w.mode = "mark" /\ energy[w.own] > w.max
             v == IF more THEN w.own ELSE w.victim
             x == IF more THEN energy[w.own] ELSE w.max
  <2>1. /\ pc'[p] = "walkLock" /\ walk'[p].mode = w.mode /\ walk'[p].own = w.own
        /\ walk'[p].victim = v /\ walk'[p].max = x /\ walk'[p].next = waiting[w.own]
    BY <1>0, <1>6, Zenon DEF VisitOwner, Goto, Walk
  <2>2. CASE w.mode = "detect"
    <3>1. w.own # q => \A l \in Locks \ {arg[p]} : pid[l] # p
      BY <1>0, <1>6, <2>2, Zenon DEF Search
    <3>2. waiting[w.own] \in Locks \cup {None}
      BY <1>0, <1>6, WalkFields, Zenon DEF IInv, TypeInv, TypeOK, WalkGoesOn
    <3>3. Search(p)'
      BY <1>1, <2>1, <2>2, <3>1, <3>2, Zenon DEF Search
    <3> QED  BY <2>1, <2>2, <3>3, Zenon DEF Rows, Recovery, Recovering
  <2>3. CASE w.mode # "detect"
    <3>1. w.own = q /\ Closed(p)
      BY <1>2, <1>6, <2>3, Zenon
    <3>2. w.mode = "mark" => Hungriest(p)'
      <4> SUFFICES ASSUME w.mode = "mark" PROVE Hungriest(p)'
        BY Zenon
      <4>1. w.victim = p /\ w.max = energy[p]
        BY <1>0, <1>6, ZenonT(60) DEF Recovery, Recovering, WalkPcs
      <4>2. v \in {p, q} /\ x <= energy[v] /\ energy[p] <= x /\ energy[q] <= x
        <5>1. /\ v = IF energy[q] > energy[p] THEN q ELSE p
              /\ x = IF energy[q] > energy[p] THEN energy[q] ELSE energy[p]
          BY <3>1, <4>1, Zenon
        <5>2. energy[p] \in Int /\ energy[q] \in Int
          BY <1>0, <1>1
        <5> HIDE DEF v, x
        <5>3. CASE energy[q] > energy[p]
          <6>1. v = q /\ x = energy[q] /\ energy[p] <= energy[q] /\ energy[q] <= energy[q]
            BY <5>1, <5>2, <5>3
          <6> QED  BY <6>1, ZenonT(60)
        <5>4. CASE ~(energy[q] > energy[p])
          <6>1. v = p /\ x = energy[p] /\ energy[p] <= energy[p] /\ energy[q] <= energy[p]
            BY <5>1, <5>2, <5>4
          <6> QED  BY <6>1, Zenon
        <5> QED  BY <5>3, <5>4, Zenon
      <4> HIDE DEF v, x
      <4> QED  BY <1>1, <2>1, <4>2, Zenon DEF Hungriest
    <3> QED  BY <1>1, <1>6, <2>1, <2>3, <3>1, <3>2, Zenon DEF Rows, Search, Recovery
  <2> QED  BY <2>2, <2>3, Zenon
<1> QED  BY <1>4, <1>5, <1>6, ZenonT(60) DEF WalkOwner

(* The second half: with two locks, the only way to come to p is from the     *)
(* first owner.                                                               *)
LEMMA WalkLockRows ==
  ASSUME NLOCK = 2, IInv, EdgeInv, NEW p \in Procs, WalkLock(p), Search(p), Recovery(p)
  PROVE  Rows(p)'
<1> DEFINE w == walk[p]
           q == Blocker(p)
<1>0. /\ pc[p] = "walkLock" /\ pc[p] \in Scan /\ w \in Walks /\ pc \in [Procs -> PC]
      /\ walk \in [Procs -> Walks] /\ w.next \in Locks \cup {None} /\ arg[p] \in Locks
  <2>1. pc[p] = "walkLock" /\ pc[p] \in Scan
    BY Zenon DEF WalkLock, Scan, WalkPcs
  <2>2. walk \in [Procs -> Walks] /\ pc \in [Procs -> PC]
    BY Zenon DEF IInv, TypeInv, TypeOK
  <2> QED  BY <2>1, <2>2, Scanner, WalkFields, Zenon
<1>1. /\ UNCHANGED <<locked, pid, waiting, energy, late, arg>>
      /\ q' = q /\ (Closed(p)' <=> Closed(p)) /\ q \in Procs
  BY <1>0, GraphStays, Scanner, ZenonT(60)
<1>2. w.mode # "detect" => Closed(p) /\ w.next \in Locks /\ locked[w.next] /\ pid[w.next] = p
  <2> SUFFICES ASSUME w.mode # "detect"
               PROVE  Closed(p) /\ w.next \in Locks /\ locked[w.next] /\ pid[w.next] = p
    BY Zenon
  <2>1. Closed(p) /\ q # p /\ w.next = waiting[q]
    BY <1>0, Zenon DEF Recovery, Recovering, WalkPcs
  <2>2. /\ arg[q] \in Locks /\ waiting[q] = arg[q] /\ pid[arg[q]] = p /\ locked[arg[q]]
    BY <1>0, <2>1, Scanner, Zenon
  <2> QED  BY <2>1, <2>2, Zenon
<1>3. CASE ~(w.next # None /\ locked[w.next]) /\ EndWalk(p)
  <2>1. w.mode = "detect"
    BY <1>2, <1>3 DEF None, Locks
  <2> QED  BY <1>0, <1>3, <2>1, EndWalkRows, ZenonT(60)
<1>4. CASE /\ w.next # None /\ locked[w.next]
           /\ walk' = [walk EXCEPT ![p] = Walk(w.mode, pid[w.next], w.hops + 1, w.victim, w.max, w.next)]
           /\ Goto(p, "walk")
  <2>1. /\ pc'[p] = "walk" /\ walk'[p].mode = w.mode /\ walk'[p].own = pid[w.next]
        /\ walk'[p].victim = w.victim /\ walk'[p].max = w.max
    BY <1>0, <1>4, Zenon DEF Goto, Walk
  <2>2. CASE w.mode = "detect"
    <3>1. ASSUME pid[w.next] = p PROVE Closed(p)
      <4>1. CASE w.next = arg[p]
        BY <3>1, <4>1, Zenon DEF Closed, Blocker
      <4>2. CASE w.next # arg[p]
        <5>1. waiting[q] = w.next
          BY <1>0, <1>4, <2>2, <3>1, <4>2, Zenon DEF Search
        <5>2. arg[q] = w.next
          BY <1>1, <1>4, <5>1, Zenon DEF EdgeInv
        <5> QED  BY <1>1, <1>4, <3>1, <5>1, <5>2, Zenon DEF Closed, Blocker
      <4> QED  BY <4>1, <4>2, Zenon
    <3>2. ASSUME pid[w.next] \notin {p, q}, NEW l \in Locks \ {arg[p]} PROVE pid[l] # p
      <4>1. w.next # arg[p] /\ w.next \in Locks
        BY <1>0, <1>4, <3>2, Zenon DEF Blocker
      <4>2. l = w.next
        BY <1>0, <4>1 DEF Locks
      <4> QED  BY <3>2, <4>2, Zenon
    <3> QED  BY <1>1, <2>1, <2>2, <3>1, <3>2, Zenon DEF Rows, Search, Recovery, Recovering
  <2>3. CASE w.mode # "detect"
    <3>1. w.mode = "mark" => Hungriest(p)'
      BY <1>0, <1>1, <2>1, Zenon DEF Recovery, Recovering, WalkPcs, Hungriest
    <3> QED  BY <1>1, <1>2, <2>1, <2>3, <3>1, Zenon DEF Rows, Search, Recovery
  <2> QED  BY <2>2, <2>3, Zenon
<1> QED  BY <1>3, <1>4, Zenon DEF WalkLock

(* The victim is killed, and the third walk starts where the second did. *)
LEMMA VictimRows ==
  ASSUME IInv, EdgeInv, NEW p \in Procs, KillVictim(p) \/ WakeVictim(p), Recovery(p)
  PROVE  Rows(p)'
<1>0. /\ pc[p] \in {"victim", "wakeVictim"} /\ pc \in [Procs -> PC] /\ walk \in [Procs -> Walks]
      /\ Closed(p) /\ Hungriest(p) /\ walk[p].mode = "mark"
  <2>1. pc[p] \in {"victim", "wakeVictim"}
    BY Zenon DEF KillVictim, WakeVictim
  <2> QED  BY <2>1, Zenon DEF IInv, TypeInv, TypeOK, Recovery, Recovering
<1>1. /\ UNCHANGED <<energy, arg>> /\ Blocker(p)' = Blocker(p) /\ Closed(p)'
  BY <1>0, GraphStays, Zenon
<1>2. CASE pc' = [pc EXCEPT ![p] = "wakeVictim"] /\ UNCHANGED <<walk, late>>
  <2>1. Hungriest(p)'
    BY <1>0, <1>1, <1>2, Zenon DEF Hungriest
  <2> QED  BY <1>0, <1>1, <1>2, <2>1, Zenon DEF Rows, Search, Recovery
<1>3. CASE pc' = [pc EXCEPT ![p] = "walk"] /\ StartClear(p)
  <2>1. walk'[p].mode = "clear" /\ walk'[p].own = Blocker(p) /\ walk'[p].hops = 0
    BY <1>0, <1>3, Zenon DEF StartClear, Blocker, Walk
  <2> QED  BY <1>0, <1>1, <1>3, <2>1, Zenon DEF Rows, Search, Recovery
<1> QED  BY <1>2, <1>3, Zenon DEF KillVictim, WakeVictim, Goto

(* Every step keeps what is known of the searches and recoveries. *)
LEMMA NextWalks ==
  ASSUME NLOCK = 2, IInv, EdgeInv, EdgeInv', Frame, PidFrame, WalkInv
  PROVE  WalkInv'
<1> SUFFICES ASSUME NEW p \in Procs PROVE Rows(p)'
  BY Zenon DEF WalkInv, Rows
<1>0. pc[p] \in Scan => Search(p) /\ Recovery(p)
  BY Zenon DEF WalkInv
<1>1. CASE Still(p)
  BY <1>0, <1>1, RowKept, Zenon DEF Rows, Still
<1>2. CASE BeginWait(p)
  BY <1>2, BeginWaitRows, Zenon
<1>3. CASE WalkOwner(p)
  BY <1>0, <1>3, WalkOwnerRows, Zenon DEF WalkOwner, Scan, WalkPcs
<1>4. CASE WalkLock(p)
  BY <1>0, <1>4, WalkLockRows, Zenon DEF WalkLock, Scan, WalkPcs
<1>5. CASE KillVictim(p) \/ WakeVictim(p)
  <2>1. pc[p] \in Scan
    BY <1>5, Zenon DEF KillVictim, WakeVictim, Scan
  <2> QED  BY <1>0, <1>5, <2>1, VictimRows, Zenon
<1> QED  BY <1>1, <1>2, <1>3, <1>4, <1>5, Zenon DEF Frame, OwnStep

(* Only the first half of a hop sets an in_deadlock flag. *)
LEMMA WhoMarks ==
  ASSUME IInv, Next, NEW x \in Procs, in_deadlock'[x], ~in_deadlock[x]
  PROVE  \E p \in Procs : WalkOwner(p)
<1>0. in_deadlock \in [Procs -> BOOLEAN]
  BY Zenon DEF IInv, TypeInv, TypeOK
<1>1. ~UNCHANGED in_deadlock
  BY Zenon
<1>2. \A p \in Procs, c \in CPUs : ~Dispatch(c, p)
  BY <1>1, Zenon DEF Dispatch, flagVars
<1>3. \A p, q \in Procs : ~Kill(p, q)
  BY <1>1, Zenon DEF Kill, flagVars
<1>4. \A p \in Procs, l \in Locks : ~DlockAcq(p, l) /\ ~DlockRel(p, l)
  BY <1>1, Zenon DEF DlockAcq, DlockRel, flagVars
<1>5. \A p \in Procs : ~Preempt(p) /\ ~Exit(p) /\ ~DrainStore(p)
  BY <1>1, Zenon DEF Preempt, Exit, DrainStore, flagVars
<1>6. \A p \in Procs : ~InitLock(p) /\ ~SetInited(p) /\ ~AcquireSpin(p) /\ ~TakeLock(p) /\ ~BeginWait(p)
  BY <1>1, Zenon DEF InitLock, SetInited, AcquireSpin, TakeLock, BeginWait, flagVars
<1>7. \A p \in Procs : ~Sleep1(p) /\ ~Sleep2(p) /\ ~Sleep3(p)
  BY <1>1, Zenon DEF Sleep1, Sleep2, Sleep3, flagVars
<1>8. \A p \in Procs : ~HoldingSleep(p) /\ ~ReleaseSleep(p) /\ ~WakeStep(p) /\ ~WakeDone(p)
  BY <1>1, Zenon DEF HoldingSleep, ReleaseSleep, WakeStep, WakeDone, flagVars
<1>9. \A p \in Procs : ~WalkLock(p)
  BY <1>1, Zenon DEF WalkLock, EndWalk, flagVars
<1>10. \A p \in Procs : ~Reap(p) /\ ~KillVictim(p) /\ ~WakeVictim(p)
  <2>1. \A p \in Procs : in_deadlock' # [in_deadlock EXCEPT ![p] = FALSE]
    BY <1>0, Zenon
  <2> QED  BY <1>1, <2>1, Zenon DEF Reap, KillVictim, WakeVictim, StartClear
<1> QED  BY <1>2, <1>3, <1>4, <1>5, <1>6, <1>7, <1>8, <1>9, <1>10, ZenonT(60) DEF Next, KernelStep

(* A recovery that has a flag to clear still has, or has just cleared it. *)
LEMMA ClearsOwn ==
  ASSUME IInv, EdgeInv, NEW p \in Procs, OwnStep(p), Recovery(p), NEW x \in Procs,
         Clears(p, x), in_deadlock'[x]
  PROVE  Clears(p, x)'
<1> DEFINE w == walk[p]
<1>0. /\ pc \in [Procs -> PC] /\ walk \in [Procs -> Walks] /\ in_deadlock \in [Procs -> BOOLEAN]
      /\ w \in Walks
  BY Zenon DEF IInv, TypeInv, TypeOK
<1>1. pc[p] \in Scan /\ pc[p] # "loop"
  BY Zenon DEF Clears, Recovering, Scan, WalkPcs
<1>2. WalkOwner(p) \/ WalkLock(p) \/ KillVictim(p) \/ WakeVictim(p)
  BY <1>1, Zenon DEF OwnStep, BeginWait
<1>3. Blocker(p)' = Blocker(p)
  BY <1>2, GraphStays, Zenon
<1>4. ASSUME pc'[p] \in Scan, walk'[p].mode = "mark", w.mode = "mark" PROVE Clears(p, x)'
  BY <1>3, <1>4, Zenon DEF Clears, Recovering, Scan
<1>5. CASE WalkOwner(p)
  <2>0. pc[p] = "walk" /\ (w.mode = "clear" => w.own = x /\ x # p) /\ w.mode \in {"mark", "clear"}
    BY <1>5, Zenon DEF WalkOwner, Clears
  <2>1. CASE ~WalkGoesOn(p) /\ EndWalk(p)
    <3>1. CASE w.mode = "mark"
      <4>1. pc'[p] = "victim" /\ walk'[p] = w
        BY <1>0, <2>1, <3>1, ZenonT(60) DEF EndWalk, Goto
      <4> QED  BY <1>4, <3>1, <4>1, Zenon DEF Scan
    <3>2. CASE w.mode = "clear"
      <4>1. w.own = Blocker(p) /\ w.own # p /\ w.hops = 0 /\ Closed(p)
        BY <2>0, <3>2, Zenon DEF Recovery, Recovering, WalkPcs
      <4>2. w.own \in Procs /\ state[w.own] # "UNUSED"
        BY <1>1, <4>1, Scanner, Zenon
      <4> QED  BY <2>1, <4>1, <4>2, SizesAssumption DEF WalkGoesOn, None, Procs
    <3> QED  BY <2>0, <3>1, <3>2, Zenon
  <2>2. CASE WalkGoesOn(p) /\ w.own = p
    BY <2>0, <2>2, Zenon DEF WalkGoesOn
  <2>3. CASE VisitOwner(p)
    <3>1. pc'[p] = "walkLock" /\ walk'[p].mode = w.mode
      BY <1>0, <2>3, Zenon DEF VisitOwner, Goto, Walk
    <3>2. w.mode = "clear" => ~in_deadlock'[x]
      BY <1>0, <2>0, <2>3, Zenon DEF VisitOwner
    <3> QED  BY <1>4, <2>0, <3>1, <3>2, Zenon DEF Scan, WalkPcs
  <2> QED  BY <1>5, <2>1, <2>2, <2>3, Zenon DEF WalkOwner
<1>6. CASE WalkLock(p)
  <2>0. w.mode = "mark"
    BY <1>6, Zenon DEF WalkLock, Clears
  <2>1. CASE EndWalk(p)
    BY <1>0, <1>4, <2>0, <2>1, Zenon DEF EndWalk, Goto, Scan
  <2>2. CASE /\ walk' = [walk EXCEPT ![p] = Walk(w.mode, pid[w.next], w.hops + 1, w.victim, w.max, w.next)]
             /\ Goto(p, "walk")
    BY <1>0, <1>4, <2>0, <2>2, Zenon DEF Goto, Walk, Scan, WalkPcs
  <2> QED  BY <1>6, <2>1, <2>2, Zenon DEF WalkLock
<1>7. CASE KillVictim(p) \/ WakeVictim(p)
  <2>0. pc[p] \in {"victim", "wakeVictim"}
    BY <1>7, Zenon DEF KillVictim, WakeVictim
  <2>1. w.mode = "mark" /\ x \in {p, Blocker(p)}
    BY <2>0, Zenon DEF Recovery, Recovering, Clears
  <2>2. CASE pc' = [pc EXCEPT ![p] = "wakeVictim"] /\ UNCHANGED walk
    BY <1>0, <1>4, <2>1, <2>2, Zenon DEF Scan
  <2>3. CASE pc' = [pc EXCEPT ![p] = "walk"] /\ StartClear(p)
    <3>1. /\ walk'[p].mode = "clear" /\ walk'[p].own = Blocker(p) /\ pc'[p] = "walk"
          /\ ~in_deadlock'[p]
      BY <1>0, <2>3, Zenon DEF StartClear, Walk, Blocker
    <3> QED  BY <2>1, <3>1, Zenon DEF Clears, Recovering, WalkPcs
  <2> QED  BY <1>7, <2>2, <2>3, Zenon DEF KillVictim, WakeVictim, Goto
<1> QED  BY <1>2, <1>5, <1>6, <1>7, Zenon

(* Every flag that is set has a recovery that clears it. *)
LEMMA NextFlags ==
  ASSUME IInv, EdgeInv, EdgeInv', Frame, PidFrame, WalkInv, FlagInv, Next
  PROVE  FlagInv'
<1> SUFFICES ASSUME NEW x \in Procs, in_deadlock'[x] PROVE \E p \in Procs : Clears(p, x)'
  BY Zenon DEF FlagInv
<1>1. CASE in_deadlock[x]
  <2>1. PICK p \in Procs : Clears(p, x)
    BY <1>1, Zenon DEF FlagInv
  <2>2. pc[p] \in Scan /\ Recovery(p)
    BY <2>1, Zenon DEF Clears, Recovering, Scan, WalkInv
  <2>3. CASE Still(p)
    <3>1. pc'[p] = pc[p] /\ walk'[p] = walk[p] /\ arg'[p] = arg[p]
      BY <2>2, <2>3, Zenon DEF Still
    <3>2. Blocker(p)' = Blocker(p)
      BY <2>2, <3>1, ClosedKept, Zenon
    <3> QED  BY <2>1, <3>1, <3>2, Zenon DEF Clears, Recovering
  <2>4. CASE OwnStep(p)
    BY <2>1, <2>2, <2>4, ClearsOwn, Zenon
  <2> QED  BY <2>3, <2>4, Zenon DEF Frame
<1>2. CASE ~in_deadlock[x]
  <2>1. PICK p \in Procs : WalkOwner(p)
    BY <1>2, WhoMarks, Zenon
  <2>0. /\ in_deadlock \in [Procs -> BOOLEAN] /\ pc \in [Procs -> PC] /\ walk \in [Procs -> Walks]
        /\ pc[p] = "walk" /\ Recovery(p)
    BY <2>1, Zenon DEF IInv, TypeInv, TypeOK, WalkOwner, WalkInv, Scan, WalkPcs
  <2>2. Blocker(p)' = Blocker(p)
    BY <2>1, GraphStays, Zenon
  <2>3. CASE EndWalk(p)
    BY <1>2, <2>3, Zenon DEF EndWalk, flagVars
  <2>4. CASE StartMark(p)
    <3>1. x = p /\ pc'[p] = "walk" /\ walk'[p].mode = "mark"
      BY <1>2, <2>0, <2>4, Zenon DEF StartMark, Goto, Walk
    <3> QED  BY <3>1, Zenon DEF Clears, Recovering, WalkPcs
  <2>5. CASE walk[p].own # p /\ VisitOwner(p)
    <3>1. x = walk[p].own /\ walk[p].mode = "mark"
      BY <1>2, <2>0, <2>5, Zenon DEF VisitOwner
    <3>2. x = Blocker(p)
      BY <2>0, <2>5, <3>1, Zenon DEF Recovery, Recovering, WalkPcs
    <3>3. pc'[p] = "walkLock" /\ walk'[p].mode = "mark"
      BY <2>0, <2>5, <3>1, Zenon DEF VisitOwner, Goto, Walk
    <3> QED  BY <2>2, <3>2, <3>3, Zenon DEF Clears, Recovering, WalkPcs
  <2> QED  BY <2>1, <2>3, <2>4, <2>5, Zenon DEF WalkOwner
<1> QED  BY <1>1, <1>2, Zenon

(* The invariant of the detection and the recovery. *)
RecInv == EdgeInv /\ WalkInv /\ FlagInv

(* A closed cycle is a wait-for cycle of one or two processes. *)
LEMMA ClosedCycle ==
  ASSUME IInv, EdgeInv, NEW p \in Procs, pc[p] \in Scan, Closed(p)
  PROVE  {p, Blocker(p)} \in SUBSET Procs /\ Cycle({p, Blocker(p)})
<1>1. InAcquire(p) /\ Blocker(p) \in Procs
  BY Scanner, Zenon
<1>2. InAcquire(Blocker(p)) /\ Blocker(Blocker(p)) \in {p, Blocker(p)}
      /\ (Blocker(p) # p => Blocker(Blocker(p)) = p)
  BY <1>1, Scanner, Zenon DEF Blocker
<1>3. {Blocker(r) : r \in {p, Blocker(p)}} = {p, Blocker(p)}
  BY <1>2, Zenon
<1> QED  BY <1>1, <1>2, <1>3, Zenon DEF Cycle

(* The invariant gives the three properties. *)
LEMMA RecInvSound == IInv /\ RecInv => RecoverySound
<1> SUFFICES ASSUME IInv, RecInv PROVE RecoverySound
  BY Zenon
<1>1. ASSUME NEW p \in Procs, Recovering(p)
      PROVE  pc[p] \in Scan /\ Recovery(p) /\ Closed(p)
  BY <1>1, Zenon DEF RecInv, WalkInv, Recovering, Recovery, Scan
<1>2. DetectionSound
  BY <1>1, ClosedCycle, Zenon DEF DetectionSound, OnCycle, RecInv, Recovering
<1>3. VictimHasMaxEnergy
  <2> SUFFICES ASSUME NEW p \in Procs, pc[p] \in {"victim", "wakeVictim"}
               PROVE  \E S \in SUBSET Procs :
                        /\ p \in S /\ Cycle(S) /\ walk[p].victim \in S
                        /\ \A q \in S : energy[q] <= energy[walk[p].victim] \/ q \in late[p]
    BY Zenon DEF VictimHasMaxEnergy
  <2>1. Recovering(p)
    BY Zenon DEF Recovering
  <2>2. {p, Blocker(p)} \in SUBSET Procs /\ Cycle({p, Blocker(p)})
    BY <1>1, <2>1, ClosedCycle, Zenon DEF RecInv
  <2>3. Hungriest(p)
    BY <1>1, <2>1, Zenon DEF Recovery
  <2>4. /\ walk[p].victim \in {p, Blocker(p)}
        /\ \A q \in {p, Blocker(p)} : energy[q] <= energy[walk[p].victim] \/ q \in late[p]
    <3> DEFINE v == walk[p].victim
               m == walk[p].max
               q == Blocker(p)
    <3>1. /\ v \in {p, q} /\ m <= energy[v]
          /\ energy[p] <= m /\ (energy[q] <= m \/ q \in late[p])
      BY <2>3, Zenon DEF Hungriest
    <3>2. /\ energy \in [Procs -> 0..MaxEnergy] /\ walk[p] \in Walks /\ q \in Procs
          /\ m \in 0..MaxEnergy
      BY <2>2, WalkFields, Zenon DEF IInv, TypeInv, TypeOK
    <3>3. energy[v] \in 0..MaxEnergy /\ energy[p] \in 0..MaxEnergy /\ energy[q] \in 0..MaxEnergy
      BY <3>1, <3>2, Zenon
    <3> HIDE DEF v, m, q
    <3>4. energy[p] <= energy[v] /\ (energy[q] <= m => energy[q] <= energy[v])
      BY <3>1, <3>2, <3>3, SizesAssumption
    <3> QED  BY <3>1, <3>4, Zenon DEF v, q
  <2> QED  BY <2>2, <2>4, Zenon
<1>4. FlagsCleared
  BY Zenon DEF FlagsCleared, RecInv, FlagInv, Clears, Recovering
<1> QED  BY <1>2, <1>3, <1>4, Zenon DEF RecoverySound

(* With the two demo locks of the kernel, once they are initialised, and any  *)
(* number of processes and harts: would_create_deadlock() accuses only        *)
(* processes on a wait-for cycle although it reads without locks, no process  *)
(* of the cycle has consumed more than the victim except by ticks charged     *)
(* after the recovery began, and no in_deadlock flag is left behind.          *)
THEOREM RecoveryIsSound == Inited0 /\ NLOCK = 2 => (Spec => []RecoverySound)
<1> SUFFICES ASSUME Inited0, NLOCK = 2 PROVE Spec => []RecoverySound
  BY Zenon
<1>1. Init => RecInv
  <2> SUFFICES ASSUME Init PROVE RecInv
    BY Zenon
  <2>1. /\ waiting = [p \in Procs |-> None] /\ sb = [p \in Procs |-> None]
        /\ state = [p \in Procs |-> "RUNNABLE"] /\ in_deadlock = [p \in Procs |-> FALSE]
        /\ locked = [l \in Locks |-> FALSE] /\ pid = [l \in Locks |-> None]
        /\ pc = [p \in Procs |-> "user"]
    BY Zenon DEF Init
  <2>2. EdgeInv /\ FlagInv
    BY <2>1, Zenon DEF EdgeInv, FlagInv
  <2>3. WalkInv
    BY <2>1, Zenon DEF WalkInv, Scan, WalkPcs
  <2> QED  BY <2>2, <2>3, Zenon DEF RecInv
<1>2. IInv /\ RecInv /\ [Next]_vars => RecInv'
  <2> SUFFICES ASSUME IInv, RecInv, [Next]_vars PROVE RecInv'
    BY Zenon
  <2>1. CASE UNCHANGED vars
    <3>1. UNCHANGED <<locked, pid, state, waiting, sb, in_deadlock, energy, late, pc, arg, walk>>
      BY <2>1, Zenon DEF vars
    <3>6. \A r \in Procs : energy[r] \in Nat
      <4>1. energy \in [Procs -> 0..MaxEnergy]
        BY Zenon DEF IInv, TypeInv, TypeOK
      <4> QED  BY <4>1
    <3>2. EdgeInv'
      BY <3>1, Zenon DEF RecInv, EdgeInv, InAcquire
    <3>3. Frame /\ PidFrame
      BY <3>1, <3>6, Zenon DEF Frame, Waits, Still, PidFrame, InAcquire
    <3>4. WalkInv'
      BY <3>2, <3>3, NextWalks, Zenon DEF RecInv
    <3>5. FlagInv'
      BY <3>1, ZenonT(60) DEF RecInv, FlagInv, Clears, Recovering, Blocker
    <3> QED  BY <3>2, <3>4, <3>5, Zenon DEF RecInv
  <2>2. CASE Next
    <3>1. EdgeInv' /\ Frame /\ PidFrame
      BY <2>2, NextEdges, NextPids, Zenon DEF RecInv
    <3> QED  BY <2>2, <3>1, NextWalks, NextFlags, Zenon DEF RecInv
  <2> QED  BY <2>1, <2>2, Zenon
<1>3. Spec => []IInv
  BY IInvInvariant, Zenon
<1> QED  BY <1>1, <1>2, <1>3, RecInvSound, PTL DEF Spec
=============================================================================
