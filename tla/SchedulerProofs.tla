--------------------------- MODULE SchedulerProofs ---------------------------
(* The p->lock protocol of scheduler() for any number of processes and harts, *)
(* its timer on one hart, and its choice.                                     *)
EXTENDS Scheduler, TLAPS

States == {"RUNNABLE", "RUNNING", "SLEEPING"}

(* What the program counter of a hart says of its locals. *)
HartInv ==
  \A h \in Harts :
    /\ hpc[h] \in RunPcs <=> proc[h] # None
    /\ hpc[h] \in {"tick", "reset", "armrun", "switch"} => chosen[h] # None
    /\ hpc[h] \in RunPcs \cup {"loop", "idle", "armidle", "wfi"} => chosen[h] = None
    /\ hpc[h] = "recover" => victim[h] # None

(* The part of the type invariant that the protocol needs. *)
LockTypes ==
  /\ state \in [Procs -> States]
  /\ plock \in [Procs -> Harts \cup {None}]
  /\ hpc \in [Harts -> HartPcs]
  /\ idx \in [Harts -> Procs]
  /\ chosen \in [Harts -> Procs \cup {None}]
  /\ proc \in [Harts -> Procs \cup {None}]
  /\ victim \in [Harts -> Procs \cup {None}]

(* The invariant of the protocol, up to a store of the recovery that hits a   *)
(* RUNNING process.                                                           *)
IInv == LockTypes /\ HartInv /\ ChosenHeld /\ OneHart

(* What one hart may do. *)
Step(h) ==
  \/ SchedulerStep(h) \/ Timer(h) \/ Yield(h) \/ Sleep(h) \/ StoreVictim(h)
  \/ \E p \in Procs : Wakeup(h, p) \/ SeeVictim(h, p)

(* Slots and harts are numbered from 1, None is neither. *)
LEMMA NoneIsNone ==
  /\ \A p \in Procs : p # None /\ p \in Nat
  /\ \A h \in Harts : h # None
  /\ 1 \in Procs
  /\ \A p \in Procs : p # NPROC => p + 1 \in Procs
  BY SchedulerAssumption DEF Procs, Harts, None

(* At boot every hart is at the top of its loop and nothing is locked. *)
LEMMA InitIInv == Init => IInv
<1> SUFFICES ASSUME Init PROVE IInv
  BY Zenon
<1>1. LockTypes
  BY NoneIsNone, Zenon DEF Init, LockTypes, States, HartPcs
<1>2. HartInv
  BY Zenon DEF Init, HartInv, RunPcs
<1>3. ChosenHeld
  BY NoneIsNone, Zenon DEF Init, ChosenHeld
<1>4. OneHart
  BY NoneIsNone, Zenon DEF Init, OneHart
<1> QED BY <1>1, <1>2, <1>3, <1>4, Zenon DEF IInv

(* A step that moves a hart without touching locks, processes or choices. *)
LEMMA MoveIInv ==
  ASSUME IInv, NEW h \in Harts, NEW pc \in HartPcs, NEW i \in Procs,
         UNCHANGED <<state, plock, chosen, proc, victim>>, pc # "recover",
         hpc' = [hpc EXCEPT ![h] = pc], idx' = [idx EXCEPT ![h] = i],
         pc \in RunPcs <=> hpc[h] \in RunPcs,
         pc \in {"tick", "reset", "armrun", "switch"} => chosen[h] # None,
         pc \in RunPcs \cup {"loop", "idle", "armidle", "wfi"} => chosen[h] = None
  PROVE  IInv'
<1>1. LockTypes'
  BY Zenon DEF IInv, LockTypes
<1>2. HartInv'
  BY Zenon DEF IInv, LockTypes, HartInv
<1>3. ChosenHeld' /\ OneHart'
  BY DEF IInv, ChosenHeld, OneHart
<1> QED BY <1>1, <1>2, <1>3, Zenon DEF IInv

(* The index alone, or nothing, may move. *)
LEMMA IdxSame == IInv => \A h \in Harts : idx = [idx EXCEPT ![h] = idx[h]] /\ idx[h] \in Procs
  BY Zenon DEF IInv, LockTypes

(* A scan keeps the lock of its candidate and of nothing else. *)
LEMMA ScanIInv == ASSUME IInv, NEW h \in Harts, ScanStep(h) PROVE IInv'
<1> DEFINE p == idx[h]
           take == Eligible(hpc[h], p) /\ Better(p, chosen[h])
           c == IF take THEN p ELSE chosen[h]
           last == p = NPROC \/ (take /\ hpc[h] = "pass3")
<1>0. /\ hpc[h] \in Passes /\ plock[p] = None
      /\ chosen' = [chosen EXCEPT ![h] = c]
      /\ plock' = [q \in Procs |-> IF take /\ q = p THEN h
                                   ELSE IF take /\ q = chosen[h] THEN None
                                   ELSE plock[q]]
      /\ idx' = [idx EXCEPT ![h] = IF last THEN 1 ELSE p + 1]
      /\ hpc' = [hpc EXCEPT ![h] = IF last THEN AfterPass(hpc[h], c) ELSE hpc[h]]
      /\ UNCHANGED <<state, proc, victim>>
  BY Zenon DEF ScanStep, Goto, rvars
<1>1. p \in Procs /\ p # None /\ p \in Nat
  BY NoneIsNone, Zenon DEF IInv, LockTypes
<1>2. take => state[p] = "RUNNABLE"
  BY Zenon DEF Eligible
<1>3. c \in Procs \cup {None} /\ (take => c = p /\ c # None) /\ (~take => c = chosen[h])
  BY <1>1, Zenon DEF IInv, LockTypes
<1>4. last => take \/ p = NPROC
  BY Zenon
<1>5. /\ AfterPass(hpc[h], c) \in HartPcs
      /\ AfterPass(hpc[h], c) \notin RunPcs
      /\ AfterPass(hpc[h], c) # "recover" /\ hpc[h] # "recover"
      /\ AfterPass(hpc[h], c) \in {"tick", "reset", "armrun", "switch"} => c # None
      /\ AfterPass(hpc[h], c) \in {"loop", "idle", "armidle", "wfi"} => c = None
  BY <1>0, Zenon DEF AfterPass, HartPcs, RunPcs, Passes
<1>6. ~last => p + 1 \in Procs
  BY <1>1, NoneIsNone, Zenon
<1> HIDE DEF p, take, c, last
<1>7. LockTypes'
  <2>1. plock' \in [Procs -> Harts \cup {None}]
    BY <1>0, Zenon DEF IInv, LockTypes
  <2>2. idx' \in [Harts -> Procs]
    BY <1>0, <1>1, <1>6, NoneIsNone, Zenon DEF IInv, LockTypes
  <2>3. chosen' \in [Harts -> Procs \cup {None}]
    BY <1>0, <1>3, Zenon DEF IInv, LockTypes
  <2>4. hpc' \in [Harts -> HartPcs]
    BY <1>0, <1>5, Zenon DEF IInv, LockTypes
  <2> QED BY <1>0, <2>1, <2>2, <2>3, <2>4, Zenon DEF IInv, LockTypes
<1>8. HartInv'
  <2> SUFFICES ASSUME NEW g \in Harts
      PROVE /\ hpc'[g] \in RunPcs <=> proc'[g] # None
            /\ hpc'[g] \in {"tick", "reset", "armrun", "switch"} => chosen'[g] # None
            /\ hpc'[g] \in RunPcs \cup {"loop", "idle", "armidle", "wfi"} => chosen'[g] = None
            /\ hpc'[g] = "recover" => victim'[g] # None
    BY Zenon DEF HartInv
  <2>1. CASE g # h
    BY <1>0, <2>1, Zenon DEF IInv, LockTypes, HartInv
  <2>2. CASE g = h
    <3>1. hpc'[h] = (IF last THEN AfterPass(hpc[h], c) ELSE hpc[h]) /\ chosen'[h] = c
      BY <1>0, Zenon DEF IInv, LockTypes
    <3>2. proc'[h] = None
      BY <1>0, Zenon DEF IInv, HartInv, Passes, RunPcs
    <3> QED BY <1>0, <1>5, <2>2, <3>1, <3>2, Zenon DEF Passes, RunPcs
  <2> QED BY <2>1, <2>2, Zenon
<1>9. ChosenHeld'
  <2> SUFFICES ASSUME NEW g \in Harts
      PROVE /\ chosen'[g] # None => plock'[chosen'[g]] = g /\ state'[chosen'[g]] = "RUNNABLE"
            /\ \A q \in Procs : plock'[q] = g => q = chosen'[g]
    BY Zenon DEF ChosenHeld
  <2>0. /\ chosen[g] # None => plock[chosen[g]] = g /\ state[chosen[g]] = "RUNNABLE"
        /\ \A q \in Procs : plock[q] = g => q = chosen[g]
        /\ chosen[h] # None => plock[chosen[h]] = h /\ state[chosen[h]] = "RUNNABLE"
        /\ chosen[g] \in Procs \cup {None} /\ chosen[h] \in Procs \cup {None}
        /\ g # None /\ h # None
    BY NoneIsNone, Zenon DEF IInv, ChosenHeld, LockTypes
  <2>1. CASE g # h
    <3>1. chosen'[g] = chosen[g]
      BY <1>0, <2>1, Zenon DEF IInv, LockTypes
    <3>2. ASSUME NEW q \in Procs PROVE plock'[q] = g <=> plock[q] = g
      <4>1. q = chosen[h] => plock[q] = h
        BY <2>0, NoneIsNone, Zenon
      <4> QED BY <1>0, <2>0, <2>1, <4>1, Zenon
    <3> QED BY <1>0, <2>0, <3>1, <3>2, Zenon
  <2>2. CASE g = h
    <3>1. chosen'[h] = c
      BY <1>0, Zenon DEF IInv, LockTypes
    <3>2. CASE take
      <4>1. c = p /\ c # None
        BY <1>3, <3>2, Zenon
      <4>2. plock'[p] = h
        BY <1>0, <1>1, <3>2, Zenon
      <4>3. ASSUME NEW q \in Procs, plock'[q] = h PROVE q = p
        BY <1>0, <2>0, <2>2, <3>2, <4>3, Zenon
      <4> QED BY <1>0, <1>2, <2>2, <3>1, <3>2, <4>1, <4>2, <4>3, Zenon
    <3>3. CASE ~take
      BY <1>0, <1>3, <2>0, <2>2, <3>1, <3>3, Zenon
    <3> QED BY <3>2, <3>3, Zenon
  <2> QED BY <2>1, <2>2, Zenon
<1>10. OneHart'
  BY <1>0, Zenon DEF IInv, OneHart
<1> QED BY <1>7, <1>8, <1>9, <1>10, Zenon DEF IInv

(* Dispatching: the chosen process is RUNNABLE and locked by this hart, so it *)
(* runs nowhere else.                                                         *)
LEMMA SwitchIInv == ASSUME IInv, NEW h \in Harts, SwitchTo(h) PROVE IInv'
<1> DEFINE p == chosen[h]
<1>0. /\ hpc[h] = "switch"
      /\ state' = [state EXCEPT ![p] = "RUNNING"]
      /\ proc' = [proc EXCEPT ![h] = p]
      /\ plock' = [plock EXCEPT ![p] = None]
      /\ chosen' = [chosen EXCEPT ![h] = None]
      /\ hpc' = [hpc EXCEPT ![h] = "run"]
      /\ UNCHANGED <<idx, victim>>
  BY Zenon DEF SwitchTo, Goto, rvars
<1>1. p \in Procs /\ p # None /\ plock[p] = h /\ state[p] = "RUNNABLE"
  BY <1>0 DEF IInv, HartInv, ChosenHeld, LockTypes
<1>2. \A g \in Harts : proc[g] # p
  BY <1>1, Zenon DEF IInv, OneHart
<1> HIDE DEF p
<1>3. LockTypes'
  BY <1>0, <1>1, Zenon DEF IInv, LockTypes, States, HartPcs, RunPcs
<1>4. HartInv'
  BY <1>0, <1>1, Zenon DEF IInv, LockTypes, HartInv, RunPcs
<1>5. ChosenHeld'
  <2> SUFFICES ASSUME NEW g \in Harts
      PROVE /\ chosen'[g] # None => plock'[chosen'[g]] = g /\ state'[chosen'[g]] = "RUNNABLE"
            /\ \A q \in Procs : plock'[q] = g => q = chosen'[g]
    BY Zenon DEF ChosenHeld
  <2>0. /\ chosen[g] # None => plock[chosen[g]] = g /\ state[chosen[g]] = "RUNNABLE"
        /\ \A q \in Procs : plock[q] = g => q = chosen[g]
        /\ \A q \in Procs : plock[q] = h => q = p
        /\ chosen[g] \in Procs \cup {None}
        /\ g # None
    BY NoneIsNone, Zenon DEF IInv, ChosenHeld, LockTypes, p
  <2>1. CASE g # h
    BY <1>0, <1>1, <2>0, <2>1, Zenon DEF IInv, LockTypes
  <2>2. CASE g = h
    BY <1>0, <1>1, <2>0, <2>2, Zenon DEF IInv, LockTypes
  <2> QED BY <2>1, <2>2, Zenon
<1>6. OneHart'
  <2>1. \A a, b \in Harts : proc'[a] = proc'[b] /\ proc'[a] # None => a = b
    BY <1>0, <1>2, Zenon DEF IInv, OneHart, LockTypes
  <2>2. ASSUME NEW q \in Procs
        PROVE  state'[q] = "RUNNING" <=> \E g \in Harts : proc'[g] = q
    <3>1. CASE q = p
      BY <1>0, <1>1, <3>1, Zenon DEF IInv, LockTypes
    <3>2. CASE q # p
      <4>1. state'[q] = state[q]
        BY <1>0, <3>2, Zenon DEF IInv, LockTypes
      <4>2. proc[h] = None
        BY <1>0, Zenon DEF IInv, HartInv, RunPcs
      <4>3. \A g \in Harts : proc'[g] = q <=> proc[g] = q
        BY <1>0, <3>2, <4>2, NoneIsNone, Zenon DEF IInv, LockTypes
      <4> QED BY <4>1, <4>3, Zenon DEF IInv, OneHart
    <3> QED BY <3>1, <3>2, Zenon
  <2> QED BY <2>1, <2>2, Zenon DEF OneHart
<1> QED BY <1>3, <1>4, <1>5, <1>6, Zenon DEF IInv

(* Giving the hart back, in yield() and sleep(). *)
LEMMA GiveUpIInv ==
  ASSUME IInv, NEW h \in Harts, NEW s \in {"RUNNABLE", "SLEEPING"},
         hpc[h] \in RunPcs, GiveUp(h, s), UNCHANGED <<plock, idx, chosen, victim>>
  PROVE  IInv'
<1> DEFINE p == proc[h]
<1>0. /\ plock[p] = None
      /\ state' = [state EXCEPT ![p] = s]
      /\ proc' = [proc EXCEPT ![h] = None]
      /\ hpc' = [hpc EXCEPT ![h] = "loop"]
  BY Zenon DEF GiveUp, Goto
<1>1. p \in Procs /\ p # None /\ state[p] = "RUNNING" /\ chosen[h] = None
  BY DEF IInv, HartInv, OneHart, LockTypes
<1>2. \A g \in Harts : proc[g] = p => g = h
  BY <1>1, Zenon DEF IInv, OneHart
<1> HIDE DEF p
<1>3. LockTypes'
  BY <1>0, <1>1, Zenon DEF IInv, LockTypes, States, HartPcs
<1>4. HartInv'
  BY <1>0, <1>1, Zenon DEF IInv, LockTypes, HartInv, RunPcs
<1>5. ChosenHeld'
  BY <1>0, <1>1 DEF IInv, LockTypes, ChosenHeld
<1>6. OneHart'
  <2>1. \A a, b \in Harts : proc'[a] = proc'[b] /\ proc'[a] # None => a = b
    BY <1>0, ZenonT(60) DEF IInv, OneHart, LockTypes
  <2>2. ASSUME NEW q \in Procs
        PROVE  state'[q] = "RUNNING" <=> \E g \in Harts : proc'[g] = q
    <3>0. \A g \in Harts : proc'[g] = q <=> (proc[g] = q /\ g # h)
      BY <1>0, NoneIsNone, Zenon DEF IInv, LockTypes
    <3>1. CASE q = p
      BY <1>0, <1>1, <1>2, <3>0, <3>1, Zenon DEF IInv, LockTypes
    <3>2. CASE q # p
      BY <1>0, <3>0, <3>2 DEF IInv, LockTypes, OneHart, p
    <3> QED BY <3>1, <3>2, Zenon
  <2> QED BY <2>1, <2>2, Zenon DEF OneHart
<1> QED BY <1>3, <1>4, <1>5, <1>6, Zenon DEF IInv

(* A wakeup changes a SLEEPING process only: neither a candidate nor a        *)
(* running one.                                                               *)
LEMMA WakeupIInv == ASSUME IInv, NEW h \in Harts, NEW p \in Procs, Wakeup(h, p) PROVE IInv'
<1>0. /\ state[p] = "SLEEPING" /\ state' = [state EXCEPT ![p] = "RUNNABLE"]
      /\ hpc' = [hpc EXCEPT ![h] = IF hpc[h] = "wfi" THEN "loop" ELSE hpc[h]]
      /\ hpc[h] # "recover"
      /\ UNCHANGED <<plock, idx, chosen, proc, victim>>
  BY Zenon DEF Wakeup, Goto, Interruptible, rvars
<1>3. LockTypes'
  BY <1>0, Zenon DEF IInv, LockTypes, States, HartPcs
<1>4. HartInv'
  BY <1>0, Zenon DEF IInv, LockTypes, HartInv, RunPcs
<1>5. ChosenHeld'
  BY <1>0 DEF IInv, LockTypes, ChosenHeld
<1>6. OneHart'
  BY <1>0, Zenon DEF IInv, LockTypes, OneHart
<1> QED BY <1>3, <1>4, <1>5, <1>6, Zenon DEF IInv

(* The recovery remembers a sleeping process, and nothing else. *)
LEMMA SeeIInv == ASSUME IInv, NEW h \in Harts, NEW p \in Procs, SeeVictim(h, p) PROVE IInv'
<1>0. /\ hpc[h] = "run" /\ hpc' = [hpc EXCEPT ![h] = "recover"]
      /\ victim' = [victim EXCEPT ![h] = p]
      /\ UNCHANGED <<state, plock, idx, chosen, proc>>
  BY Zenon DEF SeeVictim, Goto
<1>1. p # None
  BY NoneIsNone, Zenon
<1>2. LockTypes'
  BY <1>0, Zenon DEF IInv, LockTypes, HartPcs, RunPcs
<1>3. HartInv'
  BY <1>0, <1>1, Zenon DEF IInv, LockTypes, HartInv, RunPcs
<1>4. ChosenHeld' /\ OneHart'
  BY <1>0 DEF IInv, ChosenHeld, OneHart
<1> QED BY <1>2, <1>3, <1>4, Zenon DEF IInv

(* Its store finds the victim asleep or RUNNABLE, or tears the invariant. *)
LEMMA StoreIInv == ASSUME IInv, NEW h \in Harts, StoreVictim(h), ~torn' PROVE IInv'
<1> DEFINE v == victim[h]
<1>0. /\ hpc[h] = "recover" /\ hpc' = [hpc EXCEPT ![h] = "run"]
      /\ state' = [state EXCEPT ![v] = "RUNNABLE"] /\ state[v] # "RUNNING"
      /\ victim' = [victim EXCEPT ![h] = None]
      /\ UNCHANGED <<plock, idx, chosen, proc>>
  BY Zenon DEF StoreVictim, Goto
<1>1. v \in Procs
  BY <1>0, Zenon DEF IInv, LockTypes, HartInv
<1> HIDE DEF v
<1>2. LockTypes'
  BY <1>0, Zenon DEF IInv, LockTypes, States, HartPcs, RunPcs
<1>3. HartInv'
  BY <1>0, Zenon DEF IInv, LockTypes, HartInv, RunPcs
<1>4. ChosenHeld'
  BY <1>0 DEF IInv, LockTypes, ChosenHeld
<1>5. OneHart'
  BY <1>0, <1>1, Zenon DEF IInv, LockTypes, OneHart
<1> QED BY <1>2, <1>3, <1>4, <1>5, Zenon DEF IInv

(* Every step of every hart keeps the invariant, or tears it. *)
LEMMA NextIInv == IInv /\ [Next]_vars => torn' \/ IInv'
<1> SUFFICES ASSUME IInv, [Next]_vars, ~torn' PROVE IInv'
  BY Zenon
<1>1. CASE UNCHANGED vars
  BY <1>1 DEF vars, hvars, rvars, IInv, LockTypes, HartInv, ChosenHeld, OneHart
<1>2. CASE Next
  <2> SUFFICES ASSUME NEW h \in Harts, Step(h) PROVE IInv'
    BY <1>2, Zenon DEF Next, Step
  <2>0. /\ idx = [idx EXCEPT ![h] = idx[h]] /\ idx[h] \in Procs /\ hpc[h] \in HartPcs
        /\ hpc = [hpc EXCEPT ![h] = hpc[h]]
        /\ hpc[h] \in {"tick", "reset", "armrun", "switch"} => chosen[h] # None
        /\ hpc[h] \in RunPcs \cup {"loop", "idle", "armidle", "wfi"} => chosen[h] = None
    BY Zenon DEF IInv, LockTypes, HartInv
  <2>1. CASE LoopTop(h)
    BY <2>0, <2>1, MoveIInv, Zenon DEF LoopTop, Goto, rvars, HartPcs, RunPcs, Passes
  <2>2. CASE ScanStep(h)
    BY <2>2, ScanIInv, Zenon
  <2>3. CASE TickStep(h)
    <3>1. /\ hpc[h] = "tick" /\ UNCHANGED <<state, plock, chosen, proc, victim>>
          /\ idx' = [idx EXCEPT ![h] = IF idx[h] = NPROC THEN 1 ELSE idx[h] + 1]
          /\ hpc' = [hpc EXCEPT ![h] = IF idx[h] = NPROC THEN "reset" ELSE "tick"]
      BY <2>3, Zenon DEF TickStep, Goto, rvars
    <3>2. (IF idx[h] = NPROC THEN 1 ELSE idx[h] + 1) \in Procs
      BY <2>0, NoneIsNone, Zenon
    <3> QED BY <2>0, <3>1, <3>2, MoveIInv, Zenon DEF HartPcs, RunPcs, Passes
  <2>4. CASE ResetTimer(h)
    BY <2>0, <2>4, MoveIInv, Zenon DEF ResetTimer, Goto, rvars, HartPcs, RunPcs, Passes
  <2>5. CASE Arm(h)
    BY <2>0, <2>5, MoveIInv, Zenon DEF Arm, Goto, rvars, HartPcs, RunPcs, Passes
  <2>6. CASE SwitchTo(h)
    BY <2>6, SwitchIInv, Zenon
  <2>7. CASE Stretch(h)
    BY <2>0, <2>7, MoveIInv, Zenon DEF Stretch, Goto, rvars, HartPcs, RunPcs, Passes
  <2>8. CASE TimerIdle(h)
    BY <2>0, <2>8, MoveIInv, Zenon DEF TimerIdle, Interruptible, Goto, rvars, HartPcs, RunPcs, Passes
  <2>9. CASE TimerRunning(h)
    <3>1. PICK trap \in {"utrap", "ktrap"} : hpc' = [hpc EXCEPT ![h] = trap]
      BY <2>9, Zenon DEF TimerRunning, Goto
    <3>2. hpc[h] = "run" /\ UNCHANGED <<state, plock, idx, chosen, proc, victim>>
      BY <2>9, Zenon DEF TimerRunning, rvars
    <3> QED BY <2>0, <3>1, <3>2, MoveIInv, Zenon DEF HartPcs, RunPcs, Passes
  <2>10. CASE Yield(h)
    BY <2>10, GiveUpIInv, Zenon DEF Yield, RunPcs, rvars
  <2>11. CASE Sleep(h)
    BY <2>11, GiveUpIInv, Zenon DEF Sleep, RunPcs, rvars
  <2>12. CASE \E p \in Procs : Wakeup(h, p)
    BY <2>12, WakeupIInv, Zenon
  <2>13. CASE \E p \in Procs : SeeVictim(h, p)
    BY <2>13, SeeIInv, Zenon
  <2>14. CASE StoreVictim(h)
    BY <2>14, StoreIInv, Zenon
  <2> QED
    BY <2>1, <2>2, <2>3, <2>4, <2>5, <2>6, <2>7, <2>8, <2>9, <2>10, <2>11, <2>12, <2>13, <2>14,
       Zenon
    DEF Step, SchedulerStep, Timer
<1> QED BY <1>1, <1>2, Zenon

(* What is torn stays torn. *)
LEMMA TornStays == torn /\ [Next]_vars => torn'
  BY ZenonT(60) DEF Next, vars, rvars, SchedulerStep, Timer, LoopTop, ScanStep, TickStep, ResetTimer,
     Arm, SwitchTo, Stretch, TimerIdle, TimerRunning, Yield, Sleep, Wakeup, SeeVictim, StoreVictim

(* The invariant of the protocol. *)
LEMMA IInvInvariant == Spec => [](torn \/ IInv)
<1> QED BY InitIInv, NextIInv, TornStays, PTL DEF Spec

(* Whatever the number of processes and harts, no process is dispatched on    *)
(* two harts, and RUNNING means that a hart runs it, until the recovery's     *)
(* unlocked store hits a RUNNING process.                                     *)
THEOREM DispatchedOnce == Spec => [](~torn => OneHart)
<1>1. IInv => OneHart
  BY Zenon DEF IInv
<1> QED BY IInvInvariant, <1>1, PTL

(* From the scan to swtch the chosen process stays RUNNABLE, and its lock is  *)
(* the only p->lock its hart holds, as sched() requires on the way back,      *)
(* with the same exception.                                                   *)
THEOREM ChoiceNotStale == Spec => [](~torn => ChosenHeld)
<1>1. IInv => ChosenHeld
  BY Zenon DEF IInv
<1> QED BY IInvInvariant, <1>1, PTL

(* With one hart the victim still sleeps when the store is made.              *)
VictimAsleep == \A h \in Harts : hpc[h] = "recover" => state[victim[h]] = "SLEEPING"

(* A hart that recovers takes no other step before its store. *)
LEMMA NextAsleep ==
  ASSUME NCPU = 1, IInv, VictimAsleep, ~torn, NEW h \in Harts, Step(h)
  PROVE  VictimAsleep' /\ ~torn'
<1>0. Harts = {h} /\ hpc \in [Harts -> HartPcs] /\ victim \in [Harts -> Procs \cup {None}]
  BY DEF Harts, IInv, LockTypes
<1>1. CASE \E p \in Procs : SeeVictim(h, p)
  <2>1. PICK p \in Procs : SeeVictim(h, p)
    BY <1>1, Zenon
  <2>2. victim'[h] = p /\ state'[p] = "SLEEPING" /\ torn' = torn
    BY <1>0, <2>1, Zenon DEF SeeVictim
  <2> QED BY <1>0, <2>2, Zenon DEF VictimAsleep
<1>2. CASE StoreVictim(h)
  BY <1>0, <1>2, Zenon DEF StoreVictim, Goto, VictimAsleep
<1>3. CASE SchedulerStep(h) \/ Timer(h) \/ Yield(h) \/ Sleep(h) \/ \E p \in Procs : Wakeup(h, p)
  <2>1. torn' = torn
    BY <1>3, Zenon DEF rvars, SchedulerStep, Timer, LoopTop, ScanStep, TickStep, ResetTimer,
       Arm, SwitchTo, Stretch, TimerIdle, TimerRunning, Yield, Sleep, Wakeup
  <2>2. hpc'[h] # "recover"
    BY <1>0, <1>3, Zenon DEF SchedulerStep, Timer, LoopTop, ScanStep, TickStep, ResetTimer,
       Arm, SwitchTo, Stretch, TimerIdle, TimerRunning, Yield, Sleep, Wakeup, GiveUp, Goto,
       AfterPass, Passes, Interruptible
  <2> QED BY <1>0, <2>1, <2>2, Zenon DEF VictimAsleep
<1> QED BY <1>1, <1>2, <1>3, Zenon DEF Step

(* The exception needs two harts: on a machine with one, no process is ever   *)
(* dispatched twice, the recovery's unlocked store included.                  *)
THEOREM OneHartIsSafe == NCPU = 1 => (Spec => [](~torn /\ OneHart))
<1> SUFFICES ASSUME NCPU = 1 PROVE Spec => [](~torn /\ OneHart)
  BY Zenon
<1>1. Init => VictimAsleep /\ ~torn
  BY Zenon DEF Init, VictimAsleep
<1>2. (torn \/ IInv) /\ VictimAsleep /\ ~torn /\ [Next]_vars => VictimAsleep' /\ ~torn'
  <2>1. CASE UNCHANGED vars
    BY <2>1, Zenon DEF vars, hvars, rvars, VictimAsleep
  <2> QED BY <2>1, NextAsleep, Zenon DEF Next, Step
<1>3. IInv => OneHart
  BY Zenon DEF IInv
<1> QED BY <1>1, <1>2, <1>3, IInvInvariant, PTL DEF Spec

-----------------------------------------------------------------------------
(* The rest of the type invariant: no charge leaves the range of uint64. *)
DataTypes ==
  /\ budget \in [Procs -> UInt64] /\ consumed \in [Procs -> 0..DEFAULT_ENERGY_BUDGET]
  /\ began \in [Harts -> SUBSET Procs] /\ torn \in BOOLEAN
  /\ timer_interval \in {"fast", "slow"} /\ armed \in [Harts -> {"fast", "slow"}]

(* With one hart the interval is fast from the reset until the hart idles,    *)
(* and the pending interrupt was armed with it, but between the reset and     *)
(* w_stimecmp().                                                              *)
TimerInv ==
  \A h \in Harts :
    /\ hpc[h] \in RunPcs \cup {"armrun", "switch"} => timer_interval = "fast"
    /\ timer_interval = "fast" /\ hpc[h] # "armrun" => armed[h] = "fast"

(* What a charge leaves is a uint64. *)
LEMMA ChargeTypes ==
  ASSUME NEW b \in UInt64
  PROVE  ClockCharge(b) \in UInt64 /\ UserCharge(b) \in UInt64
  BY EnergyAssumption DEF UInt64, ClockCharge, UserCharge, Wrap

(* What is consumed is counted up to the default budget. *)
LEMMA SpendTypes ==
  ASSUME NEW c \in 0..DEFAULT_ENERGY_BUDGET
  PROVE  Spend(c) \in 0..DEFAULT_ENERGY_BUDGET
  BY EnergyAssumption DEF Spend

(* The timer interrupt and the trap that follows it are all that charges. *)
LEMMA OnlyTicksCharge ==
  ASSUME NEW h \in Harts, Step(h)
  PROVE  TimerRunning(h) \/ Yield(h) \/ UNCHANGED evars
  BY Zenon DEF Step, SchedulerStep, Timer, LoopTop, ScanStep, TickStep, ResetTimer, Arm,
     SwitchTo, Stretch, TimerIdle, Sleep, Wakeup, SeeVictim, StoreVictim

(* Every step is type-correct. *)
LEMMA NextDataTypes ==
  ASSUME IInv, DataTypes, NEW h \in Harts, Step(h)
  PROVE  DataTypes'
<1>1. budget' \in [Procs -> UInt64] /\ consumed' \in [Procs -> 0..DEFAULT_ENERGY_BUDGET]
  <2>1. CASE TimerRunning(h)
    <3>1. proc[h] \in Procs
      BY <2>1, Zenon DEF TimerRunning, IInv, LockTypes, HartInv, RunPcs
    <3>2. ClockCharge(budget[proc[h]]) \in UInt64
      BY <3>1, ChargeTypes, Zenon DEF DataTypes
    <3>3. Spend(consumed[proc[h]]) \in 0..DEFAULT_ENERGY_BUDGET
      BY <3>1, SpendTypes, Zenon DEF DataTypes
    <3> QED  BY <2>1, <3>2, <3>3, Zenon DEF TimerRunning, DataTypes
  <2>2. CASE Yield(h)
    <3>1. proc[h] \in Procs
      BY <2>2, Zenon DEF Yield, IInv, LockTypes, HartInv, RunPcs
    <3>2. UserCharge(budget[proc[h]]) \in UInt64
      BY <3>1, ChargeTypes, Zenon DEF DataTypes
    <3>3. Spend(consumed[proc[h]]) \in 0..DEFAULT_ENERGY_BUDGET
      BY <3>1, SpendTypes, Zenon DEF DataTypes
    <3> QED  BY <2>2, <3>2, <3>3, Zenon DEF Yield, DataTypes, evars
  <2>3. CASE UNCHANGED evars
    BY <2>3, Zenon DEF DataTypes, evars
  <2> QED  BY <2>1, <2>2, <2>3, OnlyTicksCharge, Zenon
<1>2. began' \in [Harts -> SUBSET Procs]
  BY ZenonT(60) DEF DataTypes, Step, SchedulerStep, Timer, LoopTop, ScanStep, TickStep,
     ResetTimer, Arm, SwitchTo, Stretch, TimerIdle, TimerRunning, Yield, Sleep, Wakeup,
     SeeVictim, StoreVictim, Runnable
<1>3. timer_interval' \in {"fast", "slow"} /\ armed' \in [Harts -> {"fast", "slow"}]
  BY Zenon DEF DataTypes, Step, SchedulerStep, Timer, LoopTop, ScanStep, TickStep, ResetTimer,
     Arm, SwitchTo, Stretch, TimerIdle, TimerRunning, Yield, Sleep, Wakeup, SeeVictim,
     StoreVictim, tvars
<1>4. torn' \in BOOLEAN
  BY Zenon DEF DataTypes, Step, SchedulerStep, Timer, LoopTop, ScanStep, TickStep, ResetTimer,
     Arm, SwitchTo, Stretch, TimerIdle, TimerRunning, Yield, Sleep, Wakeup, SeeVictim,
     StoreVictim, rvars
<1> QED  BY <1>1, <1>2, <1>3, <1>4, Zenon DEF DataTypes

(* Every step of the only hart keeps the timer's invariant. *)
LEMMA NextTimer ==
  ASSUME NCPU = 1, IInv, DataTypes, TimerInv, NEW h \in Harts, Step(h)
  PROVE  TimerInv'
<1>0. Harts = {h}
  BY DEF Harts
<1>1. /\ hpc \in [Harts -> HartPcs] /\ armed \in [Harts -> {"fast", "slow"}]
      /\ timer_interval \in {"fast", "slow"}
      /\ hpc[h] \in RunPcs \cup {"armrun", "switch"} => timer_interval = "fast"
      /\ timer_interval = "fast" /\ hpc[h] # "armrun" => armed[h] = "fast"
  BY Zenon DEF IInv, LockTypes, DataTypes, TimerInv
<1> SUFFICES /\ hpc'[h] \in RunPcs \cup {"armrun", "switch"} => timer_interval' = "fast"
             /\ timer_interval' = "fast" /\ hpc'[h] # "armrun" => armed'[h] = "fast"
  BY <1>0, Zenon DEF TimerInv
<1> USE <1>1 DEF Goto, RunPcs, tvars
<1>2. CASE LoopTop(h)
  BY <1>2, Zenon DEF LoopTop
<1>3. CASE ScanStep(h)
  <2>1. hpc'[h] \in Passes \cup {"tick", "idle"} /\ hpc[h] \in Passes /\ UNCHANGED tvars
    BY <1>3, Zenon DEF ScanStep, AfterPass, Passes
  <2> QED  BY <2>1, Zenon DEF Passes
<1>4. CASE TickStep(h)
  BY <1>4, Zenon DEF TickStep
<1>5. CASE ResetTimer(h)
  BY <1>5, Zenon DEF ResetTimer
<1>6. CASE Arm(h)
  BY <1>6, Zenon DEF Arm
<1>7. CASE SwitchTo(h)
  BY <1>7, Zenon DEF SwitchTo
<1>8. CASE Stretch(h)
  BY <1>8, Zenon DEF Stretch
<1>9. CASE TimerIdle(h)
  BY <1>9, Zenon DEF TimerIdle
<1>10. CASE TimerRunning(h)
  BY <1>10, Zenon DEF TimerRunning
<1>11. CASE Yield(h) \/ Sleep(h)
  BY <1>11, Zenon DEF Yield, Sleep, GiveUp
<1>12. CASE \E p \in Procs : Wakeup(h, p)
  BY <1>12, Zenon DEF Wakeup
<1>13. CASE StoreVictim(h) \/ \E p \in Procs : SeeVictim(h, p)
  BY <1>13, Zenon DEF StoreVictim, SeeVictim
<1> QED  BY <1>2, <1>3, <1>4, <1>5, <1>6, <1>7, <1>8, <1>9, <1>10, <1>11, <1>12, <1>13, Zenon
         DEF Step, SchedulerStep, Timer

(* On a machine with one hart a process runs with the fast interval armed,    *)
(* however idling, wakeups and timer interrupts alternate, for any number of  *)
(* processes; the types of all variables with it.                             *)
THEOREM FastOnOneHart == NCPU = 1 => (Spec => []FastWhileRunning)
<1> SUFFICES ASSUME NCPU = 1 PROVE Spec => []FastWhileRunning
  BY Zenon
<1>1. Init => DataTypes /\ TimerInv
  <2> SUFFICES ASSUME Init PROVE DataTypes /\ TimerInv
    BY Zenon
  <2>1. DEFAULT_ENERGY_BUDGET \in UInt64 /\ 0 \in 0..DEFAULT_ENERGY_BUDGET
    BY EnergyAssumption DEF UInt64
  <2> QED  BY <2>1, Zenon DEF Init, DataTypes, TimerInv
<1>2. IInv /\ DataTypes /\ TimerInv /\ [Next]_vars => DataTypes' /\ TimerInv'
  <2> SUFFICES ASSUME IInv, DataTypes, TimerInv, [Next]_vars PROVE DataTypes' /\ TimerInv'
    BY Zenon
  <2>1. CASE UNCHANGED vars
    BY <2>1, Zenon DEF vars, hvars, tvars, evars, rvars, DataTypes, TimerInv
  <2> QED  BY <2>1, NextDataTypes, NextTimer, Zenon DEF Next, Step
<1>3. IInv /\ DataTypes /\ TimerInv => FastWhileRunning
  BY Zenon DEF IInv, LockTypes, States, DataTypes, TimerInv, FastWhileRunning, TypeOK, RunPcs
<1>4. Spec => []~torn
  BY OneHartIsSafe, PTL
<1> QED  BY <1>1, <1>2, <1>3, <1>4, IInvInvariant, PTL DEF Spec

-----------------------------------------------------------------------------
(* The three passes.  Child and High are the tiers of BestChosen's ranking.   *)
Child(p) == p \in SchedChildren
High(p) == Child(p) /\ budget[p] > LOW_ENERGY_THRESHOLD

(* The processes that were RUNNABLE during the whole scan and that the        *)
(* present pass has looked at.                                                *)
Seen(h) == {p \in began[h] : p < idx[h]}

(* c is no later a choice than anyone of the set S. *)
Leads(c, S) == \A p \in S : c # None /\ Pid[c] <= Pid[p]

Pass1Inv(h) == /\ chosen[h] # None => High(chosen[h])
               /\ Leads(chosen[h], {p \in Seen(h) : High(p)})
Pass2Inv(h) == /\ \A p \in began[h] : ~High(p)
               /\ chosen[h] # None => Child(chosen[h])
               /\ Leads(chosen[h], {p \in Seen(h) : Child(p)})
Pass3Inv(h) == /\ \A p \in began[h] : ~Child(p)
               /\ chosen[h] = None
               /\ Seen(h) = {}

(* What each pass has established so far, and what is left of it until swtch. *)
Rank(h) ==
  /\ \A p \in began[h] : p \in Procs /\ state[p] = "RUNNABLE"
  /\ hpc[h] = "pass1" => Pass1Inv(h)
  /\ hpc[h] = "pass2" => Pass2Inv(h)
  /\ hpc[h] = "pass3" => Pass3Inv(h)
  /\ hpc[h] \in {"tick", "reset", "armrun", "switch"} =>
       \A p \in began[h] : ~Above(p, chosen[h])
  /\ hpc[h] \notin Passes \cup {"tick"} => idx[h] = 1
RankInv == \A h \in Harts : Rank(h)

(* A scan has not begun. *)
LEMMA InitRank == Init => RankInv
  BY DEF Init, RankInv, Rank, Passes

(* What one hart's scan has established is left alone by a step of another,   *)
(* which may only take processes out of began and never charges one in it.    *)
LEMMA RankKept ==
  ASSUME IInv, NEW g \in Harts, Rank(g), hpc'[g] = hpc[g], idx'[g] = idx[g],
         chosen'[g] = chosen[g], began'[g] \subseteq began[g],
         \A p \in began'[g] : state'[p] = "RUNNABLE" /\ budget'[p] = budget[p],
         chosen[g] # None => budget'[chosen[g]] = budget[chosen[g]]
  PROVE  Rank(g)'
<1>1. chosen[g] # None => (High(chosen[g]))' = High(chosen[g])
  BY Zenon DEF High, Child
<1>2. \A p \in began'[g] : p \in began[g] /\ High(p)' = High(p)
  BY Zenon DEF High, Child
<1>3. \A p \in began'[g] : p \in Procs /\ state'[p] = "RUNNABLE"
  BY Zenon DEF Rank
<1>4. (hpc[g] = "pass1" => Pass1Inv(g))'
  BY <1>1, <1>2, Zenon DEF Rank, Pass1Inv, Leads, Seen
<1>5. (hpc[g] = "pass2" => Pass2Inv(g))'
  BY <1>2, Zenon DEF Rank, Pass2Inv, Leads, Seen, Child
<1>6. (hpc[g] = "pass3" => Pass3Inv(g))'
  BY <1>2, Zenon DEF Rank, Pass3Inv, Seen, Child
<1>7. ASSUME hpc[g] \in {"tick", "reset", "armrun", "switch"}, NEW p \in began'[g]
      PROVE  ~Above(p, chosen[g])'
  <2>1. chosen[g] # None
    BY <1>7, Zenon DEF IInv, HartInv
  <2>2. ~Above(p, chosen[g])
    BY <1>7, <1>2, Zenon DEF Rank
  <2> QED BY <1>2, <2>1, <2>2, Zenon DEF Above
<1> QED BY <1>3, <1>4, <1>5, <1>6, <1>7, Zenon DEF Rank

(* One look of a pass over the set S: whoever leads is led by nobody before.  *)
LEMMA LeadsStep ==
  ASSUME NEW S \in SUBSET Procs, NEW p \in Procs, NEW c \in Procs \cup {None},
         NEW ok \in BOOLEAN, p \in S => ok, Leads(c, {q \in S : q < p})
  PROVE  Leads(IF ok /\ Better(p, c) THEN p ELSE c, {q \in S : q <= p})
<1>1. \A q \in Procs : Pid[q] \in Nat /\ q \in Nat /\ q # None
  BY NoneIsNone, SchedulerAssumption, Zenon
<1>2. CASE ok /\ Better(p, c)
  <2>1. c # None => Pid[p] < Pid[c]
    BY <1>2, Zenon DEF Better
  <2>2. ASSUME NEW q \in S, q < p PROVE Pid[p] <= Pid[q]
    <3>1. c # None /\ Pid[c] <= Pid[q]
      BY <2>2, Zenon DEF Leads
    <3> QED BY <1>1, <2>1, <3>1
  <2>3. \A q \in S : q <= p => q < p \/ q = p
    BY <1>1
  <2> QED BY <1>1, <1>2, <2>2, <2>3 DEF Leads
<1>3. CASE ~(ok /\ Better(p, c))
  <2>1. p \in S => c # None /\ Pid[c] <= Pid[p]
    BY <1>1, <1>3 DEF Better
  <2>2. \A q \in S : q <= p => q < p \/ q = p
    BY <1>1
  <2> QED BY <1>3, <2>1, <2>2, Zenon DEF Leads
<1> QED BY <1>2, <1>3, Zenon

(* Above in terms of the tiers. *)
LEMMA AboveTiers ==
  ASSUME NEW q, NEW r
  PROVE  Above(q, r) <=>
                   \/ High(q) /\ ~High(r)
                   \/ High(q) /\ High(r) /\ Pid[q] < Pid[r]
                   \/ Child(q) /\ ~Child(r)
                   \/ Child(q) /\ ~High(q) /\ Child(r) /\ ~High(r) /\ Pid[q] < Pid[r]
                   \/ ~Child(q) /\ ~Child(r) /\ q < r
  BY Zenon DEF Above, High, Child

(* A look of any pass keeps what that pass establishes, and the end of a pass *)
(* gives the next one, or the choice, what it needs.                          *)
LEMMA ScanRank == ASSUME IInv, NEW h \in Harts, Rank(h), ScanStep(h) PROVE Rank(h)'
<1> DEFINE p == idx[h]
           take == Eligible(hpc[h], p) /\ Better(p, chosen[h])
           c == IF take THEN p ELSE chosen[h]
           last == p = NPROC \/ (take /\ hpc[h] = "pass3")
           B == began[h]
<1>0. /\ hpc[h] \in Passes
      /\ chosen'[h] = c
      /\ idx'[h] = IF last THEN 1 ELSE p + 1
      /\ hpc'[h] = IF last THEN AfterPass(hpc[h], c) ELSE hpc[h]
      /\ UNCHANGED <<state, budget, began>>
  BY Zenon DEF ScanStep, Goto, evars, IInv, LockTypes
<1>0a. state' = state /\ budget' = budget /\ began' = began
  BY <1>0, Zenon
<1>1. /\ p \in Procs /\ p \in Nat /\ chosen[h] \in Procs \cup {None}
      /\ \A q \in Procs : q \in Nat /\ q # None /\ q <= NPROC /\ 1 <= q /\ Pid[q] \in Nat
      /\ NPROC \in Nat
  <2>1. p \in Procs /\ chosen[h] \in Procs \cup {None}
    BY Zenon DEF IInv, LockTypes
  <2>2. /\ \A q \in Procs : q \in Nat /\ q # None /\ q <= NPROC /\ 1 <= q /\ Pid[q] \in Nat
        /\ NPROC \in Nat
    BY NoneIsNone, SchedulerAssumption DEF Procs
  <2> QED BY <2>1, <2>2, Zenon
<1>2. B \subseteq Procs /\ \A q \in B : state[q] = "RUNNABLE"
  BY Zenon DEF Rank
<1>3. c \in Procs \cup {None} /\ (take => c = p /\ c # None) /\ (~take => c = chosen[h])
  BY <1>1, Zenon
<1>4. \A q : High(q)' = High(q) /\ Child(q)' = Child(q)
  BY <1>0a, Zenon DEF High, Child
<1>5. \A q, r : Above(q, r)' = Above(q, r)
  BY <1>0a DEF Above
<1>6. began'[h] = B /\ (\A q \in began'[h] : q \in Procs /\ state'[q] = "RUNNABLE")
  BY <1>0, <1>2, Zenon
<1>7. last => Seen(h)' = {}
  BY <1>0, <1>1, <1>2, <1>6, SMTT(90) DEF Seen
<1>8. ~last => Seen(h)' = {q \in B : q <= p}
  BY <1>0, <1>1, <1>2, <1>6 DEF Seen
<1>9. hpc[h] # "pass3" => (last <=> p = NPROC)
  BY Zenon
<1>10. ASSUME NEW q
       PROVE  Above(q, c) <=>
                   \/ High(q) /\ ~High(c)
                   \/ High(q) /\ High(c) /\ Pid[q] < Pid[c]
                   \/ Child(q) /\ ~Child(c)
                   \/ Child(q) /\ ~High(q) /\ Child(c) /\ ~High(c) /\ Pid[q] < Pid[c]
                   \/ ~Child(q) /\ ~Child(c) /\ q < c
  BY AboveTiers, Zenon
<1>11. High(c) => Child(c)
  BY Zenon DEF High
<1> HIDE DEF p, take, c, last, B
<1>12. CASE hpc[h] = "pass1"
  <2>1. Eligible("pass1", p) <=> state[p] = "RUNNABLE" /\ High(p)
    BY Zenon DEF Eligible, High, Child
  <2>2. c # None => High(c)
    BY <1>3, <1>12, <2>1, Zenon DEF take, Rank, Pass1Inv
  <2>3. Leads(c, {q \in {r \in B : High(r)} : q <= p})
    <3> DEFINE S == {r \in B : High(r)}
    <3>1. Leads(chosen[h], {q \in S : q < p})
      BY <1>12, Zenon DEF Rank, Pass1Inv, Leads, Seen, B, p
    <3>2. p \in S => Eligible("pass1", p)
      BY <1>2, <2>1, Zenon
    <3>3. S \in SUBSET Procs /\ Eligible("pass1", p) \in BOOLEAN
      BY <1>2, Zenon DEF Eligible
    <3> HIDE DEF S
    <3>4. Leads(IF Eligible("pass1", p) /\ Better(p, chosen[h]) THEN p ELSE chosen[h],
                {q \in S : q <= p})
      BY <1>1, <3>1, <3>2, <3>3, LeadsStep, Zenon
    <3> QED BY <1>12, <3>4, Zenon DEF c, take, S
  <2>4. CASE ~last
    <3>1. hpc'[h] = "pass1" /\ chosen'[h] = c
      BY <1>0, <1>12, <2>4, Zenon
    <3>2. Leads(c, {q \in Seen(h)' : High(q)'})
      BY <1>4, <1>8, <2>3, <2>4, Zenon DEF Leads
    <3>3. Pass1Inv(h)'
      BY <1>4, <2>2, <3>1, <3>2, Zenon DEF Pass1Inv, Leads
    <3> QED BY <1>6, <3>1, <3>3, Zenon DEF Rank, Passes
  <2>5. CASE last /\ c = None
    <3>1. \A q \in B : ~High(q)
      BY <1>1, <1>2, <1>9, <1>12, <2>3, <2>5, Zenon DEF Leads
    <3>2. hpc'[h] = "pass2"
      BY <1>0, <1>12, <2>5, Zenon DEF AfterPass
    <3> QED BY <1>0, <1>4, <1>6, <1>7, <2>5, <3>1, <3>2, Zenon DEF Rank, Pass2Inv, Leads, Passes
  <2>6. CASE last /\ c # None
    <3>1. ASSUME NEW q \in B PROVE ~Above(q, c)
      <4>1. High(q) => Pid[c] <= Pid[q]
        BY <1>1, <1>2, <1>9, <1>12, <2>3, <2>6, <3>1, Zenon DEF Leads
      <4>2. q \in Procs /\ c \in Procs
        BY <1>2, <1>3, <2>6, Zenon
      <4> QED BY <1>1, <1>10, <1>11, <2>2, <2>6, <4>1, <4>2
    <3>2. hpc'[h] = "tick"
      BY <1>0, <1>12, <2>6, Zenon DEF AfterPass
    <3> QED BY <1>0, <1>5, <1>6, <3>1, <3>2, Zenon DEF Rank
  <2> QED BY <2>4, <2>5, <2>6, Zenon
<1>13. CASE hpc[h] = "pass2"
  <2>0. \A q \in B : ~High(q)
    BY <1>13, Zenon DEF Rank, Pass2Inv, B
  <2>1. Eligible("pass2", p) <=> state[p] = "RUNNABLE" /\ Child(p)
    BY Zenon DEF Eligible, Child
  <2>2. c # None => Child(c)
    BY <1>3, <1>13, <2>1, Zenon DEF take, Rank, Pass2Inv
  <2>3. Leads(c, {q \in {r \in B : Child(r)} : q <= p})
    <3> DEFINE S == {r \in B : Child(r)}
    <3>1. Leads(chosen[h], {q \in S : q < p})
      BY <1>13, Zenon DEF Rank, Pass2Inv, Leads, Seen, B, p
    <3>2. p \in S => Eligible("pass2", p)
      BY <1>2, <2>1, Zenon
    <3>3. S \in SUBSET Procs /\ Eligible("pass2", p) \in BOOLEAN
      BY <1>2, Zenon DEF Eligible
    <3> HIDE DEF S
    <3>4. Leads(IF Eligible("pass2", p) /\ Better(p, chosen[h]) THEN p ELSE chosen[h],
                {q \in S : q <= p})
      BY <1>1, <3>1, <3>2, <3>3, LeadsStep, Zenon
    <3> QED BY <1>13, <3>4, Zenon DEF c, take, S
  <2>4. CASE ~last
    <3>1. hpc'[h] = "pass2" /\ chosen'[h] = c
      BY <1>0, <1>13, <2>4, Zenon
    <3>2. Leads(c, {q \in Seen(h)' : Child(q)'})
      BY <1>4, <1>8, <2>3, <2>4, Zenon DEF Leads
    <3>3. Pass2Inv(h)'
      BY <1>4, <1>6, <2>0, <2>2, <3>1, <3>2, Zenon DEF Pass2Inv, Leads
    <3> QED BY <1>6, <3>1, <3>3, Zenon DEF Rank, Passes
  <2>5. CASE last /\ c = None
    <3>1. \A q \in B : ~Child(q)
      BY <1>1, <1>2, <1>9, <1>13, <2>3, <2>5, Zenon DEF Leads
    <3>2. hpc'[h] = "pass3"
      BY <1>0, <1>13, <2>5, Zenon DEF AfterPass
    <3> QED BY <1>0, <1>4, <1>6, <1>7, <2>5, <3>1, <3>2, Zenon DEF Rank, Pass3Inv, Passes
  <2>6. CASE last /\ c # None
    <3>1. ASSUME NEW q \in B PROVE ~Above(q, c)
      <4>1. Child(q) => Pid[c] <= Pid[q]
        BY <1>1, <1>2, <1>9, <1>13, <2>3, <2>6, <3>1, Zenon DEF Leads
      <4>2. q \in Procs /\ c \in Procs
        BY <1>2, <1>3, <2>6, Zenon
      <4> QED BY <1>1, <1>10, <2>0, <2>2, <2>6, <4>1, <4>2
    <3>2. hpc'[h] = "tick"
      BY <1>0, <1>13, <2>6, Zenon DEF AfterPass
    <3> QED BY <1>0, <1>5, <1>6, <3>1, <3>2, Zenon DEF Rank
  <2> QED BY <2>4, <2>5, <2>6, Zenon
<1>14. CASE hpc[h] = "pass3"
  <2>0. (\A q \in B : ~Child(q) /\ ~(q < p)) /\ chosen[h] = None
    BY <1>14, Zenon DEF Rank, Pass3Inv, Seen, B, p
  <2>1. take <=> state[p] = "RUNNABLE"
    BY <1>14, <2>0, Zenon DEF take, Eligible, Better
  <2>2. CASE take
    <3>1. hpc'[h] = "tick" /\ c = p
      BY <1>0, <1>3, <1>14, <2>2, Zenon DEF AfterPass, last
    <3>2. \A q \in B : ~Above(q, c)
      BY <1>10, <2>0, <3>1, Zenon DEF High
    <3> QED BY <1>0, <1>5, <1>6, <3>1, <3>2, Zenon DEF Rank
  <2>3. CASE ~take
    <3>1. c = None /\ p \notin B /\ (last <=> p = NPROC)
      BY <1>2, <1>3, <2>0, <2>1, <2>3, Zenon DEF last
    <3>2. CASE last
      <4>1. hpc'[h] = "idle" /\ idx'[h] = 1
        BY <1>0, <1>14, <3>1, <3>2, Zenon DEF AfterPass
      <4> QED BY <1>6, <4>1, Zenon DEF Rank
    <3>3. CASE ~last
      <4>0. \A q \in B : ~(q <= p)
        <5>1. ASSUME NEW q \in B, q <= p PROVE FALSE
          <6>1. q \in Nat /\ p \in Nat /\ ~(q < p) /\ q # p
            BY <1>1, <1>2, <2>0, <3>1, Zenon
          <6> QED BY <5>1, <6>1
        <5> QED BY <5>1, Zenon
      <4>1. Seen(h)' = {}
        BY <1>8, <3>3, <4>0, Zenon
      <4> QED BY <1>0, <1>4, <1>6, <1>14, <2>0, <3>1, <3>3, <4>1, Zenon DEF Rank, Pass3Inv, Passes
    <3> QED BY <3>2, <3>3, Zenon
  <2> QED BY <2>2, <2>3, Zenon
<1> QED BY <1>0, <1>12, <1>13, <1>14, Zenon DEF Passes

(* A process that was RUNNABLE during a scan, or is chosen, runs nowhere: no  *)
(* hart puts it to sleep or charges it.                                       *)
LEMMA NotRunning ==
  ASSUME IInv, RankInv, NEW h \in Harts, NEW g \in Harts
  PROVE  (\A p \in began[g] : p # proc[h]) /\ (chosen[g] # None => chosen[g] # proc[h])
<1>1. ASSUME NEW p \in Procs, state[p] = "RUNNABLE" PROVE p # proc[h]
  BY <1>1, Zenon DEF IInv, OneHart
<1>2. \A p \in began[g] : p \in Procs /\ state[p] = "RUNNABLE"
  BY Zenon DEF RankInv, Rank
<1>3. chosen[g] # None => chosen[g] \in Procs /\ state[chosen[g]] = "RUNNABLE"
  BY DEF IInv, ChosenHeld, LockTypes
<1> QED BY <1>1, <1>2, <1>3, Zenon

(* The hart's step keeps what it needs itself, outside the scan. *)
LEMMA OwnRank ==
  ASSUME IInv, NEW h \in Harts, Rank(h), NEW pc \in HartPcs,
         hpc' = [hpc EXCEPT ![h] = pc], idx'[h] = 1,
         began'[h] \subseteq began[h], \A p \in began'[h] : state'[p] = "RUNNABLE",
         pc \notin Passes \cup {"tick", "reset", "armrun", "switch"}
  PROVE  Rank(h)'
<1>1. hpc'[h] = pc
  BY Zenon DEF IInv, LockTypes
<1>2. \A p \in began'[h] : p \in Procs /\ state'[p] = "RUNNABLE"
  BY Zenon DEF Rank
<1> QED BY <1>1, <1>2, Zenon DEF Rank, Passes

(* On the way from the choice to swtch. *)
LEMMA ChosenRank ==
  ASSUME IInv, NEW h \in Harts, Rank(h), hpc[h] \in {"tick", "reset", "armrun"},
         hpc'[h] \in {"tick", "reset", "armrun", "switch"}, hpc'[h] # "tick" => idx'[h] = 1,
         UNCHANGED <<state, budget, chosen, began>>
  PROVE  Rank(h)'
<1>1. \A p \in began[h] : ~Above(p, chosen[h])
  BY Zenon DEF Rank
<1>2. \A p \in began'[h] : ~Above(p, chosen[h])'
  BY <1>1, Zenon DEF Above
<1> QED BY <1>2, Zenon DEF Rank, Passes

(* Every step of every hart keeps what the scans have established. *)
LEMMA NextRank == IInv /\ RankInv /\ [Next]_vars => RankInv'
<1> SUFFICES ASSUME IInv, RankInv, [Next]_vars PROVE RankInv'
  BY Zenon
<1>1. CASE UNCHANGED vars
  <2> SUFFICES ASSUME NEW g \in Harts PROVE Rank(g)'
    BY Zenon DEF RankInv
  <2>1. Rank(g)
    BY Zenon DEF RankInv
  <2> QED BY <1>1, <2>1, RankKept, Zenon DEF vars, hvars, evars, Rank
<1>2. CASE Next
  <2> SUFFICES ASSUME NEW h \in Harts, Step(h), NEW g \in Harts PROVE Rank(g)'
    BY <1>2, Zenon DEF Next, Step, RankInv
  <2>0. /\ Rank(g) /\ hpc[h] \in HartPcs
        /\ (\A p \in began[g] : p \in Procs /\ state[p] = "RUNNABLE" /\ p # proc[h])
        /\ chosen[g] # None => chosen[g] # proc[h]
        /\ chosen[g] \in Procs \cup {None}
    BY NotRunning, Zenon DEF RankInv, Rank, IInv, LockTypes
  <2>t. /\ state \in [Procs -> States] /\ hpc \in [Harts -> HartPcs] /\ idx \in [Harts -> Procs]
        /\ chosen \in [Harts -> Procs \cup {None}]
    BY Zenon DEF IInv, LockTypes
  <2>1. CASE LoopTop(h)
    <3>1. /\ hpc' = [hpc EXCEPT ![h] = "pass1"] /\ began' = [x \in Harts |-> IF x = h THEN Runnable ELSE began[x]]
          /\ UNCHANGED <<state, budget, idx, chosen>> /\ hpc[h] = "loop"
      BY <2>1, Zenon DEF LoopTop, Goto, evars
    <3>2. CASE g # h
      BY <2>0, <2>t, <3>1, <3>2, RankKept, Zenon
    <3>3. CASE g = h
      <4>1. chosen[h] = None /\ idx[h] = 1
        BY <2>0, <3>1, <3>3, Zenon DEF IInv, HartInv, Rank, Passes
      <4>2. hpc'[h] = "pass1"
        BY <2>t, <3>1, Zenon
      <4>3. \A p \in began'[h] : p \in Procs /\ state'[p] = "RUNNABLE" /\ ~(p < 1)
        <5>1. began'[h] = Runnable
          BY <3>1, Zenon
        <5>2. \A p \in Procs : ~(p < 1)
          BY SchedulerAssumption DEF Procs
        <5> QED BY <3>1, <5>1, <5>2, Zenon DEF Runnable
      <4>4. Pass1Inv(h)'
        BY <3>1, <4>1, <4>3, Zenon DEF Pass1Inv, Leads, Seen
      <4> QED BY <3>3, <4>2, <4>3, <4>4, ZenonT(60) DEF Rank, Passes
    <3> QED BY <3>2, <3>3, Zenon
  <2>2. CASE ScanStep(h)
    <3>1. CASE g # h
      BY <2>0, <2>t, <2>2, <3>1, RankKept, Zenon DEF ScanStep, Goto, evars
    <3> QED BY <2>0, <2>2, <3>1, ScanRank, Zenon
  <2>3. CASE TickStep(h)
    <3>1. CASE g # h
      BY <2>0, <2>t, <2>3, <3>1, RankKept, Zenon DEF TickStep, Goto, evars
    <3>2. CASE g = h
      BY <2>0, <2>t, <2>3, <3>2, ChosenRank, Zenon DEF TickStep, Goto, evars
    <3> QED BY <3>1, <3>2, Zenon
  <2>4. CASE ResetTimer(h)
    <3>1. CASE g # h
      BY <2>0, <2>t, <2>4, <3>1, RankKept, Zenon DEF ResetTimer, Goto, evars
    <3>2. CASE g = h
      BY <2>0, <2>t, <2>4, <3>2, ChosenRank, Zenon DEF ResetTimer, Goto, evars, Rank, Passes
    <3> QED BY <3>1, <3>2, Zenon
  <2>5. CASE Arm(h)
    <3>1. CASE g # h
      BY <2>0, <2>t, <2>5, <3>1, RankKept, Zenon DEF Arm, Goto, evars
    <3>2. CASE g = h /\ hpc[h] = "armrun"
      BY <2>0, <2>t, <2>5, <3>2, ChosenRank, Zenon DEF Arm, Goto, evars, Rank, Passes
    <3>3. CASE g = h /\ hpc[h] = "armidle"
      BY <2>0, <2>t, <2>5, <3>3, OwnRank, Zenon DEF Arm, Goto, evars, Rank, Passes, HartPcs
    <3> QED BY <2>5, <3>1, <3>2, <3>3, Zenon DEF Arm
  <2>6. CASE SwitchTo(h)
    <3>0. /\ hpc[h] = "switch" /\ state' = [state EXCEPT ![chosen[h]] = "RUNNING"]
          /\ began'[g] = began[g] \ {chosen[h]} /\ hpc' = [hpc EXCEPT ![h] = "run"]
          /\ chosen' = [chosen EXCEPT ![h] = None] /\ UNCHANGED <<budget, idx>>
      BY <2>6, ZenonT(60) DEF SwitchTo, Goto, evars
    <3>1. \A p \in began'[g] : p \in began[g] /\ state'[p] = "RUNNABLE"
      <4>1. \A p \in began'[g] : p \in Procs /\ p \in began[g] /\ p # chosen[h] /\ state[p] = "RUNNABLE"
        BY <2>0, <3>0, Zenon
      <4>2. \A p \in Procs : p # chosen[h] => state'[p] = state[p]
        BY <2>t, <3>0, Zenon
      <4> QED BY <4>1, <4>2, Zenon
    <3>2. CASE g # h
      BY <2>0, <2>t, <3>0, <3>1, <3>2, RankKept, Zenon
    <3>3. CASE g = h
      BY <2>0, <3>0, <3>1, <3>3, OwnRank, Zenon DEF Rank, Passes, HartPcs, RunPcs
    <3> QED BY <3>2, <3>3, Zenon
  <2>7. CASE Stretch(h)
    <3>1. CASE g # h
      BY <2>0, <2>t, <2>7, <3>1, RankKept, Zenon DEF Stretch, Goto, evars
    <3>2. CASE g = h
      BY <2>0, <2>t, <2>7, <3>2, OwnRank, Zenon DEF Stretch, Goto, evars, Rank, Passes, HartPcs
    <3> QED BY <3>1, <3>2, Zenon
  <2>8. CASE TimerIdle(h)
    <3>0. /\ hpc' = [hpc EXCEPT ![h] = IF hpc[h] = "wfi" THEN "loop" ELSE hpc[h]]
          /\ UNCHANGED <<state, budget, idx, chosen, began>>
      BY <2>8, Zenon DEF TimerIdle, Goto, evars
    <3>1. CASE g # h \/ hpc[h] # "wfi"
      BY <2>0, <2>t, <3>0, <3>1, RankKept, Zenon
    <3>2. CASE g = h /\ hpc[h] = "wfi"
      BY <2>0, <3>0, <3>2, OwnRank, Zenon DEF Rank, Passes, HartPcs
    <3> QED BY <3>1, <3>2, Zenon
  <2>9. CASE TimerRunning(h)
    <3>0. PICK trap \in {"utrap", "ktrap"} : hpc' = [hpc EXCEPT ![h] = trap]
      BY <2>9, Zenon DEF TimerRunning, Goto
    <3>1. /\ hpc[h] = "run" /\ UNCHANGED <<state, idx, chosen, began>>
          /\ budget' = [budget EXCEPT ![proc[h]] = ClockCharge(budget[proc[h]])]
      BY <2>9, Zenon DEF TimerRunning
    <3>2. CASE g # h
      <4>1. ASSUME NEW p, p # proc[h] PROVE budget'[p] = budget[p]
        BY <3>1, <4>1, SMTT(60)
      <4>2. \A p \in began'[g] : state'[p] = "RUNNABLE" /\ budget'[p] = budget[p]
        BY <2>0, <3>1, <4>1, Zenon
      <4>3. chosen[g] # None => budget'[chosen[g]] = budget[chosen[g]]
        BY <2>0, <4>1, Zenon
      <4>4. /\ hpc'[g] = hpc[g] /\ idx'[g] = idx[g] /\ chosen'[g] = chosen[g]
            /\ began'[g] \subseteq began[g]
        BY <2>t, <3>0, <3>1, <3>2, Zenon
      <4> QED BY <2>0, <4>2, <4>3, <4>4, RankKept, Zenon
    <3>3. CASE g = h
      BY <2>0, <3>0, <3>1, <3>3, OwnRank, ZenonT(60) DEF Rank, Passes, HartPcs, RunPcs
    <3> QED BY <3>2, <3>3, Zenon
  <2>10. CASE Yield(h) \/ Sleep(h)
    <3>0. /\ hpc[h] \in RunPcs /\ hpc' = [hpc EXCEPT ![h] = "loop"]
          /\ UNCHANGED <<idx, chosen, began>>
      BY <2>10, Zenon DEF Yield, Sleep, GiveUp, Goto, RunPcs
    <3>a. \E s : state' = [state EXCEPT ![proc[h]] = s]
      BY <2>10, Zenon DEF Yield, Sleep, GiveUp
    <3>b. ASSUME NEW p, p # proc[h] PROVE budget'[p] = budget[p]
      <4>1. CASE UNCHANGED budget
        BY <4>1, Zenon
      <4>2. CASE budget' = [budget EXCEPT ![proc[h]] = UserCharge(budget[proc[h]])]
        BY <3>b, <4>2
      <4> QED BY <2>10, <4>1, <4>2, Zenon DEF Yield, Sleep, evars
    <3>1. \A p \in began[g] : state'[p] = "RUNNABLE" /\ budget'[p] = budget[p]
      BY <2>0, <2>t, <3>a, <3>b, Zenon
    <3>2. chosen[g] # None => budget'[chosen[g]] = budget[chosen[g]]
      BY <2>0, <3>b, Zenon
    <3>3. CASE g # h
      BY <2>0, <2>t, <3>0, <3>1, <3>2, <3>3, RankKept, Zenon
    <3>4. CASE g = h
      BY <2>0, <3>0, <3>1, <3>4, OwnRank, Zenon DEF Rank, Passes, HartPcs, RunPcs
    <3> QED BY <3>3, <3>4, Zenon
  <2>11. CASE \E p \in Procs : Wakeup(h, p)
    <3>0. PICK p \in Procs : Wakeup(h, p)
      BY <2>11, Zenon
    <3>1. /\ hpc' = [hpc EXCEPT ![h] = IF hpc[h] = "wfi" THEN "loop" ELSE hpc[h]]
          /\ state' = [state EXCEPT ![p] = "RUNNABLE"]
          /\ UNCHANGED <<budget, idx, chosen, began>>
      BY <3>0, Zenon DEF Wakeup, Goto, evars
    <3>2. \A q \in began[g] : state'[q] = "RUNNABLE"
      BY <2>0, <2>t, <3>1, Zenon
    <3>3. CASE g # h \/ hpc[h] # "wfi"
      BY <2>0, <2>t, <3>1, <3>2, <3>3, RankKept, Zenon
    <3>4. CASE g = h /\ hpc[h] = "wfi"
      BY <2>0, <3>1, <3>2, <3>4, OwnRank, Zenon DEF Rank, Passes, HartPcs
    <3> QED BY <3>3, <3>4, Zenon
  <2>12. CASE \E p \in Procs : SeeVictim(h, p)
    <3>0. /\ hpc[h] = "run" /\ hpc' = [hpc EXCEPT ![h] = "recover"]
          /\ UNCHANGED <<state, budget, idx, chosen, began>>
      BY <2>12, Zenon DEF SeeVictim, Goto, evars
    <3>1. CASE g # h
      BY <2>0, <2>t, <3>0, <3>1, RankKept, Zenon
    <3>2. CASE g = h
      BY <2>0, <3>0, <3>2, OwnRank, Zenon DEF Rank, Passes, HartPcs, RunPcs
    <3> QED BY <3>1, <3>2, Zenon
  <2>13. CASE StoreVictim(h)
    <3>0. /\ hpc[h] = "recover" /\ hpc' = [hpc EXCEPT ![h] = "run"]
          /\ state' = [state EXCEPT ![victim[h]] = "RUNNABLE"]
          /\ UNCHANGED <<budget, idx, chosen, began>>
      BY <2>13, Zenon DEF StoreVictim, Goto, evars
    <3>1. \A q \in began[g] : state'[q] = "RUNNABLE"
      BY <2>0, <2>t, <3>0, Zenon
    <3>2. CASE g # h
      BY <2>0, <2>t, <3>0, <3>1, <3>2, RankKept, Zenon
    <3>3. CASE g = h
      BY <2>0, <3>0, <3>1, <3>3, OwnRank, Zenon DEF Rank, Passes, HartPcs, RunPcs
    <3> QED BY <3>2, <3>3, Zenon
  <2> QED
    BY <2>1, <2>2, <2>3, <2>4, <2>5, <2>6, <2>7, <2>8, <2>9, <2>10, <2>11, <2>12, <2>13, Zenon
    DEF Step, SchedulerStep, Timer
<1> QED BY <1>1, <1>2, Zenon

(* Whatever the number of processes and harts, and however wakeups, the       *)
(* recovery and other harts move under its scan, a hart switches to a process *)
(* that nobody who was RUNNABLE during the whole scan ranks above, until the  *)
(* recovery's unlocked store hits a RUNNING process.                          *)
THEOREM ChoiceIsBest == Spec => []BestChosen
<1>1. RankInv => BestChosen
  BY Zenon DEF RankInv, Rank, BestChosen
<1>2. torn => BestChosen
  BY Zenon DEF BestChosen
<1> QED BY IInvInvariant, InitRank, NextRank, TornStays, <1>1, <1>2, PTL DEF Spec

-----------------------------------------------------------------------------
(* A charge of one unit, by either handler, takes from the budget what it     *)
(* adds to the consumption.                                                   *)
LEMMA ChargesAgree ==
  ASSUME ENERGY_PER_TICK = 1, NEW c \in 0..DEFAULT_ENERGY_BUDGET,
         NEW b \in UInt64, b = DEFAULT_ENERGY_BUDGET - c
  PROVE  /\ ClockCharge(b) = DEFAULT_ENERGY_BUDGET - Spend(c)
         /\ UserCharge(b) = DEFAULT_ENERGY_BUDGET - Spend(c)
  BY EnergyAssumption DEF UInt64, ClockCharge, UserCharge, Spend, Wrap

(* With the kernel's ENERGY_PER_TICK of 1, for any number of processes and    *)
(* harts and any default budget, the passes rank by what is really left: no   *)
(* order of ticks in user and in kernel mode wraps a budget.                  *)
THEOREM RankedByRemainder == ENERGY_PER_TICK = 1 => (Spec => []BudgetIsRemainder)
<1> SUFFICES ASSUME ENERGY_PER_TICK = 1 PROVE Spec => []BudgetIsRemainder
  BY Zenon
<1> DEFINE Exact == \A p \in Procs : budget[p] = DEFAULT_ENERGY_BUDGET - consumed[p]
<1>1. Init => DataTypes /\ Exact
  <2> SUFFICES ASSUME Init PROVE DataTypes /\ Exact
    BY Zenon
  <2>1. /\ DEFAULT_ENERGY_BUDGET \in UInt64 /\ 0 \in 0..DEFAULT_ENERGY_BUDGET
        /\ DEFAULT_ENERGY_BUDGET = DEFAULT_ENERGY_BUDGET - 0
    BY EnergyAssumption DEF UInt64
  <2> QED  BY <2>1, Zenon DEF Init, DataTypes
<1>2. IInv /\ DataTypes /\ Exact /\ [Next]_vars => DataTypes' /\ Exact'
  <2> SUFFICES ASSUME IInv, DataTypes, Exact, [Next]_vars PROVE DataTypes' /\ Exact'
    BY Zenon
  <2>1. CASE UNCHANGED vars
    BY <2>1, Zenon DEF vars, hvars, tvars, evars, rvars, DataTypes
  <2>2. CASE Next
    <3>1. PICK h \in Harts : Step(h)
      BY <2>2, Zenon DEF Next, Step
    <3>2. DataTypes'
      BY <3>1, NextDataTypes, Zenon
    <3>3. Exact'
      <4>1. CASE UNCHANGED evars
        BY <4>1, Zenon DEF evars
      <4>2. CASE TimerRunning(h) \/ (Yield(h) /\ hpc[h] = "utrap")
        <5> DEFINE q == proc[h]
        <5>1. q \in Procs
          BY <4>2, Zenon DEF TimerRunning, IInv, LockTypes, HartInv, RunPcs
        <5>2. /\ budget[q] \in UInt64 /\ consumed[q] \in 0..DEFAULT_ENERGY_BUDGET
              /\ budget[q] = DEFAULT_ENERGY_BUDGET - consumed[q]
          BY <5>1, Zenon DEF DataTypes
        <5>3. /\ ClockCharge(budget[q]) = DEFAULT_ENERGY_BUDGET - Spend(consumed[q])
              /\ UserCharge(budget[q]) = DEFAULT_ENERGY_BUDGET - Spend(consumed[q])
          BY <5>2, ChargesAgree, Zenon
        <5>4. /\ \/ budget' = [budget EXCEPT ![q] = ClockCharge(budget[q])]
                 \/ budget' = [budget EXCEPT ![q] = UserCharge(budget[q])]
              /\ consumed' = [consumed EXCEPT ![q] = Spend(consumed[q])]
          BY <4>2, Zenon DEF TimerRunning, Yield
        <5>5. budget \in [Procs -> UInt64] /\ consumed \in [Procs -> 0..DEFAULT_ENERGY_BUDGET]
          BY Zenon DEF DataTypes
        <5> HIDE DEF q
        <5> QED BY <5>3, <5>4, <5>5, Zenon
      <4>3. Yield(h) => hpc[h] = "utrap" \/ UNCHANGED evars
        BY Zenon DEF Yield
      <4>4. TimerRunning(h) \/ Yield(h) \/ UNCHANGED evars
        BY <3>1, OnlyTicksCharge, Zenon
      <4> QED BY <4>1, <4>2, <4>3, <4>4, Zenon
    <3> QED BY <3>2, <3>3, Zenon
  <2> QED BY <2>1, <2>2, Zenon
<1>3. Exact \/ torn => BudgetIsRemainder
  BY Zenon DEF BudgetIsRemainder
<1> HIDE DEF Exact
<1> QED BY <1>1, <1>2, <1>3, IInvInvariant, TornStays, PTL DEF Spec
=============================================================================
