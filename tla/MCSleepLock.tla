----------------------------- MODULE MCSleepLock -----------------------------
(* Instances of SleepLock for TLC. *)
EXTENDS SleepLock

(* The program user/deadlock_demo.c: process 1 takes demo lock 1, then 2;     *)
(* process 2 takes demo lock 2, then 1.  Processes from 3 on are others, for  *)
(* instance a user/kill.c; they leave the demo locks alone.                   *)
DemoStep ==
  \A p \in Procs : pc[p] = "user" /\ pc'[p] # "user" =>
    \/ pc'[p] = "acq" /\ p \in {1, 2} /\ arg'[p] = IF Holds(p, p) THEN 3 - p ELSE p
    \/ pc'[p] = "dead" /\ killed[p]

DemoSpec == Init /\ [][Next /\ DemoStep]_vars

DemoFairSpec == DemoSpec /\ Fairness

(* Both system calls, kills and exits of two processes, from the first use of *)
(* the locks on.  Nothing is claimed of a lock that was in use when it was    *)
(* initialised again, so such a run is not followed any further.              *)
FirstUseNext == ~again /\ Next

(* The fairness that the first lock's progress needs, of the one that         *)
(* SleepLock gives the reasons for.                                           *)
ProcStep(p) ==
  KernelStep(p) \/ DrainStore(p) \/ \E c \in CPUs : Dispatch(c, p)

FirstUseFairSpec ==
  /\ Init /\ [][FirstUseNext]_vars
  /\ \A p \in Procs : WF_vars(ProcStep(p))
  /\ SF_vars(\E p \in Procs : arg[p] = 1 /\ AcquireSpin(p))
=============================================================================
