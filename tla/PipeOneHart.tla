----------------------------- MODULE PipeOneHart -----------------------------
(* The pipe on the one hart of the default build, under scheduler()'s third   *)
(* pass: at a timer interrupt, and when the running process pauses or is      *)
(* gone, the hart goes to the first slot that is RUNNABLE.                    *)
EXTENDS Pipe

VARIABLES asleep,    \* the processes in pause()
          on         \* the process on the hart, as a set

hvars == <<asleep, on>>

Awake == {p \in Procs : ~asleep[p] /\ pc[p] # "gone"}
First(S) == {p \in S : \A q \in S : p <= q}

HInit == Init /\ asleep = [p \in Procs |-> FALSE] /\ on = First(Procs)

Pause(p) ==
  /\ ~panicked /\ p \in on /\ pc[p] = "idle"
  /\ asleep' = [asleep EXCEPT ![p] = TRUE]
  /\ on' = First(Awake \ {p})
  /\ UNCHANGED vars

EndPause(p) ==
  /\ ~panicked /\ asleep[p]
  /\ asleep' = [asleep EXCEPT ![p] = FALSE]
  /\ UNCHANGED <<vars, on>>

Tick ==
  /\ ~panicked
  /\ on' = First(Awake)
  /\ UNCHANGED <<vars, asleep>>

RunStep(p) == p \in on /\ PipeStep(p) /\ UNCHANGED hvars

HNext ==
  \/ \E p \in Procs : \/ RunStep(p) \/ Pause(p) \/ EndPause(p)
                      \/ p \in on /\ (Transfer(p) \/ CloseFd(p)) /\ UNCHANGED hvars
                      \/ Kill(p) /\ UNCHANGED hvars
  \/ Tick

(* The process on the hart goes on, pauses end, the timer keeps ticking. *)
HSpec ==
  /\ HInit /\ [][HNext]_<<vars, hvars>>
  /\ \A p \in Procs : /\ WF_<<vars, hvars>>(RunStep(p))
                      /\ WF_<<vars, hvars>>(EndPause(p))
  /\ WF_<<vars, hvars>>(Tick)
=============================================================================
