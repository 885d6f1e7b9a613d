----------------------------- MODULE AtomicDisk -----------------------------
(* What the log promises the file system: the blocks change in memory, become *)
(* durable all at once, only when no file-system call is in progress, and a   *)
(* crash goes back to what was durable.                                       *)
CONSTANTS Procs, Blocks, Values

VARIABLES mem,      \* the blocks as the file system sees them
          stable,   \* the blocks as they would be found after a crash
          open      \* the processes between begin_op() and end_op()

Init ==
  /\ mem \in [Blocks -> Values]
  /\ stable = mem
  /\ open = {}

Begin(p) == open' = open \cup {p} /\ UNCHANGED <<mem, stable>>

Write(p) ==
  /\ p \in open
  /\ \E b \in Blocks, v \in Values : mem' = [mem EXCEPT ![b] = v]
  /\ UNCHANGED <<stable, open>>

End(p) == open' = open \ {p} /\ UNCHANGED <<mem, stable>>

Commit ==
  /\ open = {}
  /\ stable' = mem
  /\ UNCHANGED <<mem, open>>

Crash == mem' = stable /\ open' = {} /\ UNCHANGED stable

Next == (\E p \in Procs : Begin(p) \/ Write(p) \/ End(p)) \/ Commit \/ Crash

Spec == Init /\ [][Next]_<<mem, stable, open>>
=============================================================================
