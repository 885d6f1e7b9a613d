-------------------------------- MODULE Pipe --------------------------------
(* pipe.c: one pipe, its ring buffer guarded by Peterson's algorithm, and the *)
(* processes that hold its two ends.  A step is one access to shared memory   *)
(* or a stretch of code without one.                                          *)
(*                                                                            *)
(* wakeup() never finds a sleeper: sleep(chan, 0) calls release(0), whose     *)
(* holding(0) loads from address 0, which the kernel page table does not map; *)
(* kerneltrap() panics.                                                       *)
EXTENDS Integers, FiniteSets

CONSTANTS Writers, Readers,   \* the slots of the processes holding each end
          Bytes, PIPESIZE, N, \* N: the bytes of one read() or write()
          UINT,               \* 2^32 in the kernel: nread and nwrite wrap
          StoresReorder       \* may the two stores before the fence be swapped?

Procs == Writers \cup Readers

ASSUME PipeAssumption ==
  /\ Writers \subseteq Nat /\ Readers \subseteq Nat /\ Writers \cap Readers = {}
  /\ PIPESIZE \in Nat \ {0} /\ N \in Nat
  /\ UINT \in Nat /\ UINT > PIPESIZE /\ UINT % PIPESIZE = 0
  /\ StoresReorder \in BOOLEAN

VARIABLES
  flag, turn,               \* Peterson's variables
  data, nread, nwrite, readopen, writeopen,
  freed,                    \* kfree((char*)pi) was called
  pc, call, pend, i, t, ch, \* of each process: program counter, operation, stores
                            \* not yet visible, loop index, loaded nwrite and byte
  hasfd, killed,
  last,                     \* the byte copied out last
  panicked

ring == <<data, nread, nwrite>>
opens == <<readopen, writeopen, freed>>
locals == <<i, t, ch>>
env == <<hasfd, killed, panicked>>
vars == <<flag, turn, ring, opens, pc, call, pend, locals, last, env>>

(* id = 0 for a writer, 1 for a reader. *)
Id(p) == IF p \in Writers THEN 0 ELSE 1
Other(p) == 1 - Id(p)

(* pipealloc() *)
Init ==
  /\ flag = [d \in {0, 1} |-> 0] /\ turn = 0
  /\ data \in [0..PIPESIZE-1 -> Bytes] /\ nread = 0 /\ nwrite = 0
  /\ readopen = TRUE /\ writeopen = TRUE /\ freed = FALSE
  /\ pc = [p \in Procs |-> "idle"]
  /\ call = [p \in Procs |-> "none"]
  /\ pend = [p \in Procs |-> {}]
  /\ i = [p \in Procs |-> 0] /\ t = [p \in Procs |-> 0]
  /\ last \in Bytes /\ ch = [p \in Procs |-> last]
  /\ hasfd = [p \in Procs |-> TRUE] /\ killed = [p \in Procs |-> FALSE]
  /\ panicked = FALSE

Goto(p, l) == pc' = [pc EXCEPT ![p] = l]

-----------------------------------------------------------------------------
(* peterson_acquire *)
Acquire(p, op) ==
  /\ call' = [call EXCEPT ![p] = op]
  /\ pend' = [pend EXCEPT ![p] = {"flag", "turn"}]
  /\ i' = [i EXCEPT ![p] = 0]
  /\ Goto(p, "acq")

(* A read() or write() of N bytes. *)
Transfer(p) ==
  /\ ~panicked /\ pc[p] = "idle" /\ hasfd[p] /\ ~killed[p]
  /\ Acquire(p, IF p \in Writers THEN "write" ELSE "read")
  /\ UNCHANGED <<flag, turn, ring, opens, t, ch, last, env>>

(* close(), or kexit(): fileclose() calls pipeclose() for the last reference. *)
CloseFd(p) ==
  /\ ~panicked /\ pc[p] = "idle" /\ hasfd[p]
  /\ hasfd' = [hasfd EXCEPT ![p] = FALSE]
  /\ IF \E q \in Procs \ {p} : Id(q) = Id(p) /\ hasfd[q]
     THEN Goto(p, "gone") /\ UNCHANGED <<call, pend, i>>
     ELSE Acquire(p, "close")
  /\ UNCHANGED <<flag, turn, ring, opens, t, ch, last, killed, panicked>>

(* Mutant: a process gives itself the turn. *)
StoreOwnTurn(p) ==
  /\ ~panicked /\ pc[p] = "acq"
  /\ \E s \in pend[p] :
       /\ s = "turn" /\ ~StoresReorder => "flag" \notin pend[p]
       /\ flag' = IF s = "flag" THEN [flag EXCEPT ![Id(p)] = 1] ELSE flag
       /\ turn' = IF s = "turn" THEN Id(p) ELSE turn
       /\ pend' = [pend EXCEPT ![p] = @ \ {s}]
       /\ Goto(p, IF pend[p] = {s} THEN "spinflag" ELSE "acq")
  /\ UNCHANGED <<ring, opens, call, locals, last, env>>

(* The two stores become visible, in program order or, where the memory model *)
(* allows it (RVWMO does), in either order; the fence waits for both.         *)
Store(p) ==
  /\ ~panicked /\ pc[p] = "acq"
  /\ \E s \in pend[p] :
       /\ s = "turn" /\ ~StoresReorder => "flag" \notin pend[p]
       /\ flag' = IF s = "flag" THEN [flag EXCEPT ![Id(p)] = 1] ELSE flag
       /\ turn' = IF s = "turn" THEN Other(p) ELSE turn
       /\ pend' = [pend EXCEPT ![p] = @ \ {s}]
       /\ Goto(p, IF pend[p] = {s} THEN "spinflag" ELSE "acq")
  /\ UNCHANGED <<ring, opens, call, locals, last, env>>

(* Mutant: the loop waits while it is this process's own turn. *)
SpinOwnTurn(p) ==
  /\ ~panicked /\ pc[p] \in {"spinflag", "spinturn"}
  /\ Goto(p, IF pc[p] = "spinflag"
             THEN IF flag[Other(p)] = 1 THEN "spinturn" ELSE "body"
             ELSE IF turn = Id(p) THEN "spinflag" ELSE "body")
  /\ UNCHANGED <<flag, turn, ring, opens, call, pend, locals, last, env>>

(* while(flag[other] == 1 && turn == other), one load at a time. *)
Spin(p) ==
  /\ ~panicked /\ pc[p] \in {"spinflag", "spinturn"}
  /\ Goto(p, IF pc[p] = "spinflag"
             THEN IF flag[Other(p)] = 1 THEN "spinturn" ELSE "body"
             ELSE IF turn = Other(p) THEN "spinflag" ELSE "body")
  /\ UNCHANGED <<flag, turn, ring, opens, call, pend, locals, last, env>>

(* peterson_release, and what follows it. *)
Release(p) ==
  /\ ~panicked /\ pc[p] \in {"rel", "relsleep", "relfree"}
  /\ flag' = [flag EXCEPT ![Id(p)] = 0]
  /\ Goto(p, CASE pc[p] = "rel"      -> IF call[p] = "close" THEN "gone" ELSE "idle"
               [] pc[p] = "relsleep" -> "sleep"
               [] pc[p] = "relfree"  -> "free")
  /\ UNCHANGED <<turn, ring, opens, call, pend, locals, last, env>>

(* sleep(&pi->nread, 0) or sleep(&pi->nwrite, 0): release(0). *)
Sleep(p) ==
  /\ ~panicked /\ pc[p] = "sleep"
  /\ panicked' = TRUE
  /\ UNCHANGED <<flag, turn, ring, opens, pc, call, pend, locals, last, hasfd, killed>>

-----------------------------------------------------------------------------
Full == nwrite = (nread + PIPESIZE) % UINT

(* pipewrite(): one round of the loop up to copyin(), which may fail. *)
WriteLoop(p) ==
  /\ ~panicked /\ pc[p] = "body" /\ call[p] = "write"
  /\ \/ /\ i[p] >= N \/ ~readopen \/ killed[p]
        /\ Goto(p, "rel") /\ UNCHANGED t
     \/ /\ ~(i[p] >= N \/ ~readopen \/ killed[p])
        /\ IF Full
           THEN Goto(p, "relsleep") /\ UNCHANGED t
           ELSE \/ Goto(p, "rel") /\ UNCHANGED t
                \/ Goto(p, "store") /\ t' = [t EXCEPT ![p] = nwrite]
  /\ UNCHANGED <<flag, turn, ring, opens, call, pend, i, ch, last, env>>

(* data[nwrite++ % PIPESIZE] = ch, with the nwrite that was loaded. *)
StoreByte(p) ==
  /\ ~panicked /\ pc[p] = "store"
  /\ \E b \in Bytes : data' = [data EXCEPT ![t[p] % PIPESIZE] = b]
  /\ nwrite' = (t[p] + 1) % UINT
  /\ i' = [i EXCEPT ![p] = @ + 1]
  /\ Goto(p, "body")
  /\ UNCHANGED <<flag, turn, nread, opens, call, pend, t, ch, last, env>>

(* piperead(): while(nread == nwrite && writeopen). *)
ReadWait(p) ==
  /\ ~panicked /\ pc[p] = "body" /\ call[p] = "read"
  /\ Goto(p, IF nread = nwrite /\ writeopen
             THEN IF killed[p] THEN "rel" ELSE "relsleep"
             ELSE "copy")
  /\ UNCHANGED <<flag, turn, ring, opens, call, pend, locals, last, env>>

(* The copying loop: the byte is loaded, then copied out and counted. *)
LoadByte(p) ==
  /\ ~panicked /\ pc[p] = "copy"
  /\ IF i[p] >= N \/ nread = nwrite
     THEN Goto(p, "rel") /\ UNCHANGED ch
     ELSE Goto(p, "copyout") /\ ch' = [ch EXCEPT ![p] = data[nread % PIPESIZE]]
  /\ UNCHANGED <<flag, turn, ring, opens, call, pend, i, t, last, env>>

(* Mutant: nread counts a byte that copyout() could not deliver. *)
CopyOutCounts(p) ==
  /\ ~panicked /\ pc[p] = "copyout"
  /\ \/ Goto(p, "rel") /\ UNCHANGED <<i, last>>
     \/ Goto(p, "copy") /\ last' = ch[p] /\ i' = [i EXCEPT ![p] = @ + 1]
  /\ nread' = (nread + 1) % UINT
  /\ UNCHANGED <<flag, turn, data, nwrite, opens, call, pend, t, ch, env>>

CopyOut(p) ==
  /\ ~panicked /\ pc[p] = "copyout"
  /\ \/ Goto(p, "rel") /\ UNCHANGED <<nread, i, last>>
     \/ /\ Goto(p, "copy") /\ last' = ch[p]
        /\ nread' = (nread + 1) % UINT
        /\ i' = [i EXCEPT ![p] = @ + 1]
  /\ UNCHANGED <<flag, turn, data, nwrite, opens, call, pend, t, ch, env>>

(* Mutant: whoever closes frees the pipe. *)
CloseEndFrees(p) ==
  /\ ~panicked /\ pc[p] = "body" /\ call[p] = "close"
  /\ writeopen' = (writeopen /\ p \notin Writers)
  /\ readopen' = (readopen /\ p \in Writers)
  /\ Goto(p, "relfree")
  /\ UNCHANGED <<flag, turn, ring, freed, call, pend, locals, last, env>>

(* pipeclose() *)
CloseEnd(p) ==
  /\ ~panicked /\ pc[p] = "body" /\ call[p] = "close"
  /\ writeopen' = (writeopen /\ p \notin Writers)
  /\ readopen' = (readopen /\ p \in Writers)
  /\ Goto(p, IF ~readopen' /\ ~writeopen' THEN "relfree" ELSE "rel")
  /\ UNCHANGED <<flag, turn, ring, freed, call, pend, locals, last, env>>

Free(p) ==
  /\ ~panicked /\ pc[p] = "free"
  /\ freed' = TRUE
  /\ Goto(p, "gone")
  /\ UNCHANGED <<flag, turn, ring, readopen, writeopen, call, pend, locals, last, env>>

-----------------------------------------------------------------------------
Kill(p) ==
  /\ ~panicked /\ ~killed[p]
  /\ killed' = [killed EXCEPT ![p] = TRUE]
  /\ UNCHANGED <<flag, turn, ring, opens, pc, call, pend, locals, last, hasfd, panicked>>

PipeStep(p) ==
  \/ Store(p) \/ Spin(p) \/ Release(p) \/ Sleep(p)
  \/ WriteLoop(p) \/ StoreByte(p) \/ ReadWait(p) \/ LoadByte(p) \/ CopyOut(p)
  \/ CloseEnd(p) \/ Free(p)

Next == \E p \in Procs : Transfer(p) \/ CloseFd(p) \/ PipeStep(p) \/ Kill(p)

Spec == Init /\ [][Next]_vars

-----------------------------------------------------------------------------
Critical == {"body", "store", "copy", "copyout", "rel", "relsleep", "relfree"}
Pcs == Critical \cup {"idle", "acq", "spinflag", "spinturn", "sleep", "free", "gone"}

TypeOK ==
  /\ flag \in [{0, 1} -> {0, 1}] /\ turn \in {0, 1}
  /\ data \in [0..PIPESIZE-1 -> Bytes]
  /\ nread \in 0..UINT-1 /\ nwrite \in 0..UINT-1
  /\ readopen \in BOOLEAN /\ writeopen \in BOOLEAN /\ freed \in BOOLEAN
  /\ pc \in [Procs -> Pcs]
  /\ call \in [Procs -> {"none", "read", "write", "close"}]
  /\ pend \in [Procs -> SUBSET {"flag", "turn"}]
  /\ i \in [Procs -> 0..N] /\ t \in [Procs -> 0..UINT-1] /\ ch \in [Procs -> Bytes]
  /\ hasfd \in [Procs -> BOOLEAN] /\ killed \in [Procs -> BOOLEAN]
  /\ last \in Bytes /\ panicked \in BOOLEAN

(* Peterson's lock: at most one process is between peterson_acquire() and     *)
(* peterson_release().                                                        *)
Mutex == \A p, q \in Procs : pc[p] \in Critical /\ pc[q] \in Critical => p = q

(* kfree() comes last: nobody is still using the pipe, not even spinning on   *)
(* its flags.                                                                 *)
NoUseAfterFree == TypeOK /\ (freed => \A p \in Procs : pc[p] = "gone")

(* The ring behaves as a bounded FIFO queue, across the wrap-around of the    *)
(* 32-bit counters, failed copies, kills and closes.                          *)
Contents == [k \in 1..(nwrite - nread) % UINT |-> data[(nread + k - 1) % PIPESIZE]]
Fifo == INSTANCE PipeFifo WITH queue <- Contents, last <- last, Size <- PIPESIZE
ImplementsFifo == Fifo!Spec

(* pipe.c: "But I give the other process a chance first": a process that      *)
(* comes to the lock while p waits in its loop has given p the turn, and does *)
(* not get past its own loop before p, whatever the harts do: it overtakes a  *)
(* waiting process at most once.                                              *)
NoOvertaking ==
  [][\A p, q \in Procs :
       /\ pc[p] \in {"spinflag", "spinturn"} /\ turn = Id(p) /\ Id(q) # Id(p)
       /\ pc[q] \notin Critical
       => pc'[q] \notin Critical]_vars

(* The same comment: a process that wants the lock gets it.                   *)
AcquireEnds ==
  \A p \in Procs : pc[p] \in {"acq", "spinflag", "spinturn"} ~> pc[p] = "body" \/ panicked

(* pipe.c: "Sleep on nread - the writer will wake us when it writes" and      *)
(* "Sleep on nwrite - the reader will wake us when it reads".                 *)
SleepWorks == ~panicked
=============================================================================
