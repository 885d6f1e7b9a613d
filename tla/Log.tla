--------------------------------- MODULE Log ---------------------------------
(* log.c over the buffer cache and the disk: concurrent file-system calls,    *)
(* group commit, and crashes at any point, in recovery too.                   *)
(*                                                                            *)
(* A critical section of log.lock is one step.  A block on its way to the     *)
(* disk is torn until the write completes; the header is one sector and is    *)
(* written atomically.                                                        *)
EXTENDS Integers, FiniteSets, TLC

CONSTANTS Procs, Blocks, Values,
          Torn,            \* what a crash leaves of a block being written
          LOGBLOCKS, MAXOPBLOCKS,
          OpBlocks         \* the most blocks a call really writes

None == 0

ASSUME LogAssumption ==
  /\ IsFiniteSet(Procs)
  /\ Torn \notin Values
  /\ None \notin Blocks
  /\ LOGBLOCKS \in Nat /\ MAXOPBLOCKS \in Nat /\ OpBlocks \in Nat
  /\ OpBlocks < MAXOPBLOCKS /\ MAXOPBLOCKS <= LOGBLOCKS

Slots == 1..LOGBLOCKS

VARIABLES
  home, logblk, hn, hblock, \* on disk: the blocks, the log, the log header
  cache, pins,              \* the cached contents, the blocks pinned by bpin()
  lhn, lhblock,             \* log.lh
  outstanding, committing,  \* log.outstanding, log.committing
  pc, buf, wrote,           \* of each process: where it is, the buffer it has
                            \* locked, the blocks its call has logged
  phase, tail, writing,     \* commit() or recover_from_log(): where it is, its loop
                            \* index, whether a block is on its way to the disk
  panicked

disk == <<home, logblk, hn, hblock>>
lh == <<lhn, lhblock>>
calls == <<outstanding, committing, pc, buf, wrote>>
progress == <<phase, tail, writing>>
vars == <<disk, cache, pins, lh, calls, progress, panicked>>

Logged == {lhblock[i] : i \in 1..lhn}

(* The disk as recover_from_log() would leave it. *)
Recovered ==
  [b \in Blocks |-> IF \E i \in 1..hn : hblock[i] = b
                    THEN logblk[CHOOSE i \in 1..hn : hblock[i] = b]
                    ELSE home[b]]

(* The calls between begin_op() and end_op(). *)
Open == {p \in Procs : pc[p] \in {"op", "mod"}}

Recovering == phase \in {"rhead", "rinstall", "rerase"}

(* The blocks as the file system sees them, once it is back. *)
Seen == IF Recovering THEN Recovered ELSE cache

(* After initlog() on a clean disk. *)
Init ==
  /\ home \in [Blocks -> Values]
  /\ logblk = [i \in Slots |-> Torn]
  /\ hn = 0 /\ hblock = [i \in Slots |-> None]
  /\ cache = home /\ pins = {}
  /\ lhn = 0 /\ lhblock = [i \in Slots |-> None]
  /\ outstanding = 0 /\ committing = FALSE
  /\ pc = [p \in Procs |-> "idle"]
  /\ buf = [p \in Procs |-> None]
  /\ wrote = [p \in Procs |-> {}]
  /\ phase = "none" /\ tail = 1 /\ writing = FALSE
  /\ panicked = FALSE

Up == ~Recovering /\ ~panicked

(* wakeup(&log) *)
Wake(f) == [p \in Procs |-> IF f[p] = "sleep" THEN "begin" ELSE f[p]]

-----------------------------------------------------------------------------
(* Mutant: begin_op() counts the calls in progress but not its own. *)
NoRoomForSelf == lhn + outstanding * MAXOPBLOCKS > LOGBLOCKS

NoRoom == lhn + (outstanding + 1) * MAXOPBLOCKS > LOGBLOCKS

(* begin_op(): one round of its loop. *)
BeginOp(p) ==
  /\ Up /\ pc[p] \in {"idle", "begin"}
  /\ IF committing \/ NoRoom
     THEN pc' = [pc EXCEPT ![p] = "sleep"] /\ UNCHANGED <<outstanding, wrote>>
     ELSE /\ outstanding' = outstanding + 1
          /\ pc' = [pc EXCEPT ![p] = "op"]
          /\ wrote' = [wrote EXCEPT ![p] = {}]
  /\ UNCHANGED <<disk, cache, pins, lh, committing, buf, progress, panicked>>

(* The call bread()s a block, whose sleeplock it now holds, and modifies it. *)
Modify(p) ==
  /\ Up /\ pc[p] = "op"
  /\ \E b \in Blocks, v \in Values :
       /\ \A q \in Procs : buf[q] # b
       /\ b \in wrote[p] \/ Cardinality(wrote[p]) < OpBlocks
       /\ cache' = [cache EXCEPT ![b] = v]
       /\ buf' = [buf EXCEPT ![p] = b]
  /\ pc' = [pc EXCEPT ![p] = "mod"]
  /\ UNCHANGED <<disk, pins, lh, outstanding, committing, wrote, progress, panicked>>

(* log_write(), with absorption, and brelse(). *)
LogWrite(p) ==
  LET b == buf[p]
  IN /\ Up /\ pc[p] = "mod"
     /\ panicked' = (lhn >= LOGBLOCKS \/ outstanding < 1)
     /\ IF b \in Logged \/ lhn >= LOGBLOCKS \/ outstanding < 1
        THEN UNCHANGED <<lh, pins>>
        ELSE /\ lhblock' = [lhblock EXCEPT ![lhn + 1] = b]
             /\ lhn' = lhn + 1
             /\ pins' = pins \cup {b}
     /\ pc' = [pc EXCEPT ![p] = "op"]
     /\ buf' = [buf EXCEPT ![p] = None]
     /\ wrote' = [wrote EXCEPT ![p] = @ \cup {b}]
     /\ UNCHANGED <<disk, cache, outstanding, committing, progress>>

(* Mutant: only the end of a commit wakes the calls that wait for room. *)
EndOpNoWakeup(p) ==
  /\ Up /\ pc[p] = "op"
  /\ outstanding' = outstanding - 1
  /\ panicked' = committing
  /\ IF outstanding = 1
     THEN /\ committing' = TRUE
          /\ pc' = [pc EXCEPT ![p] = "commit"]
          /\ phase' = (IF lhn > 0 THEN "wlog" ELSE "done")
     ELSE pc' = [pc EXCEPT ![p] = "idle"] /\ UNCHANGED <<committing, phase>>
  /\ wrote' = [wrote EXCEPT ![p] = {}]
  /\ UNCHANGED <<disk, cache, pins, lh, buf, tail, writing>>

(* end_op(): the last call in progress starts the commit. *)
EndOp(p) ==
  /\ Up /\ pc[p] = "op"
  /\ outstanding' = outstanding - 1
  /\ panicked' = committing
  /\ IF outstanding = 1
     THEN /\ committing' = TRUE
          /\ pc' = [pc EXCEPT ![p] = "commit"]
          /\ phase' = (IF lhn > 0 THEN "wlog" ELSE "done")
     ELSE /\ pc' = Wake([pc EXCEPT ![p] = "idle"])
          /\ UNCHANGED <<committing, phase>>
  /\ wrote' = [wrote EXCEPT ![p] = {}]
  /\ UNCHANGED <<disk, cache, pins, lh, buf, tail, writing>>

-----------------------------------------------------------------------------
(* A block's write takes two steps, torn and complete; then the loop goes on. *)
Advance(next) ==
  /\ writing' = ~writing
  /\ IF writing /\ tail = lhn
     THEN phase' = next /\ tail' = 1
     ELSE phase' = phase /\ tail' = (IF writing THEN tail + 1 ELSE tail)

(* write_log(): cache to log, block by block. *)
WriteLog ==
  /\ Up /\ phase = "wlog"
  /\ logblk' = [logblk EXCEPT ![tail] = IF writing THEN cache[lhblock[tail]] ELSE Torn]
  /\ Advance("whead")
  /\ UNCHANGED <<home, hn, hblock, cache, pins, lh, calls, panicked>>

(* write_head() *)
PutHead(n) ==
  /\ hn' = n
  /\ hblock' = [i \in Slots |-> IF i <= n THEN lhblock[i] ELSE hblock[i]]

(* Mutant: the commit skips write_head() and installs at once. *)
WriteHeadSkipped ==
  /\ Up /\ phase = "whead"
  /\ phase' = "install"
  /\ UNCHANGED <<disk, cache, pins, lh, calls, tail, writing, panicked>>

(* The real commit. *)
WriteHead ==
  /\ Up /\ phase = "whead"
  /\ PutHead(lhn)
  /\ phase' = "install"
  /\ UNCHANGED <<home, logblk, cache, pins, lh, calls, tail, writing, panicked>>

(* install_trans(0) and install_trans(1): log to home, block by block. *)
InstallTrans ==
  LET b == lhblock[tail]
      v == logblk[tail]
  IN /\ ~panicked /\ phase \in {"install", "rinstall"} /\ tail <= lhn
     /\ home' = [home EXCEPT ![b] = IF writing THEN v ELSE Torn]
     /\ cache' = [cache EXCEPT ![b] = v]
     /\ pins' = IF writing /\ phase = "install" THEN pins \ {b} ELSE pins
     /\ Advance(IF phase = "install" THEN "erase" ELSE "rerase")
     /\ UNCHANGED <<logblk, hn, hblock, lh, calls, panicked>>

(* log.lh.n = 0 and write_head(). *)
Erase ==
  /\ Up /\ phase = "erase"
  /\ lhn' = 0 /\ PutHead(0)
  /\ phase' = "done"
  /\ UNCHANGED <<home, logblk, cache, pins, lhblock, calls, tail, writing, panicked>>

(* The rest of end_op(). *)
CommitDone(p) ==
  /\ Up /\ phase = "done" /\ pc[p] = "commit"
  /\ committing' = FALSE
  /\ pc' = Wake([pc EXCEPT ![p] = "idle"])
  /\ phase' = "none"
  /\ UNCHANGED <<disk, cache, pins, lh, outstanding, buf, wrote, tail, writing, panicked>>

(* The cache recycles a buffer that nobody holds or pins; the next bread()    *)
(* finds what is on disk.                                                     *)
Evict(b) ==
  /\ Up /\ b \notin pins /\ \A p \in Procs : buf[p] # b
  /\ cache' = [cache EXCEPT ![b] = home[b]]
  /\ UNCHANGED <<disk, pins, lh, calls, progress, panicked>>

(* The machine stops and starts again: memory is lost. *)
Crash ==
  /\ pins' = {} /\ lhn' = 0
  /\ outstanding' = 0 /\ committing' = FALSE
  /\ pc' = [p \in Procs |-> "idle"]
  /\ buf' = [p \in Procs |-> None]
  /\ wrote' = [p \in Procs |-> {}]
  /\ phase' = "rhead" /\ tail' = 1 /\ writing' = FALSE
  /\ panicked' = FALSE
  /\ UNCHANGED <<disk, cache, lhblock>>

(* recover_from_log() *)
ReadHead ==
  /\ phase = "rhead"
  /\ lhn' = hn
  /\ lhblock' = [i \in Slots |-> IF i <= hn THEN hblock[i] ELSE lhblock[i]]
  /\ phase' = (IF hn > 0 THEN "rinstall" ELSE "rerase")
  /\ UNCHANGED <<disk, cache, pins, calls, tail, writing, panicked>>

RecoveryDone ==
  /\ phase = "rerase"
  /\ lhn' = 0 /\ PutHead(0)
  /\ cache' = home
  /\ phase' = "none"
  /\ UNCHANGED <<home, logblk, pins, lhblock, calls, tail, writing, panicked>>

LogStep ==
  \/ WriteLog \/ WriteHead \/ InstallTrans \/ Erase \/ ReadHead \/ RecoveryDone
  \/ \E p \in Procs : CommitDone(p)

Next ==
  \/ \E p \in Procs : BeginOp(p) \/ Modify(p) \/ LogWrite(p) \/ EndOp(p)
  \/ LogStep
  \/ \E b \in Blocks : Evict(b)
  \/ Crash

Spec == Init /\ [][Next]_vars

-----------------------------------------------------------------------------
TypeOK ==
  /\ home \in [Blocks -> Values \cup {Torn}]
  /\ logblk \in [Slots -> Values \cup {Torn}]
  /\ hn \in 0..LOGBLOCKS /\ hblock \in [Slots -> Blocks \cup {None}]
  /\ cache \in [Blocks -> Values \cup {Torn}] /\ pins \subseteq Blocks
  /\ lhn \in 0..LOGBLOCKS /\ lhblock \in [Slots -> Blocks \cup {None}]
  /\ outstanding \in Nat /\ committing \in BOOLEAN
  /\ pc \in [Procs -> {"idle", "begin", "sleep", "op", "mod", "commit"}]
  /\ buf \in [Procs -> Blocks \cup {None}] /\ wrote \in [Procs -> SUBSET Blocks]
  /\ phase \in {"none", "wlog", "whead", "install", "erase", "done",
                "rhead", "rinstall", "rerase"}
  /\ tail \in Slots /\ writing \in BOOLEAN /\ panicked \in BOOLEAN

(* Every file-system call is atomic across crashes, however its writes are    *)
(* grouped with others', absorbed, installed or replayed.                     *)
Atomic ==
  INSTANCE AtomicDisk WITH mem <- Seen, stable <- Recovered, open <- Open
CrashAtomic == Atomic!Spec

(* begin_op() reserves room: what is logged and what the open calls may still *)
(* write, MAXOPBLOCKS each less what each has written, fits the log, so       *)
(* log_write() never finds it full and never panics.                          *)
Written == {w \in Procs \X Blocks : w[2] \in wrote[w[1]]}
ReservationHolds ==
  /\ TypeOK /\ ~panicked
  /\ lhn + outstanding * MAXOPBLOCKS <= LOGBLOCKS + Cardinality(Written)

(* The buffer of a logged block stays in the cache, with what the call wrote, *)
(* until the block is home.                                                   *)
LoggedStaysCached ==
  phase \in {"none", "wlog", "whead", "install"} =>
    \A i \in 1..lhn : (phase = "install" /\ i < tail) \/ lhblock[i] \in pins

(* A call that sleeps in begin_op(), for a commit or for room, is not         *)
(* forgotten: it sleeps only while there is a commit or no room, so every     *)
(* end_op() that makes room wakes it, and until then a call is open or        *)
(* commits, which is followed by a wakeup(&log).                              *)
WaitersHaveWaker ==
  (\E p \in Procs : pc[p] = "sleep") =>
    /\ committing \/ NoRoom
    /\ Open # {} \/ \E q \in Procs : pc[q] = "commit"

-----------------------------------------------------------------------------
(* The processes are interchangeable. *)
ProcSymmetry == Permutations(Procs)
=============================================================================
