------------------------------- MODULE BlockIO -------------------------------
(* Block I/O: the buffer cache of bio.c over the virtio disk driver, with the *)
(* disk on the other side of the rings and its interrupt.                     *)
(*                                                                            *)
(* A process reads a block and may change it: with a bwrite(), or, as the log *)
(* does, with a bpin() that keeps the block cached until a later bwrite() and *)
(* bunpin().  Of a ring, the entries between the two indices are kept; at     *)
(* most NUM / 3 requests are under way, so it never fills, and NUM divides    *)
(* 2^16, where the indices wrap.  A span under one spinlock is a step.        *)
EXTENDS Integers, Sequences, FiniteSetsExt

CONSTANTS Procs, Blocks, NBUF,
          NUM,       \* descriptors
          MaxPinned  \* the most blocks the log pins at once

None == 0
Bufs == 1..NBUF
ASSUME SizesAssumption ==
  /\ NBUF \in Nat /\ NUM \in Nat /\ NUM >= 3
  /\ IsFiniteSet(Procs) /\ None \notin Procs \cup Blocks
Descs == 0..NUM - 1

VARIABLES
  buf,       \* blockno, refcnt, valid, disk, the lock's owner, and whether the
             \* data are the latest version of the block, stored last by anyone
  lru,       \* the list of buffers, most recently used first
  free,      \* free descriptors
  desc,      \* per first descriptor: the chain, the operation, info's buffer
  avail,     \* the requests that the disk has not answered
  used,      \* the answers that the driver has not read
  irq,       \* the disk's interrupt status
  intr,      \* virtio_disk_intr() runs, with vdisk_lock
  store,     \* of each block on disk, whether it is the latest version
  pinned,    \* the blocks the log has pinned
  c,         \* per process: where it is, its block, its buffer, the operation
  panicked

disk == <<free, desc, avail, used, irq, intr>>
vars == <<buf, lru, disk, store, pinned, c, panicked>>

Idle == [pc |-> "idle", no |-> None, b |-> None, write |-> FALSE, h |-> 0]
NoReq == [chain |-> {}, write |-> FALSE, b |-> None]

(* binit() *)
Binit ==
  /\ buf = [b \in Bufs |-> [no |-> None, ref |-> 0, valid |-> FALSE, disk |-> FALSE,
                            lock |-> None, data |-> FALSE]]
  /\ lru = [k \in Bufs |-> NBUF + 1 - k]

(* virtio_disk_init(), the negotiation with the device left out. *)
VirtioDiskInit ==
  /\ free = Descs /\ desc = [d \in Descs |-> NoReq]
  /\ avail = {} /\ used = <<>> /\ irq = FALSE /\ intr = FALSE

Init ==
  /\ Binit /\ VirtioDiskInit
  /\ store = [n \in Blocks |-> TRUE] /\ pinned = {}
  /\ c = [p \in Procs |-> Idle]
  /\ panicked = FALSE

At(p, label) == ~panicked /\ c[p].pc = label

-----------------------------------------------------------------------------
Cached(n) == {b \in Bufs : buf[b].no = n}

Unused == {k \in 1..NBUF : buf[lru[k]].ref = 0}

(* Mutant: a recycled buffer stays valid. *)
RecycledValid(b, n) == [buf[b] EXCEPT !.no = n, !.ref = 1, !.data = FALSE]

(* A recycled buffer: its data are another block's. *)
Recycled(b, n) == [buf[b] EXCEPT !.no = n, !.valid = FALSE, !.ref = 1, !.data = FALSE]

(* bget(), up to the buffer's lock. *)
Bget(p) ==
  /\ At(p, "idle")
  /\ \E n \in Blocks :
       LET take(b, e) == /\ buf' = [buf EXCEPT ![b] = e]
                         /\ c' = [c EXCEPT ![p] = [Idle EXCEPT !.pc = "lock", !.no = n, !.b = b]]
                         /\ UNCHANGED panicked
       IN IF Cached(n) # {}
          THEN LET b == Min(Cached(n)) IN take(b, [buf[b] EXCEPT !.ref = @ + 1])
          ELSE IF Unused # {}
          THEN LET b == lru[Max(Unused)] IN take(b, Recycled(b, n))
          ELSE panicked' = TRUE /\ UNCHANGED <<buf, c>>
  /\ UNCHANGED <<lru, disk, store, pinned>>

(* acquiresleep(), and bread()'s look at valid. *)
Lock(p) ==
  LET b == c[p].b
  IN /\ At(p, "lock") /\ buf[b].lock = None
     /\ buf' = [buf EXCEPT ![b].lock = p]
     /\ c' = [c EXCEPT ![p].pc = IF buf[b].valid THEN "hold" ELSE "rw"]
     /\ UNCHANGED <<lru, disk, store, pinned, panicked>>

(* bpin() of a buffer that has been changed. *)
Pin(b) == [buf EXCEPT ![b].data = TRUE, ![b].ref = @ + 1]

(* The holder changes the buffer, for bwrite(), or for log_write() to pin. *)
Change(p) ==
  LET b == c[p].b
      n == c[p].no
  IN /\ At(p, "hold")
     /\ \/ /\ buf' = [buf EXCEPT ![b].data = TRUE]
           /\ c' = [c EXCEPT ![p].pc = "rw", ![p].write = TRUE]
           /\ UNCHANGED pinned
        \/ /\ n \notin pinned /\ Cardinality(pinned) < MaxPinned
           /\ buf' = Pin(b) /\ pinned' = pinned \cup {n}
           /\ c' = [c EXCEPT ![p].pc = "changed"]
     /\ store' = [store EXCEPT ![n] = FALSE]
     /\ UNCHANGED <<lru, disk, panicked>>

(* The list once b is unlinked and put at its head: those before b go one     *)
(* place down.                                                                *)
MovedToHead(b) ==
  LET place == CHOOSE k \in Bufs : lru[k] = b
  IN [k \in Bufs |-> IF k = 1 THEN b ELSE IF k <= place THEN lru[k - 1] ELSE lru[k]]

(* bunpin() of a pinned block that was written, and brelse().  They are a     *)
(* step although each call locks bcache anew and the buffer's own lock goes   *)
(* first: whoever gets that lock in between already has a reference, so the   *)
(* references seen by anyone are the same.                                    *)
Brelse(p) ==
  LET b == c[p].b
      unpin == c[p].pc = "written" /\ c[p].no \in pinned
      ref == buf[b].ref - (IF unpin THEN 2 ELSE 1)
  IN /\ ~panicked /\ c[p].pc \in {"hold", "written", "changed"}
     /\ buf' = [buf EXCEPT ![b].lock = None, ![b].ref = ref]
     /\ lru' = IF ref = 0 THEN MovedToHead(b) ELSE lru
     /\ pinned' = IF unpin THEN pinned \ {c[p].no} ELSE pinned
     /\ c' = [c EXCEPT ![p] = Idle]
     /\ UNCHANGED <<disk, store, panicked>>

-----------------------------------------------------------------------------
(* wakeup(&disk.free[0]) *)
WakeDesc(d) == [p \in Procs |-> IF d[p].pc = "descsleep" THEN [d[p] EXCEPT !.pc = "rw"] ELSE d[p]]

(* alloc3_desc() takes the lowest free descriptors. *)
Lowest3 == CHOOSE s \in SUBSET free : Cardinality(s) = 3 /\ \A x \in s, y \in free \ s : x < y

(* virtio_disk_rw(), up to its sleep.  Without three descriptors, those it    *)
(* took are freed again, which wakes the others that wait for some.           *)
Submit(p) ==
  LET b == c[p].b
      h == Min(free)
  IN /\ At(p, "rw") /\ ~intr
     /\ IF Cardinality(free) < 3
        THEN /\ c' = [(IF free = {} THEN c ELSE WakeDesc(c)) EXCEPT ![p].pc = "descsleep"]
             /\ UNCHANGED <<buf, disk>>
        ELSE /\ free' = free \ Lowest3
             /\ desc' = [desc EXCEPT ![h] = [chain |-> Lowest3, write |-> c[p].write, b |-> b]]
             /\ avail' = avail \cup {h}
             /\ buf' = [buf EXCEPT ![b].disk = TRUE]
             /\ c' = [c EXCEPT ![p].pc = "disksleep", ![p].h = h]
             /\ UNCHANGED <<used, irq, intr>>
     /\ UNCHANGED <<lru, store, pinned, panicked>>

(* Mutant: only the first descriptor is freed. *)
FreeChainFirst(h) == {h}

(* What free_chain(h) frees. *)
FreeChain(h) == desc[h].chain

(* Awake again, virtio_disk_rw() frees the descriptors and returns.  A        *)
(* process that kill() wakes earlier tests b->disk, or looks for descriptors, *)
(* again and goes back to sleep: a step that changes nothing, left out.       *)
Finish(p) ==
  LET b == c[p].b
      h == c[p].h
      next == IF c[p].write THEN "written" ELSE "hold"
  IN /\ At(p, "woken") /\ ~intr
     /\ IF buf[b].disk
        THEN c' = [c EXCEPT ![p].pc = "disksleep"] /\ UNCHANGED <<buf, disk, panicked>>
        ELSE /\ free' = free \cup FreeChain(h)
             /\ desc' = [desc EXCEPT ![h] = NoReq]
             /\ panicked' = (FreeChain(h) \cap free # {})
             /\ c' = [WakeDesc(c) EXCEPT ![p].pc = next, ![p].h = 0]
             /\ buf' = IF c[p].write THEN buf ELSE [buf EXCEPT ![b].valid = TRUE]
             /\ UNCHANGED <<avail, used, irq, intr>>
     /\ UNCHANGED <<lru, store, pinned>>

(* virtio_disk_intr() starts, and acknowledges the interrupt. *)
IntrAck ==
  /\ irq /\ ~intr /\ ~panicked
  /\ irq' = FALSE /\ intr' = TRUE
  /\ UNCHANGED <<buf, lru, free, desc, avail, used, store,
                 pinned, c, panicked>>

(* Mutant: the handler takes one answer and returns. *)
IntrAnswerOnce ==
  LET b == desc[Head(used)].b
  IN /\ intr /\ used # <<>>
     /\ buf' = [buf EXCEPT ![b].disk = FALSE]
     /\ c' = [p \in Procs |-> IF c[p].pc = "disksleep" /\ c[p].b = b
                             THEN [c[p] EXCEPT !.pc = "woken"] ELSE c[p]]
     /\ used' = Tail(used) /\ intr' = FALSE
     /\ UNCHANGED <<lru, free, desc, avail, irq, store,
                    pinned, panicked>>

(* One answer: the buffer is done, and who waits for it is woken. *)
IntrAnswer ==
  LET b == desc[Head(used)].b
  IN /\ intr /\ used # <<>>
     /\ buf' = [buf EXCEPT ![b].disk = FALSE]
     /\ c' = [p \in Procs |-> IF c[p].pc = "disksleep" /\ c[p].b = b
                             THEN [c[p] EXCEPT !.pc = "woken"] ELSE c[p]]
     /\ used' = Tail(used)
     /\ UNCHANGED <<lru, free, desc, avail, irq, intr, store,
                    pinned, panicked>>

IntrEnd ==
  /\ intr /\ used = <<>>
  /\ intr' = FALSE
  /\ UNCHANGED <<buf, lru, free, desc, avail, used, irq, store,
                 pinned, c, panicked>>

(* The disk answers one of its requests, in any order, and interrupts. *)
DiskAnswer ==
  /\ \E h \in avail :
       LET b == desc[h].b
       IN /\ avail' = avail \ {h}
          /\ IF desc[h].write
             THEN store' = [store EXCEPT ![buf[b].no] = buf[b].data] /\ UNCHANGED buf
             ELSE buf' = [buf EXCEPT ![b].data = store[buf[b].no]] /\ UNCHANGED store
          /\ used' = Append(used, h)
  /\ irq' = TRUE
  /\ UNCHANGED <<lru, free, desc, intr, pinned, c, panicked>>

ProcStep(p) ==
  \/ Lock(p) \/ Change(p) \/ Brelse(p) \/ Submit(p) \/ Finish(p)

Next ==
  \/ \E p \in Procs : Bget(p) \/ ProcStep(p)
  \/ IntrAck \/ IntrAnswer \/ IntrEnd \/ DiskAnswer

Spec == Init /\ [][Next]_vars
-----------------------------------------------------------------------------
Pcs == {"idle", "lock", "hold", "changed", "rw", "descsleep", "disksleep", "woken", "written"}
BufType == [no : Blocks \cup {None}, ref : Nat, valid : BOOLEAN, disk : BOOLEAN,
            lock : Procs \cup {None}, data : BOOLEAN]
ReqType == [chain : SUBSET Descs, write : BOOLEAN, b : Bufs \cup {None}]
CallType == [pc : Pcs, no : Blocks \cup {None}, b : Bufs \cup {None}, write : BOOLEAN, h : Descs]
TypeOK ==
  /\ buf \in [Bufs -> BufType]
  /\ lru \in [Bufs -> Bufs] /\ \A b \in Bufs : \E k \in Bufs : lru[k] = b
  /\ free \in SUBSET Descs /\ avail \in SUBSET Descs /\ used \in Seq(Descs)
  /\ desc \in [Descs -> ReqType]
  /\ irq \in BOOLEAN /\ intr \in BOOLEAN /\ panicked \in BOOLEAN
  /\ store \in [Blocks -> BOOLEAN] /\ pinned \in SUBSET Blocks
  /\ c \in [Procs -> CallType]

(* bio.c: "The (blockno, dev) of a buffer": a block is in one buffer at most, *)
(* and the buffer that a process has looked up stays its block's until it is  *)
(* released: the references are those of processes and pins.                  *)
Users(b) == {p \in Procs : c[p].b = b}
OneBuffer ==
  /\ \A n \in Blocks : Cardinality(Cached(n)) <= 1
  /\ \A p \in Procs : c[p].pc # "idle" => buf[c[p].b].no = c[p].no
  /\ \A b \in Bufs : buf[b].ref = Cardinality(Users(b)) + (IF buf[b].no \in pinned THEN 1 ELSE 0)

(* Whoever holds a block sees what was last stored in it, by anyone, however  *)
(* the block moved between cache and disk meanwhile.                          *)
ReadsLatest ==
  /\ \A p \in Procs : c[p].pc \in {"hold", "written", "changed"} =>
                        buf[c[p].b].valid /\ buf[c[p].b].data
  /\ \A n \in pinned : Cached(n) # {}

(* A request keeps its three descriptors, its buffer and its operation until  *)
(* the process that made it has seen the answer; no descriptor is lost.       *)
Waiting == {p \in Procs : c[p].pc \in {"disksleep", "woken"}}
DescriptorsOwned ==
  /\ \A p \in Waiting : /\ desc[c[p].h].b = c[p].b /\ desc[c[p].h].write = c[p].write
                        /\ Cardinality(desc[c[p].h].chain) = 3
                        /\ desc[c[p].h].chain \cap free = {}
  /\ \A p, q \in Waiting : p # q => desc[c[p].h].chain \cap desc[c[q].h].chain = {}
  /\ Cardinality(free) + 3 * Cardinality(Waiting) = NUM

(* Whoever sleeps in virtio_disk_rw() will be woken: its request is with the  *)
(* disk, or answered with an interrupt to come or in progress; and who waits  *)
(* for descriptors does so while somebody has some.                           *)
SleepersHaveWaker ==
  /\ \A p \in Procs : c[p].pc = "disksleep" =>
       \/ c[p].h \in avail
       \/ (irq \/ intr) /\ c[p].h \in Range(used)
  /\ (\E p \in Procs : c[p].pc = "descsleep") => Waiting # {}

(* The panic "bget: no buffers" means that every buffer holds a block that a  *)
(* process uses or the log has pinned; the panic "free_desc 2" is never       *)
(* reached: no buffer and no descriptor is lost, however requests end.        *)
InUse == pinned \cup {c[p].no : p \in {q \in Procs : c[q].pc # "idle"}}
PanicsOnlyFull == panicked => Cardinality(InUse) = NBUF

(* The buffer cache keeps its promises while buffers are looked up, recycled, *)
(* pinned and refilled: OneBuffer, ReadsLatest and PanicsOnlyFull.            *)
CacheSound == TypeOK /\ OneBuffer /\ ReadsLatest /\ PanicsOnlyFull
=============================================================================
