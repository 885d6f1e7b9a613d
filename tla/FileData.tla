------------------------------ MODULE FileData -------------------------------
(* What files hold: fs.c's block allocator, bmap(), itrunc(), readi() and     *)
(* writei(), and file.c's fileread() and filewrite(), by processes that share *)
(* files and a small disk, over buffers that can be evicted, with crashes.    *)
(*                                                                            *)
(* A block holds BSIZE units; an indirect block's units are block numbers, so *)
(* NINDIRECT = BSIZE.  The log is AtomicDisk: the blocks written by the calls *)
(* of a transaction stay in the cache until the last of the calls ends, and   *)
(* then reach the disk together.  The number of the process that wrote it     *)
(* stands for a datum.                                                        *)
EXTENDS Integers, Sequences, SequencesExt, FiniteSetsExt

CONSTANTS Procs, Inodes,
          Files, inode,         \* the open files, and the inode of each
          NBLOCKS, BSIZE, NDIRECT, MAXOPBLOCKS,
          Image,                \* what mkfs appends: pairs of an inode and a datum
          Sizes,                \* how much a call reads or writes
          MaxCalls              \* bound on the calls that change a file

Blocks == 1..NBLOCKS
NINDIRECT == BSIZE
MaxSize == (NDIRECT + NINDIRECT) * BSIZE
Units == 0..BSIZE - 1
Zeroes == [u \in Units |-> 0]

VARIABLES
  fs,      \* the buffer cache: contents of blk, the set of used blocks, inodes
  home,    \* the same on disk
  logged,  \* blocks of the open transaction
  ip,      \* the inodes in memory: size and addrs
  lock,    \* who has locked each inode, or 0
  off,     \* of each file
  c,       \* of each process: the call it is in
  want,    \* per inode and position, what the calls so far allow to be there
  kept,    \* want as of the last commit
  calls, panicked

vars == <<fs, home, logged, ip, lock, off, c, want, kept, calls, panicked>>

Idle == [pc |-> "idle", f |-> 0, left |-> 0, pos |-> 0, m |-> 0, wrote |-> {}]
NoInode == [size |-> 0, addrs |-> [b \in 0..NDIRECT |-> 0]]

(* Log numbers of the bitmap block and of the block with the inodes. *)
BitmapBlock == 0
InodeBlock == -1

-----------------------------------------------------------------------------
(* balloc(): the first free block of file system s, zeroed; 0 when full.      *)
FirstFree(s) == IF s.used = Blocks THEN 0 ELSE Min(Blocks \ s.used)

Balloc(s) == [s EXCEPT !.used = @ \cup {FirstFree(s)}, !.blk[FirstFree(s)] = Zeroes]

(* bmap(): block bn of the file with inode d in file system s, allocated if   *)
(* need be.  addr is 0 when the disk is full, which may leave a new indirect  *)
(* block behind; wrote are the blocks passed to log_write().                  *)
Bmap(s, d, bn) ==
  IF bn < NDIRECT
  THEN LET b == FirstFree(s)
       IN IF d.addrs[bn] # 0 \/ b = 0
          THEN [fs |-> s, d |-> d, addr |-> d.addrs[bn], wrote |-> {}]
          ELSE [fs |-> Balloc(s), d |-> [d EXCEPT !.addrs[bn] = b], addr |-> b,
                wrote |-> {BitmapBlock, b}]
  ELSE LET b1 == FirstFree(s)
           need == d.addrs[NDIRECT] = 0
           s1 == IF need /\ b1 # 0 THEN Balloc(s) ELSE s
           d1 == IF need THEN [d EXCEPT !.addrs[NDIRECT] = b1] ELSE d
           w1 == IF need /\ b1 # 0 THEN {BitmapBlock, b1} ELSE {}
           ind == d1.addrs[NDIRECT]
           b2 == FirstFree(s1)
       IN IF ind = 0 THEN [fs |-> s, d |-> d, addr |-> 0, wrote |-> {}]
          ELSE IF s1.blk[ind][bn - NDIRECT] # 0 \/ b2 = 0
          THEN [fs |-> s1, d |-> d1, addr |-> s1.blk[ind][bn - NDIRECT], wrote |-> w1]
          ELSE [fs |-> [Balloc(s1) EXCEPT !.blk[ind][bn - NDIRECT] = b2], d |-> d1,
                addr |-> b2, wrote |-> w1 \cup {BitmapBlock, b2, ind}]

(* The blocks that inode d in file system s refers to, with repetitions. *)
Refs(s, d) ==
  LET ind == d.addrs[NDIRECT]
      direct == [k \in 1..NDIRECT + 1 |-> d.addrs[k - 1]]
      indirect == IF ind = 0 THEN <<>> ELSE [k \in 1..NINDIRECT |-> s.blk[ind][k - 1]]
  IN SelectSeq(direct \o indirect, LAMBDA b : b # 0)

(* Mutant: the indirect block itself is forgotten. *)
FreedByItruncDirect(s, d) == Range(Refs(s, d)) \ {d.addrs[NDIRECT]}

(* What itrunc() passes to bfree(). *)
FreedByItrunc(s, d) == Range(Refs(s, d))

(* bfree() of a set of blocks; it panics when one of them is free already. *)
Bfree(s, freed) == [s EXCEPT !.used = @ \ freed]
FreesFree(s, freed) == ~(freed \subseteq s.used)

(* What position k of inode d in file system s holds. *)
Content(s, d, k) ==
  LET bn == k \div BSIZE
      b == IF bn < NDIRECT THEN d.addrs[bn] ELSE s.blk[d.addrs[NDIRECT]][bn - NDIRECT]
  IN s.blk[b][k % BSIZE]

(* mkfs: iappend() of the datum v to inode i of image s, whose blocks are     *)
(* handed out in order and were cleared at the start.                         *)
Iappend(s, i, v) ==
  LET d == s.din[i]
      bn == d.size \div BSIZE
      far == bn >= NDIRECT
      freeblock == Cardinality(s.used) + 1
      ind == IF far /\ d.addrs[NDIRECT] = 0 THEN freeblock ELSE d.addrs[NDIRECT]
      freeblock2 == IF ind = freeblock THEN freeblock + 1 ELSE freeblock
      old == IF far THEN s.blk[ind][bn - NDIRECT] ELSE d.addrs[bn]
      x == IF old = 0 THEN freeblock2 ELSE old
      near == [s.blk EXCEPT ![x][d.size % BSIZE] = v]
  IN [blk |-> IF far THEN [near EXCEPT ![ind][bn - NDIRECT] = x] ELSE near,
      used |-> s.used \cup {x} \cup (IF far THEN {ind} ELSE {}),
      din |-> [s.din EXCEPT ![i] =
                 [size |-> d.size + 1,
                  addrs |-> IF far THEN [d.addrs EXCEPT ![NDIRECT] = ind]
                                   ELSE [d.addrs EXCEPT ![bn] = x]]]]

Empty == [blk |-> [b \in Blocks |-> Zeroes], used |-> {}, din |-> [i \in Inodes |-> NoInode]]
Mkfs == FoldLeft(LAMBDA s, x : Iappend(s, x[1], x[2]), Empty, Image)

Init ==
  /\ fs = Mkfs /\ home = Mkfs /\ logged = {}
  /\ ip = Mkfs.din
  /\ lock = [i \in Inodes |-> 0]
  /\ off = [f \in Files |-> 0]
  /\ c = [p \in Procs |-> Idle]
  /\ want = [i \in Inodes |-> [k \in 1..Mkfs.din[i].size |-> {Content(Mkfs, Mkfs.din[i], k - 1)}]]
  /\ kept = want
  /\ calls = 0 /\ panicked = FALSE

At(p, label) == ~panicked /\ c[p].pc = label
InOp(p) == c[p].pc \notin {"idle", "chunk"}
Inode(p) == inode[c[p].f]

(* The most that filewrite() writes in one transaction. *)
ChunkMaxNoSlop == (MAXOPBLOCKS - 1 - 1) * BSIZE

ChunkMax == ((MAXOPBLOCKS - 1 - 1 - 2) \div 2) * BSIZE

(* filewrite() of n units starts. *)
Filewrite(p, f, n) == c' = [c EXCEPT ![p] = [Idle EXCEPT !.pc = "chunk", !.f = f, !.left = n]]

(* sys_write() *)
Write(p) ==
  /\ At(p, "idle") /\ calls < MaxCalls
  /\ \E f \in Files, n \in Sizes : Filewrite(p, f, n)
  /\ calls' = calls + 1
  /\ UNCHANGED <<fs, home, logged, ip, lock, off, want, kept, panicked>>

(* writei()'s first checks. *)
Writable(i, o, n) == o <= ip[i].size /\ o + n <= MaxSize

(* begin_op(), ilock() and the start of writei(), for the next piece. *)
Chunk(p) ==
  LET f == c[p].f
      n1 == Min({c[p].left, ChunkMax})
  IN /\ At(p, "chunk") /\ lock[inode[f]] = 0
     /\ IF Writable(inode[f], off[f], n1)
        THEN /\ lock' = [lock EXCEPT ![inode[f]] = p]
             /\ c' = [c EXCEPT ![p].pc = "copy", ![p].pos = off[f], ![p].m = n1,
                               ![p].left = @ - n1, ![p].wrote = {}]
        ELSE /\ c' = [c EXCEPT ![p] = [Idle EXCEPT !.pc = "end"]]
             /\ UNCHANGED lock
     /\ UNCHANGED <<fs, home, logged, ip, off, want, kept, calls, panicked>>

(* What position k of a file may hold once a datum v was, or may have been,   *)
(* written to it.                                                             *)
Put(w, from, to, v) ==
  [k \in 1..Max({Len(w), to}) |-> IF k \in from + 1..to THEN {v} ELSE w[k]]
MayPut(w, from, to, v) ==
  [k \in 1..Len(w) |-> IF k \in from + 1..to THEN w[k] \cup {v} ELSE w[k]]

(* One round of writei()'s loop: the disk is full, or the copy from user      *)
(* space succeeds, or it fails after j units and the buffer is not logged.    *)
Copy(p) ==
  LET i == Inode(p)
      pos == c[p].pos
      bn == pos \div BSIZE
      b == Bmap(fs, ip[i], bn)
      m == Min({c[p].m, BSIZE - (pos % BSIZE)})
      filled(n) == [u \in Units |-> IF u \in (pos % BSIZE)..(pos % BSIZE) + n - 1
                                    THEN p ELSE b.fs.blk[b.addr][u]]
      stop == [c[p] EXCEPT !.pc = "done", !.left = 0, !.wrote = @ \cup b.wrote]
  IN /\ At(p, "copy")
     /\ IF bn >= NDIRECT + NINDIRECT
        THEN panicked' = TRUE /\ UNCHANGED <<fs, logged, ip, c, want>>
        ELSE /\ ip' = [ip EXCEPT ![i] = b.d]
             /\ \/ /\ b.addr = 0
                   /\ fs' = b.fs /\ logged' = logged \cup b.wrote
                   /\ c' = [c EXCEPT ![p] = stop]
                   /\ UNCHANGED want
                \/ /\ b.addr # 0
                   /\ \E j \in 0..m - 1 : fs' = [b.fs EXCEPT !.blk[b.addr] = filled(j)]
                   /\ logged' = logged \cup b.wrote
                   /\ c' = [c EXCEPT ![p] = stop]
                   /\ want' = [want EXCEPT ![i] = MayPut(@, pos, pos + m, p)]
                \/ /\ b.addr # 0
                   /\ fs' = [b.fs EXCEPT !.blk[b.addr] = filled(m)]
                   /\ logged' = logged \cup b.wrote \cup {b.addr}
                   /\ c' = [c EXCEPT ![p].pc = IF m = c[p].m THEN "done" ELSE "copy",
                              ![p].pos = pos + m, ![p].m = @ - m,
                              ![p].wrote = @ \cup b.wrote \cup {b.addr}]
                   /\ want' = [want EXCEPT ![i] = Put(@, pos, pos + m, p)]
             /\ UNCHANGED panicked
     /\ UNCHANGED <<home, lock, off, kept, calls>>

(* Mutant: a file ends where it was last written. *)
SizeAfterEnd(d, pos) == pos

SizeAfter(d, pos) == Max({d.size, pos})

(* The end of writei(), the file's offset, and iunlock(). *)
Done(p) ==
  LET i == Inode(p)
      d == [ip[i] EXCEPT !.size = SizeAfter(ip[i], c[p].pos)]
  IN /\ At(p, "done")
     /\ ip' = [ip EXCEPT ![i] = d]
     /\ fs' = [fs EXCEPT !.din[i] = d]
     /\ logged' = logged \cup {InodeBlock}
     /\ off' = [off EXCEPT ![c[p].f] = c[p].pos]
     /\ lock' = [lock EXCEPT ![i] = 0]
     /\ c' = [c EXCEPT ![p].pc = "end", ![p].wrote = @ \cup {InodeBlock}]
     /\ UNCHANGED <<home, want, kept, calls, panicked>>

(* end_op(): the last call in the transaction commits.  The write goes on     *)
(* with its next piece, or is over.                                           *)
EndOp(p) ==
  /\ At(p, "end")
  /\ c' = [c EXCEPT ![p] = IF @.left = 0 THEN Idle ELSE [@ EXCEPT !.pc = "chunk", !.wrote = {}]]
  /\ IF \E q \in Procs \ {p} : InOp(q) THEN UNCHANGED <<home, logged, kept>>
     ELSE /\ home' = [blk |-> [b \in Blocks |-> IF b \in logged THEN fs.blk[b] ELSE home.blk[b]],
                      used |-> IF BitmapBlock \in logged THEN fs.used ELSE home.used,
                      din |-> IF InodeBlock \in logged THEN fs.din ELSE home.din]
          /\ logged' = {}
          /\ kept' = want
  /\ UNCHANGED <<fs, ip, lock, off, want, calls, panicked>>

(* sys_open() with O_TRUNC, or the iput() that frees an inode: itrunc().      *)
Trunc(p, i) ==
  LET freed == FreedByItrunc(fs, ip[i])
  IN /\ At(p, "idle") /\ calls < MaxCalls /\ lock[i] = 0
     /\ IF FreesFree(fs, freed)
        THEN panicked' = TRUE /\ UNCHANGED <<fs, logged, ip, c, want>>
        ELSE /\ fs' = [Bfree(fs, freed) EXCEPT !.din[i] = NoInode]
             /\ logged' = logged \cup {BitmapBlock, InodeBlock}
             /\ ip' = [ip EXCEPT ![i] = NoInode]
             /\ c' = [c EXCEPT ![p] = [Idle EXCEPT !.pc = "end"]]
             /\ want' = [want EXCEPT ![i] = <<>>]
             /\ UNCHANGED panicked
     /\ calls' = calls + 1
     /\ UNCHANGED <<home, lock, off, kept>>

(* How much readi() reads. *)
Readable(i, o, n) == IF o > ip[i].size THEN 0 ELSE Min({n, ip[i].size - o})

(* fileread(), with the inode locked; when the copy to user space fails, the  *)
(* offset stays.                                                              *)
Fileread(f, n) ==
  /\ lock[inode[f]] = 0
  /\ off' = [off EXCEPT ![f] = @ + Readable(inode[f], @, n)]

(* sys_read() *)
Read(p) ==
  /\ At(p, "idle")
  /\ \E f \in Files, n \in Sizes : Fileread(f, n)
  /\ UNCHANGED <<fs, home, logged, ip, lock, c, want, kept, calls, panicked>>

(* bget() recycles the buffer of a block that is not in the log. *)
Evict(b) ==
  /\ ~panicked
  /\ b \notin logged
  /\ fs' = [fs EXCEPT !.blk[b] = home.blk[b]]
  /\ UNCHANGED <<home, logged, ip, lock, off, c, want, kept, calls, panicked>>

(* The machine stops and starts again. *)
Crash ==
  /\ fs' = home /\ logged' = {} /\ ip' = home.din
  /\ lock' = [i \in Inodes |-> 0] /\ off' = [f \in Files |-> 0]
  /\ c' = [p \in Procs |-> Idle]
  /\ want' = kept /\ panicked' = FALSE
  /\ UNCHANGED <<home, kept, calls>>

Next ==
  \/ \E p \in Procs :
       \/ Write(p) \/ Chunk(p) \/ Copy(p) \/ Done(p) \/ EndOp(p) \/ Read(p)
       \/ \E i \in Inodes : Trunc(p, i)
  \/ \E b \in Blocks : Evict(b)
  \/ Crash

Spec == Init /\ [][Next]_vars
-----------------------------------------------------------------------------
TypeOK ==
  /\ \A s \in {fs, home} :
       /\ s.blk \in [Blocks -> [Units -> Nat]]
       /\ s.used \subseteq Blocks
       /\ s.din \in [Inodes -> [size : 0..MaxSize, addrs : [0..NDIRECT -> Blocks \cup {0}]]]
  /\ lock \in [Inodes -> Procs \cup {0}]
  /\ off \in [Files -> 0..MaxSize]

(* No block is lost and none is used twice: the bitmap has the blocks that    *)
(* inodes refer to, each once.  It is so in memory between any two steps of   *)
(* any calls, and on disk whenever the machine may stop.                      *)
AllRefs(s, d) == FoldFunction(LAMBDA x, y : x \o y, <<>>, [i \in Inodes |-> Refs(s, d[i])])
BlocksOwnedOnce ==
  \A x \in {<<fs, ip>>, <<home, home.din>>} :
    LET r == AllRefs(x[1], x[2])
    IN Range(r) = x[1].used /\ Len(r) = Cardinality(x[1].used)

(* fs.c, in writei(): "write the i-node back to disk even if the size didn't  *)
(* change": an inode that nobody has locked is the same in the log.           *)
InodesWritten == \A i \in Inodes : lock[i] = 0 => fs.din[i] = ip[i]

(* A file holds what was written to it, at its place and length, whichever    *)
(* other calls ran meanwhile, and whatever was evicted; a write that failed   *)
(* part way may have changed only what it was to write.  A crash leaves a     *)
(* file as it was at a commit.                                                *)
Holds(s, d, w) ==
  d.size = Len(w) /\ \A k \in 1..Len(w) : Content(s, d, k - 1) \in w[k]
ReadsBack ==
  \A i \in Inodes : /\ lock[i] = 0 => Holds(fs, ip[i], want[i])
                    /\ Holds(home, home.din[i], kept[i])

(* file.c, in filewrite(): "write a few blocks at a time to avoid exceeding   *)
(* the maximum log transaction size, including i-node, indirect block,        *)
(* allocation blocks, and 2 blocks of slop for non-aligned writes".  There is  *)
(* one to spare, as Log assumes: log_write() refuses a block that is in the   *)
(* log already, too, once the log is full.                                    *)
FitsInLog == \A p \in Procs : Cardinality(c[p].wrote) < MAXOPBLOCKS

(* Neither panic of fs.c's block code, "bmap: out of range" and "freeing free *)
(* block", is reached.                                                        *)
NoPanic == ~panicked

(* The blocks of the disk are accounted for: BlocksOwnedOnce, and the panics  *)
(* that guard it are not reached.                                             *)
BlocksSound == TypeOK /\ BlocksOwnedOnce /\ NoPanic

(* A file is what was written to it, and its inode goes to the log with it:   *)
(* ReadsBack and InodesWritten.                                               *)
FilesKept == ReadsBack /\ InodesWritten
=============================================================================
