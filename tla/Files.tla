-------------------------------- MODULE Files --------------------------------
(* Names, inodes and open files: the system calls of sysfile.c that look up,  *)
(* make, link, remove and open files, over fs.c's inode table and directories *)
(* and file.c's file table, with crashes.                                     *)
(*                                                                            *)
(* The log is AtomicDisk, which Log implements: a crash leaves the disk as it *)
(* was when last no call was in progress.  What a file holds is FileData's    *)
(* subject; a directory is a function from names to inode numbers, 0 where    *)
(* there is no entry.  A span from ilock() to iunlock() that uses only the    *)
(* locked inode and, once, the inode table is one step.                       *)
EXTENDS Integers, Sequences, SequencesExt, FiniteSetsExt

CONSTANTS Procs, Initproc, Names,
          NInodes,                \* the inodes on disk
          NINODE, NFILE, NOFILE,  \* sizes of itable, of ftable and of ofile
          Paths, NewPaths,        \* the paths of the calls, and link()'s second
          Types,                  \* what create() makes: "file", "dir", "dev"
          Images,                 \* the disks to start from
          MaxCalls                \* bound on the calls; one that takes two files counts twice

None == 0
ROOTINO == 1
Inums == 1..NInodes
Slots == 1..NINODE
FileSlots == 1..NFILE
Fds == 1..NOFILE

VARIABLES
  disk, stable,  \* type, nlink and ents of every inode, now and as committed
  itab, ftab,    \* itable.inode, ftable.file
  cwd, ofile,    \* of each process: its current directory, its open files
  c,             \* of each process: the call it is in
  panicked,
  calls,         \* calls begun
  reused         \* since boot, ialloc() has met the entry of an unfinished iput()

flags == <<panicked, reused, calls>>
vars == <<disk, stable, itab, ftab, cwd, ofile, c, flags>>

(* A call: where it is, the lookup it is in, what is left of its path, the    *)
(* type to create, its references dp and ip, an inode number, the entries     *)
(* it is about to iunlock() and iput(), how far the iput() of the first of    *)
(* them is, and the files of a pipe in the making.                            *)
Idle == [pc |-> "idle", op |-> "none", path |-> <<>>, type |-> "none",
         dp |-> None, ip |-> None, num |-> None, todo |-> <<>>, freeing |-> 0, files |-> <<>>]

NoEnts == [n \in Names \cup {".."} |-> None]
FreeEntry == [inum |-> None, ref |-> 0, valid |-> FALSE, lock |-> None,
              type |-> "none", nlink |-> 0]
NoFile == [ref |-> 0, ip |-> None]

(* The image mkfs makes: a root directory that is its own parent. *)
Mkfs ==
  [type |-> [i \in Inums |-> IF i = ROOTINO THEN "dir" ELSE "none"],
   nlink |-> [i \in Inums |-> IF i = ROOTINO THEN 1 ELSE 0],
   ents |-> [i \in Inums |-> IF i = ROOTINO THEN [NoEnts EXCEPT ![".."] = ROOTINO]
                                            ELSE NoEnts]]

(* Memory after boot: one process, in the root directory, and about to run    *)
(* ireclaim().                                                                *)
Itab0 == [s \in Slots |-> IF s = 1 THEN [FreeEntry EXCEPT !.inum = ROOTINO, !.ref = 1]
                                   ELSE FreeEntry]
Ftab0 == [f \in FileSlots |-> NoFile]
Cwd0 == [p \in Procs |-> IF p = Initproc THEN 1 ELSE None]
Ofile0 == [p \in Procs |-> [d \in Fds |-> None]]
C0 == [p \in Procs |-> IF p = Initproc THEN [Idle EXCEPT !.pc = "reclaim", !.num = 1] ELSE Idle]

Init ==
  /\ disk \in Images /\ stable = disk
  /\ calls = 0
  /\ itab = Itab0 /\ ftab = Ftab0 /\ cwd = Cwd0 /\ ofile = Ofile0
  /\ c = C0
  /\ panicked = FALSE /\ reused = FALSE

Alive(p) == cwd[p] # None
InOp(p) == c[p].pc \notin {"idle", "pipe", "piped", "pipebad"}
At(p, label) == ~panicked /\ c[p].todo = <<>> /\ c[p].pc = label

(* iget() of inode i in table t: the entry that holds it, or the first free   *)
(* one; with neither, the kernel panics.                                      *)
Holding(t, i) == {s \in Slots : t[s].ref > 0 /\ t[s].inum = i}
Unheld(t) == {s \in Slots : t[s].ref = 0}
NoRoom(t, i) == Holding(t, i) \cup Unheld(t) = {}
SlotFor(t, i) == IF Holding(t, i) # {} THEN Min(Holding(t, i)) ELSE Min(Unheld(t))

Iget(t, i) ==
  [t EXCEPT ![SlotFor(t, i)] = IF Holding(t, i) # {} THEN [@ EXCEPT !.ref = @ + 1]
                               ELSE [FreeEntry EXCEPT !.inum = i, !.ref = 1]]

(* ilock(): the entry's lock is free; an entry that is not valid is read from *)
(* disk; the kernel panics when that inode is free.                           *)
Lockable(s) == itab[s].lock = None
Loaded(s) ==
  LET e == itab[s]
  IN IF e.valid THEN e
     ELSE [e EXCEPT !.valid = TRUE, !.type = disk.type[e.inum], !.nlink = disk.nlink[e.inum]]
NoType(s) == Loaded(s).type = "none"

Iupdate(d, e) == [d EXCEPT !.type[e.inum] = e.type, !.nlink[e.inum] = e.nlink]

(* dirlookup() and dirlink() in the directory i of the disk d; dirlink() only  *)
(* writes a name that is not there.                                           *)
Dirlookup(d, i, name) == d.ents[i][name]
Dirlink(d, i, name, inum) == [d EXCEPT !.ents[i][name] = inum]

(* idup() *)
Idup(t, s) == [t EXCEPT ![s].ref = @ + 1]

Panic == panicked' = TRUE /\ UNCHANGED <<disk, stable, itab, ftab, cwd, ofile, c, reused, calls>>

-----------------------------------------------------------------------------
(* namex() starts at the root or in the current directory. *)
Starts(p) == {ROOTINO, itab[cwd[p]].inum}

(* A system call begins: begin_op(), and the start of namex().  Which call it *)
(* is shows when the path has been walked.                                    *)
Begin(p) ==
  /\ At(p, "idle") /\ Alive(p) /\ calls < MaxCalls
  /\ \E q \in Paths, i \in Starts(p), op \in {"namei", "nameiparent"} :
       IF NoRoom(itab, i) THEN Panic
       ELSE /\ c' = [c EXCEPT ![p] = [Idle EXCEPT !.pc = "walk", !.op = op, !.path = q,
                                        !.dp = SlotFor(itab, i)]]
            /\ itab' = Iget(itab, i)
            /\ calls' = calls + 1
            /\ UNCHANGED <<disk, stable, ftab, cwd, ofile, panicked, reused>>

(* nameiparent(), or namei(). *)
WantsParent(p) == c[p].op \in {"nameiparent", "linknew"}

(* skipelem() splits a path into its first element and the rest. *)
Skipelem(path) == [elem |-> Head(path), rest |-> Tail(path)]
Elem(p) == Skipelem(c[p].path).elem

(* One round of namex()'s loop. *)
Walk(p) ==
  LET s == c[p].dp
      next == Dirlookup(disk, itab[s].inum, Elem(p))
      rest == Skipelem(c[p].path).rest
      t == [itab EXCEPT ![s] = Loaded(s)]
      last == rest = <<>>
      stop == WantsParent(p) /\ last
      fails == Loaded(s).type # "dir" \/ (~stop /\ next = None)
  IN /\ At(p, "walk") /\ Lockable(s)
     /\ IF NoType(s) \/ (~fails /\ ~stop /\ NoRoom(t, next)) THEN Panic
        ELSE /\ IF fails
                THEN /\ itab' = t
                     /\ c' = [c EXCEPT ![p].dp = None, ![p].todo = <<s>>,
                                ![p].pc = IF c[p].op = "linknew" THEN "linkbad" ELSE "end"]
                ELSE IF stop
                THEN itab' = t /\ c' = [c EXCEPT ![p].pc = "act"]
                ELSE /\ itab' = Iget(t, next)
                     /\ c' = [c EXCEPT ![p].dp = SlotFor(t, next), ![p].todo = <<s>>,
                                ![p].path = rest,
                                ![p].pc = IF last THEN "act" ELSE "walk"]
             /\ UNCHANGED <<disk, stable, ftab, cwd, ofile, flags>>

(* Mutant: the reference is dropped without a look at nlink. *)
LastPutNever(e) == FALSE

(* iput() finds the last reference to an inode without a name. *)
LastPut(e) == e.ref = 1 /\ e.valid /\ e.nlink = 0

FreedEntry(e) == [e EXCEPT !.valid = FALSE, !.lock = None]

(* iunlock(), then iput(): an inode without a name is truncated and freed     *)
(* between two critical sections of itable.lock.                              *)
PutStep(p) ==
  LET s == Head(c[p].todo)
      e == [itab[s] EXCEPT !.lock = IF @ = p THEN None ELSE @]
      freeing == c[p].freeing
  IN /\ ~panicked /\ c[p].todo # <<>>
     /\ \/ /\ freeing = 0 /\ LastPut(e) /\ itab[s].lock = p
           /\ itab' = [itab EXCEPT ![s] = e]
           /\ UNCHANGED <<disk, c>>
        \/ /\ freeing = 0 /\ LastPut(e) /\ itab[s].lock = None
           /\ itab' = [itab EXCEPT ![s].lock = p, ![s].type = "none"]
           /\ disk' = [Iupdate(disk, itab'[s]) EXCEPT !.ents[e.inum] = NoEnts]
           /\ c' = [c EXCEPT ![p].freeing = 1]
        \/ /\ freeing = 1
           /\ itab' = [itab EXCEPT ![s] = FreedEntry(e)]
           /\ c' = [c EXCEPT ![p].freeing = 2]
           /\ UNCHANGED disk
        \/ /\ freeing = 2 \/ (freeing = 0 /\ ~LastPut(e))
           /\ itab' = [itab EXCEPT ![s] = IF e.ref = 1 THEN FreeEntry
                                          ELSE [e EXCEPT !.ref = @ - 1]]
           /\ c' = [c EXCEPT ![p].todo = Tail(@), ![p].freeing = 0]
           /\ UNCHANGED disk
     /\ UNCHANGED <<stable, ftab, cwd, ofile, flags>>
-----------------------------------------------------------------------------
(* filealloc(), fdalloc() and the rest of sys_open(), for the inode in entry  *)
(* s; t is the table to go on with.                                           *)
NewFds(p) == {d \in Fds : ofile[p][d] = None}
NewFiles == {f \in FileSlots : ftab[f].ref = 0}
Install(p, s, t) ==
  IF NewFds(p) = {} \/ NewFiles = {}
  THEN itab' = t /\ c' = [c EXCEPT ![p] = [Idle EXCEPT !.pc = "end", !.todo = <<s>>]]
                 /\ UNCHANGED <<ftab, ofile>>
  ELSE /\ itab' = [t EXCEPT ![s].lock = None]
       /\ ftab' = [ftab EXCEPT ![Min(NewFiles)] = [ref |-> 1, ip |-> s]]
       /\ ofile' = [ofile EXCEPT ![p][Min(NewFds(p))] = Min(NewFiles)]
       /\ c' = [c EXCEPT ![p] = [Idle EXCEPT !.pc = "end"]]

(* The call is over but for the entries it still has to put. *)
Ending(s) == [Idle EXCEPT !.pc = "end", !.todo = s]

(* sys_open() without O_CREATE: a directory can only be read. *)
Open(p) ==
  LET s == c[p].dp
      t == [itab EXCEPT ![s] = Loaded(s)]
  IN /\ At(p, "act") /\ c[p].op = "namei" /\ Lockable(s)
     /\ IF NoType(s) THEN Panic
        ELSE /\ \/ Install(p, s, t)
                \/ /\ Loaded(s).type = "dir"
                   /\ itab' = t /\ c' = [c EXCEPT ![p] = Ending(<<s>>)]
                   /\ UNCHANGED <<ftab, ofile>>
             /\ UNCHANGED <<disk, stable, cwd, flags>>

(* create() looks the name up in dp, and allocates an inode, with dp locked,  *)
(* when it is not there.                                                      *)
FreeInums == {i \in Inums : disk.type[i] = "none"}
Create(p) ==
  LET s == c[p].dp
      found == Dirlookup(disk, itab[s].inum, Elem(p))
      i == Min(FreeInums)
  IN /\ At(p, "act") /\ c[p].op = "nameiparent" /\ Lockable(s)
     /\ IF found # None /\ NoRoom(itab, found) THEN Panic
        ELSE \E t \in Types :
             /\ IF found # None
                THEN /\ itab' = Iget(itab, found)
                     /\ c' = [c EXCEPT ![p].pc = "exists", ![p].type = t,
                                ![p].ip = SlotFor(itab, found), ![p].dp = None, ![p].todo = <<s>>]
                     /\ UNCHANGED disk
                ELSE IF FreeInums = {}
                THEN c' = [c EXCEPT ![p] = Ending(<<s>>)] /\ UNCHANGED <<itab, disk>>
                ELSE /\ disk' = [disk EXCEPT !.type[i] = t, !.nlink[i] = 0,
                                             !.ents[i] = NoEnts]
                     /\ itab' = [itab EXCEPT ![s].lock = p]
                     /\ c' = [c EXCEPT ![p].pc = "newiget", ![p].type = t, ![p].num = i]
             /\ UNCHANGED <<stable, ftab, cwd, ofile, flags>>

(* The name exists: good for open(O_CREATE) of a file or a device. *)
Exists(p) ==
  LET s == c[p].ip
      t == [itab EXCEPT ![s] = Loaded(s)]
  IN /\ At(p, "exists") /\ Lockable(s)
     /\ IF NoType(s) THEN Panic
        ELSE /\ IF c[p].type = "file" /\ Loaded(s).type # "dir"
                THEN Install(p, s, t)
                ELSE itab' = t /\ c' = [c EXCEPT ![p] = Ending(<<s>>)] /\ UNCHANGED <<ftab, ofile>>
             /\ UNCHANGED <<disk, stable, cwd, flags>>

(* ialloc()'s iget(), after the buffer with the inode has been released. *)
NewIget(p) ==
  /\ At(p, "newiget")
  /\ IF NoRoom(itab, c[p].num) THEN Panic
     ELSE /\ itab' = Iget(itab, c[p].num)
          /\ c' = [c EXCEPT ![p].pc = "newlock", ![p].ip = SlotFor(itab, c[p].num),
                            ![p].num = None]
          /\ reused' = (reused \/ Holding(itab, c[p].num) # {})
          /\ UNCHANGED <<disk, stable, ftab, cwd, ofile, panicked, calls>>

(* Mutant: a directory's ".." is not counted. *)
DotDotUncounted(dir) == 0

(* The links of a directory that the ".." of one in it stands for. *)
DotDot(dir) == IF dir THEN 1 ELSE 0

(* The rest of create(); dirlink() fails when the disk is full. *)
NewLock(p) ==
  LET d == c[p].dp
      s == c[p].ip
      dir == Loaded(s).type = "dir"
      e(n) == [Loaded(s) EXCEPT !.nlink = n, !.lock = p]
      de == [itab[d] EXCEPT !.nlink = @ + DotDot(dir)]
  IN /\ At(p, "newlock") /\ Lockable(s)
     /\ IF NoType(s) THEN Panic
        ELSE /\ \/ /\ itab' = [itab EXCEPT ![s] = e(1), ![d] = de]
                   /\ disk' = Dirlink(Dirlink(Iupdate(Iupdate(disk, e(1)), de),
                                              e(1).inum, "..", IF dir THEN de.inum ELSE None),
                                      de.inum, Elem(p), e(1).inum)
                   /\ c' = [c EXCEPT ![p].pc = "created", ![p].dp = None, ![p].todo = <<d>>]
                \/ /\ itab' = [itab EXCEPT ![s] = e(0)]
                   /\ disk' = Iupdate(disk, e(0))
                   /\ c' = [c EXCEPT ![p] = Ending(<<s, d>>)]
             /\ UNCHANGED <<stable, ftab, cwd, ofile, flags>>

(* Back in sys_open(), sys_mkdir() or sys_mknod(), with ip locked. *)
Created(p) ==
  /\ At(p, "created")
  /\ IF c[p].type = "file" THEN Install(p, c[p].ip, itab)
     ELSE c' = [c EXCEPT ![p] = Ending(<<c[p].ip>>)] /\ UNCHANGED <<itab, ftab, ofile>>
  /\ UNCHANGED <<disk, stable, cwd, flags>>

(* sys_unlink() finds the name in dp, which stays locked. *)
Unlink(p) ==
  LET s == c[p].dp
      found == Dirlookup(disk, itab[s].inum, Elem(p))
      bad == Elem(p) = ".." \/ found = None
  IN /\ At(p, "act") /\ c[p].op = "nameiparent" /\ Lockable(s)
     /\ IF ~bad /\ NoRoom(itab, found) THEN Panic
        ELSE /\ IF bad
                THEN c' = [c EXCEPT ![p] = Ending(<<s>>)] /\ UNCHANGED itab
                ELSE /\ itab' = [Iget(itab, found) EXCEPT ![s].lock = p]
                     /\ c' = [c EXCEPT ![p].pc = "unlinkip", ![p].ip = SlotFor(itab, found)]
             /\ UNCHANGED <<disk, stable, ftab, cwd, ofile, flags>>

(* isdirempty() *)
IsDirEmpty(i) == \A n \in Names : disk.ents[i][n] = None

(* The entry is erased, unless ip is a directory that is not empty. *)
UnlinkIp(p) ==
  LET d == c[p].dp
      s == c[p].ip
      e == [Loaded(s) EXCEPT !.lock = p]
      dir == e.type = "dir"
      de == [itab[d] EXCEPT !.nlink = @ - DotDot(dir)]
  IN /\ At(p, "unlinkip") /\ Lockable(s)
     /\ IF NoType(s) \/ e.nlink < 1 THEN Panic
        ELSE /\ IF dir /\ ~IsDirEmpty(e.inum)
                THEN /\ itab' = [itab EXCEPT ![s] = e]
                     /\ c' = [c EXCEPT ![p] = Ending(<<s, d>>)]
                     /\ UNCHANGED disk
                ELSE /\ itab' = [itab EXCEPT ![s] = e, ![d] = de]
                     /\ disk' = [Iupdate(disk, de) EXCEPT !.ents[de.inum][Elem(p)] = None]
                     /\ c' = [c EXCEPT ![p].pc = "unlinkdec", ![p].dp = None, ![p].todo = <<d>>]
             /\ UNCHANGED <<stable, ftab, cwd, ofile, flags>>

(* Mutant: the entry is left locked. *)
AddLinkLocks(p, s, n) ==
  LET e == [Loaded(s) EXCEPT !.nlink = @ + n, !.lock = p]
  IN itab' = [itab EXCEPT ![s] = e] /\ disk' = Iupdate(disk, e)

(* nlink of the entry s goes up or down, on disk too. *)
AddLink(p, s, n) ==
  LET e == [Loaded(s) EXCEPT !.nlink = @ + n]
  IN itab' = [itab EXCEPT ![s] = e] /\ disk' = Iupdate(disk, e)

(* Once dp has been put, ip loses its link. *)
UnlinkDec(p) ==
  /\ At(p, "unlinkdec")
  /\ AddLink(p, c[p].ip, -1)
  /\ c' = [c EXCEPT ![p] = Ending(<<c[p].ip>>)]
  /\ UNCHANGED <<stable, ftab, cwd, ofile, flags>>

(* sys_link() counts the new name first, and looks up where it goes after. *)
Link(p) ==
  LET s == c[p].dp
  IN /\ At(p, "act") /\ c[p].op = "namei" /\ Lockable(s)
     /\ IF NoType(s) THEN Panic
        ELSE /\ IF Loaded(s).type = "dir"
                THEN /\ itab' = [itab EXCEPT ![s] = Loaded(s)]
                     /\ c' = [c EXCEPT ![p] = Ending(<<s>>)]
                     /\ UNCHANGED disk
                ELSE /\ AddLink(p, s, 1)
                     /\ \E n \in NewPaths :
                          c' = [c EXCEPT ![p].op = "linknew", ![p].pc = "linkwalk",
                                         ![p].path = n, ![p].ip = s, ![p].dp = None]
             /\ UNCHANGED <<stable, ftab, cwd, ofile, flags>>

LinkWalk(p) ==
  /\ At(p, "linkwalk")
  /\ \E i \in Starts(p) :
       IF NoRoom(itab, i) THEN Panic
       ELSE /\ itab' = Iget(itab, i)
            /\ c' = [c EXCEPT ![p].pc = "walk", ![p].dp = SlotFor(itab, i)]
            /\ UNCHANGED <<disk, stable, ftab, cwd, ofile, flags>>

(* dirlink() fails when the name is there or the disk is full. *)
LinkNew(p) ==
  LET d == c[p].dp
      i == itab[d].inum
  IN /\ At(p, "act") /\ c[p].op = "linknew" /\ Lockable(d)
     /\ \/ /\ c' = [c EXCEPT ![p].pc = "linkbad", ![p].dp = None, ![p].todo = <<d>>]
           /\ UNCHANGED disk
        \/ /\ Dirlookup(disk, i, Elem(p)) = None
           /\ disk' = Dirlink(disk, i, Elem(p), itab[c[p].ip].inum)
           /\ c' = [c EXCEPT ![p] = Ending(<<d, c[p].ip>>)]
     /\ UNCHANGED <<itab, stable, ftab, cwd, ofile, flags>>

LinkBad(p) ==
  /\ At(p, "linkbad") /\ Lockable(c[p].ip)
  /\ AddLink(p, c[p].ip, -1)
  /\ c' = [c EXCEPT ![p] = Ending(<<c[p].ip>>)]
  /\ UNCHANGED <<stable, ftab, cwd, ofile, flags>>

Chdir(p) ==
  LET s == c[p].dp
      ok == Loaded(s).type = "dir"
  IN /\ At(p, "act") /\ c[p].op = "namei" /\ Lockable(s)
     /\ IF NoType(s) THEN Panic
        ELSE /\ itab' = [itab EXCEPT ![s] = Loaded(s)]
             /\ c' = [c EXCEPT ![p] = Ending(<<IF ok THEN cwd[p] ELSE s>>)]
             /\ cwd' = IF ok THEN [cwd EXCEPT ![p] = s] ELSE cwd
             /\ UNCHANGED <<disk, stable, ftab, ofile, flags>>

-----------------------------------------------------------------------------
(* argfd(): the descriptors a system call accepts. *)
Argfd(p) == {d \in Fds : ofile[p][d] # None}

(* fileclose() puts the inode, if it has one, with the last reference. *)
Closed(f) == [ftab EXCEPT ![f] = IF @.ref = 1 THEN NoFile ELSE [@ EXCEPT !.ref = @ - 1]]
Fileclose(p, f) ==
  /\ ftab' = Closed(f)
  /\ c' = IF ftab[f].ref = 1 /\ ftab[f].ip # None
          THEN [c EXCEPT ![p] = Ending(<<ftab[f].ip>>)] ELSE c

(* sys_close(), and kexit()'s loop over the open files. *)
Close(p) ==
  /\ At(p, "idle")
  /\ \E d \in Argfd(p) : /\ ofile' = [ofile EXCEPT ![p][d] = None]
                         /\ Fileclose(p, ofile[p][d])
  /\ UNCHANGED <<disk, stable, itab, cwd, flags>>

(* filedup(), n times. *)
Filedup(f, n) == [f EXCEPT !.ref = @ + n]

(* sys_dup() *)
Dup(p) ==
  /\ At(p, "idle") /\ NewFds(p) # {}
  /\ \E d \in Argfd(p) :
       LET f == ofile[p][d]
       IN /\ ofile' = [ofile EXCEPT ![p][Min(NewFds(p))] = f]
          /\ ftab' = [ftab EXCEPT ![f] = Filedup(@, 1)]
  /\ UNCHANGED <<disk, stable, itab, cwd, c, flags>>

(* pipealloc()'s two filealloc()s, for files without an inode. *)
PipeFile(p, next) ==
  LET f == Min(NewFiles)
  IN /\ ftab' = [ftab EXCEPT ![f].ref = 1]
     /\ c' = [c EXCEPT ![p].pc = next, ![p].files = Append(@, f)]

Pipe(p) ==
  /\ At(p, "idle") /\ Alive(p) /\ calls + 2 <= MaxCalls /\ NewFiles # {}
  /\ PipeFile(p, "pipe")
  /\ calls' = calls + 2
  /\ UNCHANGED <<disk, stable, itab, cwd, ofile, panicked, reused>>

Pipealloc(p) ==
  /\ At(p, "pipe")
  /\ IF NewFiles # {} THEN PipeFile(p, "piped")
     ELSE c' = [c EXCEPT ![p].pc = "pipebad"] /\ UNCHANGED ftab
  /\ UNCHANGED <<disk, stable, itab, cwd, ofile, flags>>

(* The rest of sys_pipe(): two descriptors. *)
PipeDone(p) ==
  LET d == Min(NewFds(p))
      e == Min(NewFds(p) \ {d})
  IN /\ At(p, "piped") /\ Cardinality(NewFds(p)) > 1
     /\ ofile' = [ofile EXCEPT ![p][d] = c[p].files[1], ![p][e] = c[p].files[2]]
     /\ c' = [c EXCEPT ![p] = Idle]
     /\ UNCHANGED <<disk, stable, itab, ftab, cwd, flags>>

(* Without memory, descriptors or a place to copy them to, both are closed. *)
PipeBad(p) ==
  /\ At(p, "piped") \/ At(p, "pipebad")
  /\ ftab' = Closed(Head(c[p].files))
  /\ c' = [c EXCEPT ![p] = IF Len(@.files) = 1 THEN Idle
                           ELSE [@ EXCEPT !.pc = "pipebad", !.files = Tail(@)]]
  /\ UNCHANGED <<disk, stable, itab, cwd, ofile, flags>>

(* Mutant: the child's descriptors are copied without filedup(). *)
ForkNoFiledup(p, q) ==
  /\ At(p, "idle") /\ Alive(p) /\ ~Alive(q) /\ ~InOp(q)
  /\ ofile' = [ofile EXCEPT ![q] = ofile[p]]
  /\ itab' = [itab EXCEPT ![cwd[p]].ref = @ + 1]
  /\ cwd' = [cwd EXCEPT ![q] = cwd[p]]
  /\ UNCHANGED <<disk, stable, ftab, c, flags>>

(* kfork()'s filedup() of every open file and idup() of the directory. *)
Fork(p, q) ==
  /\ At(p, "idle") /\ Alive(p) /\ ~Alive(q) /\ ~InOp(q)
  /\ ofile' = [ofile EXCEPT ![q] = ofile[p]]
  /\ ftab' = [f \in FileSlots |->
                Filedup(ftab[f], Cardinality({d \in Fds : ofile[p][d] = f}))]
  /\ itab' = Idup(itab, cwd[p])
  /\ cwd' = [cwd EXCEPT ![q] = cwd[p]]
  /\ UNCHANGED <<disk, stable, c, flags>>

(* kexit() has closed the files, one by one, and puts the directory. *)
Exit(p) ==
  /\ At(p, "idle") /\ Alive(p) /\ p # Initproc
  /\ Argfd(p) = {}
  /\ c' = [c EXCEPT ![p] = Ending(<<cwd[p]>>)]
  /\ cwd' = [cwd EXCEPT ![p] = None]
  /\ UNCHANGED <<disk, stable, itab, ftab, ofile, flags>>

(* end_op(): the last call in progress commits. *)
EndOp(p) ==
  /\ At(p, "end")
  /\ c' = [c EXCEPT ![p] = Idle]
  /\ stable' = IF \A q \in Procs \ {p} : ~InOp(q) THEN disk ELSE stable
  /\ UNCHANGED <<disk, itab, ftab, cwd, ofile, flags>>

(* The machine stops; after recovery, the first process starts in fsinit(). *)
Crash ==
  /\ disk' = stable
  /\ itab' = Itab0 /\ ftab' = Ftab0 /\ cwd' = Cwd0 /\ ofile' = Ofile0
  /\ c' = C0
  /\ panicked' = FALSE /\ reused' = FALSE
  /\ UNCHANGED <<stable, calls>>

Orphans(n) == {i \in Inums : i >= n /\ disk.type[i] # "none" /\ disk.nlink[i] = 0}

(* ireclaim(): the next orphan is locked, unlocked and put. *)
Reclaim(p) ==
  LET i == Min(Orphans(c[p].num))
      t == Iget(itab, i)
      s == SlotFor(itab, i)
      e == [t[s] EXCEPT !.valid = TRUE, !.type = disk.type[i], !.nlink = disk.nlink[i]]
  IN /\ At(p, "reclaim")
     /\ IF Orphans(c[p].num) # {} /\ NoRoom(itab, i) THEN Panic
        ELSE /\ IF Orphans(c[p].num) = {}
                THEN c' = [c EXCEPT ![p] = Idle] /\ UNCHANGED itab
                ELSE /\ itab' = [t EXCEPT ![s] = e]
                     /\ c' = [c EXCEPT ![p].pc = "reclaimed", ![p].num = i + 1,
                                       ![p].todo = <<s>>]
             /\ UNCHANGED <<disk, stable, ftab, cwd, ofile, flags>>

ReclaimEnd(p) ==
  /\ At(p, "reclaimed")
  /\ c' = [c EXCEPT ![p].pc = "reclaim"]
  /\ stable' = disk
  /\ UNCHANGED <<disk, itab, ftab, cwd, ofile, flags>>

CallStep(p) ==
  \/ Walk(p) \/ PutStep(p) \/ EndOp(p)
  \/ Open(p) \/ Create(p) \/ Exists(p) \/ NewIget(p) \/ NewLock(p) \/ Created(p)
  \/ Unlink(p) \/ UnlinkIp(p) \/ UnlinkDec(p)
  \/ Link(p) \/ LinkWalk(p) \/ LinkNew(p) \/ LinkBad(p) \/ Chdir(p)
  \/ Reclaim(p) \/ ReclaimEnd(p)

Next ==
  \/ \E p \in Procs :
       \/ CallStep(p) \/ Begin(p) \/ Close(p) \/ Dup(p) \/ Exit(p)
       \/ Pipe(p) \/ Pipealloc(p) \/ PipeDone(p) \/ PipeBad(p)
       \/ \E q \in Procs : Fork(p, q)
  \/ Crash

Spec == Init /\ [][Next]_vars
-----------------------------------------------------------------------------
TypeOK ==
  /\ \A d \in {disk, stable} :
       /\ d.type \in [Inums -> {"none", "file", "dir", "dev"}]
       /\ d.nlink \in [Inums -> Nat]
       /\ d.ents \in [Inums -> [Names \cup {".."} -> Inums \cup {None}]]
  /\ \A s \in Slots : /\ itab[s].inum \in Inums \cup {None} /\ itab[s].ref \in Nat
                      /\ itab[s].nlink \in Nat /\ itab[s].lock \in Procs \cup {None}
  /\ ftab \in [FileSlots -> [ref : Nat, ip : Slots \cup {None}]]
  /\ cwd \in [Procs -> Slots \cup {None}]
  /\ ofile \in [Procs -> [Fds -> FileSlots \cup {None}]]

(* The reference counts are exact: an entry of the inode table is counted     *)
(* once for every current directory, open file and call that points to it,    *)
(* and a file once for every descriptor and for a pipe() in progress; so      *)
(* neither is recycled under anyone.                                          *)
RefsCounted ==
  /\ \A s \in Slots :
       itab[s].ref = Cardinality({p \in Procs : cwd[p] = s})
                     + Cardinality({p \in Procs : c[p].dp = s})
                     + Cardinality({p \in Procs : c[p].ip = s})
                     + Cardinality({x \in Procs \X (1..2) : x[2] \in DOMAIN c[x[1]].todo
                                                           /\ c[x[1]].todo[x[2]] = s})
                     + Cardinality({f \in FileSlots : ftab[f].ip = s})
  /\ \A f \in FileSlots :
       ftab[f].ref = Cardinality({x \in Procs \X Fds : ofile[x[1]][x[2]] = f})
                     + Cardinality({p \in Procs : f \in ToSet(c[p].files)})

(* fs.c: "one must hold itable.lock while using any of those fields": an      *)
(* inode has one entry, and a valid entry that nobody has locked agrees with  *)
(* the inode on disk, even when the inode was freed and allocated again in    *)
(* the middle of an iput().                                                   *)
EntriesCoherent ==
  \A s \in Slots :
    itab[s].ref > 0 =>
      /\ Holding(itab, itab[s].inum) = {s}
      /\ itab[s].valid /\ itab[s].lock = None =>
           /\ itab[s].type = disk.type[itab[s].inum]
           /\ itab[s].nlink = disk.nlink[itab[s].inum]

(* fs.c, in iput(): "ip->ref == 1 means no other process can have ip locked,  *)
(* so this acquiresleep() won't block (or deadlock)".                         *)
IputNeverBlocks ==
  \A p \in Procs :
    c[p].todo # <<>> /\ c[p].freeing = 0 =>
      LET e == itab[Head(c[p].todo)] IN LastPut(e) => e.lock \in {None, p}

(* No name leads to a free inode, and link counts do not undercount: every    *)
(* name of an inode, in any directory, and the ".." of every directory in it  *)
(* are counted, on disk and in what a crash leaves.                           *)
NamesOf(d, i) == {x \in Inums \X Names : d.type[x[1]] = "dir" /\ d.ents[x[1]][x[2]] = i}
Subdirs(d, i) == {n \in Names : d.ents[i][n] # None /\ d.type[d.ents[i][n]] = "dir"}
LinksCounted ==
  \A d \in {disk, stable}, i \in Inums :
    /\ NamesOf(d, i) # {} => d.type[i] # "none"
    /\ d.nlink[i] >= Cardinality(NamesOf(d, i))
         + (IF d.type[i] = "dir" /\ d.nlink[i] > 0 THEN Cardinality(Subdirs(d, i)) ELSE 0)

(* fs.c: "iput() frees if the reference and link counts have fallen to zero": *)
(* an inode without a name is in somebody's hands, or waits for ireclaim().   *)
OrphansHeld ==
  \A i \in Inums :
    disk.type[i] # "none" /\ disk.nlink[i] = 0 =>
      \/ Holding(itab, i) # {}
      \/ \E p \in Procs : c[p].pc = "newiget" /\ c[p].num = i
      \/ \E p \in Procs : c[p].pc \in {"reclaim", "reclaimed"} /\ c[p].num <= i

(* The same until ialloc() hands out an inode whose iput() has freed it on    *)
(* disk but has yet to drop its reference: that one drops it without a second *)
(* look at nlink.                                                             *)
UnlinkedHeld == ~reused => OrphansHeld

(* Inode locks are taken from parent to child: no two calls wait for each     *)
(* other's.                                                                   *)
Wanted(p) ==
  LET e == c[p]
  IN IF e.todo # <<>> THEN {}
     ELSE IF e.pc \in {"walk", "act"} THEN {e.dp}
     ELSE IF e.pc \in {"exists", "newlock", "unlinkip", "linkbad"} THEN {e.ip} ELSE {}
NoLockCycle ==
  ~ \E p, q \in Procs : /\ \E s \in Wanted(p) : itab[s].lock = q
                        /\ \E s \in Wanted(q) : itab[s].lock = p

(* The tables of open files and inodes can be relied on, up to the panics     *)
(* that stop the machine when iget() finds no entry or ilock() a free inode:  *)
(* reference counts are exact, and an entry agrees with its inode.            *)
TablesExact == TypeOK /\ RefsCounted /\ EntriesCoherent

(* No call waits for ever for an inode's lock: locks go from parent to child, *)
(* and the acquiresleep() of iput() does not wait at all.                     *)
LocksOrdered == NoLockCycle /\ IputNeverBlocks
=============================================================================
