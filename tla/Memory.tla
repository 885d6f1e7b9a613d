------------------------------- MODULE Memory --------------------------------
(* Physical pages and user address spaces: kalloc.c, vm.c, exec.c, and what   *)
(* fork, sbrk and page faults do to memory in proc.c, sysproc.c and trap.c.   *)
(*                                                                            *)
(* The free list is a set: no property tells its order.  A page table has the *)
(* three levels of Sv39 with SPAN entries in each.  Sizes and addresses are in *)
(* bytes, of which a page has PGSIZE.  A loop that allocates takes one step   *)
(* per page, so that the processes' allocations interleave.                   *)
EXTENDS Integers, Sequences, FiniteSetsExt

CONSTANTS NPROC, PGSIZE, SPAN, USERSTACK, MAXARG,
          FreePages,   \* the numbers of pages kinit() may find
          Programs,    \* per program, its headers [load, vaddr, memsz, filesz, perm]
          Grow,        \* the arguments of sbrk()
          MaxCalls     \* system calls that change an address space, in all

Procs == 1..NPROC
Initproc == 1
VPages == 0..SPAN * SPAN * SPAN - 1
Nodes == {<<2, 0>>} \cup {<<l, i>> \in {0, 1} \X VPages :
                            i < IF l = 1 THEN SPAN ELSE SPAN * SPAN}
TRAMPOLINE == Max(VPages)
TRAPFRAME == TRAMPOLINE - 1
TrampolinePage == -1  \* in the kernel's text

(* Contents of a page, other than those a process has stored. *)
Zero == 0
Junk == -1
Text == -2

NoPte == [pg |-> 0, perm |-> "-"]
NoAs == [tab |-> [n \in Nodes |-> 0], pte |-> [v \in VPages |-> NoPte]]

VARIABLES
  free,      \* kmem.freelist
  mem,       \* what is in each page that kinit() found
  as,        \* page tables: of process p at p, and the one exec builds at New(p)
  tf,        \* p->trapframe
  sz,        \* p->sz
  view,      \* what the process must find in its memory (history)
  c,         \* per process: the call it is in
  calls,
  panicked

vars == <<free, mem, as, tf, sz, view, c, calls, panicked>>

New(p) == NPROC + p
Idle == [pc |-> "idle", a |-> 0, from |-> 0, to |-> 0, perm |-> "-", todo |-> <<>>,
         size |-> 0, argv |-> {}, boot |-> FALSE, np |-> 0]
Unused == [Idle EXCEPT !.pc = "unused"]
Nothing == [v \in VPages |-> Zero]

At(p, label) == ~panicked /\ c[p].pc = label

PgUp(x) == (x + PGSIZE - 1) \div PGSIZE
-----------------------------------------------------------------------------
(* The functions of kalloc.c and vm.c map a record to a record: the free      *)
(* pages, the contents, one page table, ok, the page got, and whether a panic *)
(* was met or a free page freed.                                              *)
Start(k) == [free |-> free, mem |-> mem, as |-> as[k], ok |-> TRUE, got |-> 0, bad |-> FALSE]

Kalloc(t) ==
  IF t.free = {} THEN [t EXCEPT !.ok = FALSE]
  ELSE [t EXCEPT !.free = @ \ {Min(t.free)}, !.got = Min(t.free)]

Kfree(t, S) ==
  [t EXCEPT !.free = @ \cup S, !.bad = @ \/ S \cap t.free # {} \/ ~ S \subseteq DOMAIN t.mem,
            !.mem = [g \in DOMAIN @ |-> IF g \in S THEN Junk ELSE @[g]]]

(* The page-table page n, allocated when it is missing. *)
Table(t, n) ==
  IF ~t.ok \/ t.as.tab[n] # 0 THEN t
  ELSE LET u == Kalloc(t) IN IF u.ok THEN [u EXCEPT !.as.tab[n] = u.got] ELSE u

(* walk(), with alloc *)
Walk(t, v) == Table(Table(t, <<1, v \div (SPAN * SPAN)>>), <<0, v \div SPAN>>)

(* mappages() of one page *)
Mappages(t, v, pg, perm) ==
  LET u == Walk(t, v)
  IN IF ~u.ok THEN u
     ELSE [u EXCEPT !.as.pte[v] = [pg |-> pg, perm |-> perm], !.bad = @ \/ t.as.pte[v] # NoPte]

Uvmunmap(t, V, do_free) ==
  LET pages == {t.as.pte[v].pg : v \in V} \ {0}
      u == IF do_free THEN Kfree(t, pages) ELSE t
  IN [u EXCEPT !.as.pte = [v \in VPages |-> IF v \in V THEN NoPte ELSE @[v]]]

Freewalk(t) ==
  LET u == Kfree(t, {t.as.tab[n] : n \in Nodes} \ {0})
  IN [u EXCEPT !.as = NoAs, !.bad = @ \/ \E v \in VPages : t.as.pte[v] # NoPte]

Uvmfree(t, size) == Freewalk(Uvmunmap(t, 0..PgUp(size) - 1, TRUE))

(* uvmcreate(): the root of a page table. *)
Uvmcreate(t) == Table(t, <<2, 0>>)

(* uvmclear(): the stack guard is no longer the user's. *)
Uvmclear(image, v) == [image EXCEPT !.pte[v].perm = "guard"]

(* Mutant: a page that cannot be mapped is not given back. *)
NewPageKept(t, v, content, perm) ==
  LET u == Kalloc(t)
  IN IF u.ok THEN Mappages([u EXCEPT !.mem[u.got] = content], v, u.got, perm) ELSE u

(* A page with the content, mapped at v: what uvmalloc(), uvmcopy() and       *)
(* vmfault() do for one page.                                                 *)
NewPage(t, v, content, perm) ==
  LET u == Kalloc(t)
      w == Mappages([u EXCEPT !.mem[u.got] = content], v, u.got, perm)
  IN CASE ~u.ok -> u [] u.ok /\ w.ok -> w [] OTHER -> Kfree(w, {u.got})

(* Mutant: the new end is rounded down. *)
DiscardedDown(old, new) == (new \div PGSIZE)..PgUp(old) - 1

(* The pages that uvmdealloc(old, new) unmaps, when it shrinks. *)
Discarded(old, new) == PgUp(new)..PgUp(old) - 1

ProcPagetable(t, trapframe) ==
  LET r == Uvmcreate(t)
      a == Mappages(r, TRAMPOLINE, TrampolinePage, "kernel")
      b == Mappages(a, TRAPFRAME, trapframe, "kernel")
  IN CASE ~r.ok -> r
       [] r.ok /\ ~a.ok -> Uvmfree(a, 0)
       [] r.ok /\ a.ok /\ ~b.ok -> Uvmfree(Uvmunmap(b, {TRAMPOLINE}, FALSE), 0)
       [] OTHER -> b

ProcFreepagetable(t, size) == Uvmfree(Uvmunmap(t, {TRAMPOLINE, TRAPFRAME}, FALSE), size)

(* freeproc(), its pages: the trapframe, then the page table. *)
Freeproc(t, trapframe, size) ==
  ProcFreepagetable(Kfree(t, {trapframe}), size)

Put(k, t) ==
  /\ free' = t.free /\ mem' = t.mem /\ as' = [as EXCEPT ![k] = t.as]
  /\ panicked' = t.bad

-----------------------------------------------------------------------------
(* userinit() has allocated the first process, which is about to exec /init.  *)
Init ==
  /\ \E n \in FreePages :
       LET none == [free |-> 1..n, mem |-> [g \in 1..n |-> Junk], as |-> NoAs, ok |-> TRUE,
                    got |-> 0, bad |-> FALSE]
           u == Kalloc(none)
           t == ProcPagetable(u, u.got)
       IN /\ free = t.free /\ mem = t.mem
          /\ as = [k \in 1..2 * NPROC |-> IF k = Initproc THEN t.as ELSE NoAs]
          /\ tf = [p \in Procs |-> IF p = Initproc THEN u.got ELSE 0]
  /\ sz = [p \in Procs |-> 0]
  /\ view = [p \in Procs |-> Nothing]
  /\ c = [p \in Procs |-> IF p = Initproc THEN [Idle EXCEPT !.pc = "kexec", !.boot = TRUE]
                                        ELSE Unused]
  /\ calls = 0
  /\ panicked = FALSE

(* The kexec() of forkret(), which panics when it fails. *)
Booting(p) == c[p].boot

Call(p) == /\ At(p, "idle") /\ calls < MaxCalls
           /\ calls' = calls + 1

Fits(new) == new <= TRAPFRAME * PGSIZE

(* The size that growproc(n), n < 0, leaves: below 0 the sum wraps to a size  *)
(* that uvmdealloc() finds no smaller.                                        *)
Shrunk(size, n) == IF size + n < 0 THEN size ELSE size + n

(* sys_sbrk(), and growproc() up to the loop of uvmalloc(). *)
Sbrk(p) ==
  /\ Call(p)
  /\ \E n \in Grow, lazy \in BOOLEAN :
       LET new == IF n < 0 THEN Shrunk(sz[p], n) ELSE sz[p] + n
       IN /\ Fits(new)
          /\ IF n < 0
             THEN /\ Put(p, Uvmunmap(Start(p), Discarded(sz[p], new), TRUE))
                  /\ view' = [view EXCEPT ![p] = [v \in VPages |-> IF v * PGSIZE >= new THEN Zero ELSE @[v]]]
             ELSE UNCHANGED <<free, mem, as, view, panicked>>
          /\ sz' = IF n < 0 \/ lazy THEN [sz EXCEPT ![p] = new] ELSE sz
          /\ c' = IF n < 0 \/ lazy THEN c
                  ELSE [c EXCEPT ![p] = [Idle EXCEPT !.pc = "sbrk", !.a = PgUp(sz[p]),
                                                    !.from = PgUp(sz[p]), !.to = new, !.perm = "w"]]
  /\ UNCHANGED tf

(* The table that a loop of uvmalloc() fills. *)
Target(p) == IF c[p].pc = "sbrk" THEN p ELSE New(p)

Undone(t, p) == Uvmunmap(t, c[p].from..c[p].a - 1, TRUE)

(* An iteration of uvmalloc(), or its end. *)
Uvmalloc(p) ==
  LET t == NewPage(Start(Target(p)), c[p].a, Zero, c[p].perm)
  IN /\ ~panicked /\ c[p].pc \in {"sbrk", "segment", "stack"}
     /\ IF c[p].a * PGSIZE < c[p].to
        THEN /\ Put(Target(p), IF t.ok THEN t ELSE Undone(t, p))
             /\ c' = IF t.ok THEN [c EXCEPT ![p].a = @ + 1]
                     ELSE [c EXCEPT ![p] = IF @.pc = "sbrk" THEN Idle ELSE [@ EXCEPT !.pc = "bad"]]
             /\ UNCHANGED sz
        ELSE /\ sz' = IF c[p].pc = "sbrk" THEN [sz EXCEPT ![p] = c[p].to] ELSE sz
             /\ c' = [c EXCEPT ![p] = IF @.pc = "sbrk" THEN Idle
                                      ELSE [@ EXCEPT !.pc = IF @ = "segment" THEN "loadseg" ELSE "args",
                                                     !.size = Max({@, c[p].to})]]
             /\ UNCHANGED <<free, mem, as, panicked>>
     /\ UNCHANGED <<tf, view, calls>>

-----------------------------------------------------------------------------
(* vmfault() *)
Vmfault(p, v) ==
  LET t == Start(p)
  IN IF v * PGSIZE >= sz[p] \/ t.as.pte[v] # NoPte THEN [t EXCEPT !.ok = FALSE]
     ELSE NewPage(t, v, Zero, "w")

(* A page that the mode of access may use as it is mapped. *)
Mapped(p, v, store) == as[p].pte[v].perm \in IF store THEN {"w"} ELSE {"x", "w"}

(* The process stores in a page, or faults: usertrap() calls vmfault(), and   *)
(* kills the process when that fails.  init makes no access that fails.       *)
Touch(p) ==
  /\ At(p, "idle")
  /\ \E v \in VPages, store \in BOOLEAN :
       LET t == Vmfault(p, v)
       IN /\ v <= PgUp(sz[p])
          /\ IF Mapped(p, v, store)
             THEN /\ store
                  /\ mem' = [mem EXCEPT ![as[p].pte[v].pg] = p]
                  /\ view' = [view EXCEPT ![p][v] = p]
                  /\ UNCHANGED <<free, as, c, panicked>>
             ELSE /\ Put(p, t)
                  /\ t.ok \/ p # Initproc
                  /\ c' = IF t.ok THEN c ELSE [c EXCEPT ![p].pc = "zombie"]
                  /\ UNCHANGED view
  /\ UNCHANGED <<tf, sz, calls>>

(* The kernel copies from or to a page of the process, in copyin() or         *)
(* copyout(); it faults the page in first, and fails when it cannot.          *)
Copy(p) ==
  /\ At(p, "idle")
  /\ \E v \in VPages, out \in BOOLEAN :
       LET t == IF Mapped(p, v, out) THEN Start(p) ELSE Vmfault(p, v)
           copied == out /\ t.ok
       IN /\ v <= PgUp(sz[p])
          /\ Put(p, IF copied THEN [t EXCEPT !.mem[t.as.pte[v].pg] = p] ELSE t)
          /\ view' = IF copied THEN [view EXCEPT ![p][v] = p] ELSE view
  /\ UNCHANGED <<tf, sz, c, calls>>

-----------------------------------------------------------------------------
(* kfork() up to uvmcopy(): allocproc() of a trapframe and a page table. *)
Fork(p) ==
  /\ Call(p)
  /\ \E np \in Procs :
       LET u == Kalloc(Start(np))
           t == ProcPagetable(u, u.got)
       IN /\ c[np].pc = "unused"
          /\ IF u.ok /\ t.ok
             THEN /\ Put(np, t)
                  /\ tf' = [tf EXCEPT ![np] = u.got]
                  /\ c' = [c EXCEPT ![p] = [Idle EXCEPT !.pc = "uvmcopy", !.np = np], ![np].pc = "used"]
             ELSE /\ Put(np, IF u.ok THEN Kfree(t, {u.got}) ELSE u)
                  /\ UNCHANGED <<tf, c>>
  /\ UNCHANGED <<sz, view>>

(* An iteration of uvmcopy(), or the end of kfork(). *)
Uvmcopy(p) ==
  LET np == c[p].np
      pte == as[p].pte[c[p].a]
      t == NewPage(Start(np), c[p].a, mem[pte.pg], pte.perm)
  IN /\ At(p, "uvmcopy")
     /\ IF c[p].a * PGSIZE >= sz[p]
        THEN /\ sz' = [sz EXCEPT ![np] = sz[p]]
             /\ view' = [view EXCEPT ![np] = view[p]]
             /\ c' = [c EXCEPT ![p] = Idle, ![np] = Idle]
             /\ UNCHANGED <<free, mem, as, tf, panicked>>
        ELSE IF pte = NoPte \/ t.ok
        THEN /\ IF pte = NoPte THEN UNCHANGED <<free, mem, as, panicked>> ELSE Put(np, t)
             /\ c' = [c EXCEPT ![p].a = @ + 1]
             /\ UNCHANGED <<tf, sz, view>>
        ELSE /\ Put(np, Freeproc(Uvmunmap(t, 0..c[p].a - 1, TRUE), tf[np], 0))
             /\ tf' = [tf EXCEPT ![np] = 0]
             /\ c' = [c EXCEPT ![p] = Idle, ![np] = Unused]
             /\ UNCHANGED <<sz, view>>
     /\ UNCHANGED calls

(* exit(); the first process does not. *)
Exit(p) ==
  /\ At(p, "idle") /\ p # Initproc
  /\ c' = [c EXCEPT ![p].pc = "zombie"]
  /\ UNCHANGED <<free, mem, as, tf, sz, view, calls, panicked>>

(* freeproc(), called by the parent's kwait(). *)
Reap(p) ==
  /\ At(p, "zombie")
  /\ Put(p, Freeproc(Start(p), tf[p], sz[p]))
  /\ tf' = [tf EXCEPT ![p] = 0] /\ sz' = [sz EXCEPT ![p] = 0]
  /\ view' = [view EXCEPT ![p] = Nothing]
  /\ c' = [c EXCEPT ![p] = Unused]
  /\ UNCHANGED calls

-----------------------------------------------------------------------------
(* copyinstr() of a string in page v: unlike copyin(), it faults nothing in.  *)
Copyinstr(p, v) == Mapped(p, v, FALSE)

(* sys_exec() *)
SysExec(p) ==
  /\ Call(p)
  /\ c' = [c EXCEPT ![p] = [Idle EXCEPT !.pc = "argv"]]
  /\ UNCHANGED <<free, mem, as, tf, sz, view, panicked>>

(* One round of its loop: the pointer is fetched from page v, which may have  *)
(* to be faulted in; if it is not 0, a page is allocated for the string and   *)
(* the string fetched from page w.  bad frees the pages there are.            *)
FetchArg(p) ==
  /\ At(p, "argv")
  /\ \/ /\ Cardinality(c[p].argv) = MAXARG
        /\ c' = [c EXCEPT ![p].pc = "bad"]
        /\ Put(p, Start(p))
     \/ /\ Cardinality(c[p].argv) < MAXARG
        /\ \E v, w \in 0..PgUp(sz[p]) :
             LET t == IF Mapped(p, v, FALSE) THEN Start(p) ELSE Vmfault(p, v)
                 u == Kalloc(t)
             IN \/ /\ Put(p, t)
                   /\ c' = [c EXCEPT ![p].pc = IF t.ok THEN "kexec" ELSE "bad"]
                \/ /\ t.ok
                   /\ Put(p, u)
                   /\ c' = [c EXCEPT ![p].argv = IF u.ok THEN @ \cup {u.got} ELSE @,
                                     ![p].pc = IF u.ok /\ Copyinstr(p, w) THEN "argv" ELSE "bad"]
  /\ UNCHANGED <<tf, sz, view, calls>>

(* A header that kexec() refuses; /init has none. *)
Malformed(s) == s.load /\ (s.memsz < s.filesz \/ s.vaddr % PGSIZE # 0)

(* kexec() up to the segments; the file may not be there, or no program. *)
Kexec(p) ==
  LET t == ProcPagetable(Start(New(p)), tf[p])
  IN /\ At(p, "kexec")
     /\ \/ /\ ~Booting(p)
           /\ c' = [c EXCEPT ![p].pc = "bad"]
           /\ UNCHANGED <<free, mem, as, panicked>>
        \/ \E prog \in Programs :
             /\ Booting(p) => \A i \in DOMAIN prog : ~Malformed(prog[i])
             /\ Put(New(p), t)
             /\ c' = [c EXCEPT ![p].pc = IF t.ok THEN "next" ELSE "bad", ![p].todo = prog]
     /\ UNCHANGED <<tf, sz, view, calls>>

(* The next header: one that cannot be read or is malformed is the end, one   *)
(* that is not to be loaded is passed over, and for the others uvmalloc()     *)
(* begins.                                                                    *)
Segment(p) ==
  LET s == Head(c[p].todo)
      top == PgUp(c[p].size)
  IN /\ At(p, "next") /\ c[p].todo # <<>>
     /\ \/ /\ ~Booting(p)
           /\ c' = [c EXCEPT ![p].pc = "bad"]
        \/ /\ ~s.load
           /\ c' = [c EXCEPT ![p].todo = Tail(@)]
        \/ /\ s.load /\ ~Malformed(s)
           /\ c' = [c EXCEPT ![p] = [@ EXCEPT !.pc = "segment", !.a = top, !.from = top,
                                             !.to = s.vaddr + s.memsz, !.perm = s.perm]]
     /\ UNCHANGED <<free, mem, as, tf, sz, view, calls, panicked>>

(* After the last one, that of the stack. *)
Stack(p) ==
  LET top == PgUp(c[p].size)
  IN /\ At(p, "next") /\ c[p].todo = <<>>
     /\ c' = [c EXCEPT ![p] = [@ EXCEPT !.pc = "stack", !.a = top, !.from = top,
                                       !.to = (top + USERSTACK + 1) * PGSIZE, !.perm = "w"]]
     /\ UNCHANGED <<free, mem, as, tf, sz, view, calls, panicked>>

(* loadseg(); the file may be too short. *)
Loadseg(p) ==
  LET s == Head(c[p].todo)
      V == {v \in VPages : v * PGSIZE \in s.vaddr..s.vaddr + s.filesz - 1}
      pte == as[New(p)].pte
  IN /\ At(p, "loadseg")
     /\ mem' = [g \in DOMAIN mem |-> IF \E v \in V : pte[v].pg = g THEN Text ELSE mem[g]]
     /\ panicked' = \E v \in V : pte[v].perm \notin {"x", "w"}
     /\ \/ c' = [c EXCEPT ![p].todo = Tail(@), ![p].pc = "next"]
        \/ ~Booting(p) /\ c' = [c EXCEPT ![p].pc = "bad"]
     /\ UNCHANGED <<free, as, tf, sz, view, calls>>

(* The guard, the arguments on the stack, and the commit: the old image and   *)
(* the arguments' pages are freed.  Arguments may be too long for the stack.   *)
Args(p) ==
  LET new == as[New(p)]
      guard == PgUp(c[p].size) - USERSTACK - 1
      top == PgUp(c[p].size) - 1
      image == Uvmclear(new, guard)
      old == ProcFreepagetable(Start(p), sz[p])
      t == Kfree(old, c[p].argv)
      pushed == [t.mem EXCEPT ![new.pte[top].pg] = p]
  IN /\ At(p, "args")
     /\ \/ /\ free' = t.free /\ mem' = pushed
           /\ panicked' = t.bad
           /\ as' = [as EXCEPT ![p] = image, ![New(p)] = NoAs]
           /\ sz' = [sz EXCEPT ![p] = c[p].size]
           /\ view' = [view EXCEPT ![p] = [v \in VPages |->
                         IF new.pte[v].perm \in {"x", "w"} THEN pushed[new.pte[v].pg] ELSE Zero]]
           /\ c' = [c EXCEPT ![p] = Idle]
        \/ /\ ~Booting(p)
           /\ as' = [as EXCEPT ![New(p)] = image]
           /\ c' = [c EXCEPT ![p].pc = "bad"]
           /\ UNCHANGED <<free, mem, sz, view, panicked>>
     /\ UNCHANGED <<tf, calls>>

(* kexec() or the fetching of its arguments failed: what there is is freed. *)
Bad(p) ==
  LET k == New(p)
      t == IF as[k] = NoAs THEN Start(k) ELSE ProcFreepagetable(Start(k), c[p].size)
  IN /\ At(p, "bad")
     /\ IF Booting(p) THEN panicked' = TRUE /\ UNCHANGED <<free, mem, as>>
        ELSE Put(k, Kfree(t, c[p].argv))
     /\ c' = [c EXCEPT ![p] = Idle]
     /\ UNCHANGED <<tf, sz, view, calls>>

Next ==
  \E p \in Procs :
    \/ Sbrk(p) \/ Uvmalloc(p) \/ Touch(p) \/ Copy(p) \/ Fork(p) \/ Uvmcopy(p) \/ Exit(p) \/ Reap(p)
    \/ SysExec(p) \/ FetchArg(p) \/ Kexec(p) \/ Segment(p) \/ Stack(p) \/ Loadseg(p) \/ Args(p) \/ Bad(p)

Spec == Init /\ [][Next]_vars
-----------------------------------------------------------------------------
TypeOK ==
  /\ \E n \in FreePages : /\ mem \in [1..n -> {Zero, Junk, Text} \cup Procs]
                          /\ free \subseteq 1..n
  /\ \A p \in Procs : sz[p] \in 0..TRAPFRAME * PGSIZE /\ tf[p] \in DOMAIN mem \cup {0}

(* A page that kalloc() gave out has one owner - a place in one page table, a *)
(* process's trapframe, exec's arguments - and all others are on the free     *)
(* list: whatever fails half-way, nothing is leaked or freed twice.           *)
TabPlaces == {<<k, n>> \in (DOMAIN as) \X Nodes : as[k].tab[n] # 0}
UserPlaces == {<<k, v>> \in (DOMAIN as) \X VPages : v < TRAPFRAME /\ as[k].pte[v] # NoPte}
Owned == {as[x[1]].tab[x[2]] : x \in TabPlaces} \cup {as[x[1]].pte[x[2]].pg : x \in UserPlaces}
            \cup {tf[p] : p \in Procs} \cup UNION {c[p].argv : p \in Procs}
PagesConserved ==
  /\ (Owned \ {0}) \cap free = {} /\ (Owned \ {0}) \cup free = DOMAIN mem
  /\ Cardinality(Owned \ {0}) = Cardinality(TabPlaces) + Cardinality(UserPlaces)
       + Cardinality({p \in Procs : tf[p] # 0})
       + Cardinality({<<p, g>> \in Procs \X DOMAIN mem : g \in c[p].argv})

(* A process finds in its memory what it stored there, or what fork() copied  *)
(* or exec() loaded, and zeros in what it never touched, lazily allocated or  *)
(* given back and taken again.                                                *)
Live(p) == c[p].pc \notin {"unused", "used", "zombie"}
MemoryKept ==
  \A p \in {q \in Procs : Live(q)}, v \in VPages : v < PgUp(sz[p]) =>
    IF as[p].pte[v] = NoPte THEN view[p][v] = Zero
    ELSE as[p].pte[v].perm # "guard" => mem[as[p].pte[v].pg] = view[p][v]

(* Between system calls a process has no user page at or above its size: a    *)
(* failed uvmalloc() has undone its work.  freewalk() counts on it.           *)
NothingBeyondSize ==
  \A p \in Procs : c[p].pc \in {"idle", "zombie"} =>
    \A v \in PgUp(sz[p])..TRAPFRAME - 1 : as[p].pte[v] = NoPte

(* No panic of kfree(), mappages(), freewalk(), uvmclear() or loadseg() is    *)
(* reached, and no free page is freed.                                        *)
NoPanic == ~panicked

(* The page accounting of kalloc.c and vm.c holds at every step of every      *)
(* failure path: PagesConserved, and the panics that guard it are not reached.*)
PagesSound == TypeOK /\ PagesConserved /\ NoPanic

(* A process's memory is what it made it: MemoryKept below its size, and      *)
(* NothingBeyondSize above it.                                                *)
MemorySound == MemoryKept /\ NothingBeyondSize
=============================================================================
